-------------------------- MODULE RadioLinkProofs --------------------------
(***************************************************************************)
(* The receive path of the radio link for any number of frames, of faults, *)
(* of configuration commands and of attempts at the bring-up.              *)
(***************************************************************************)
EXTENDS RadioLink, TLAPS

-----------------------------------------------------------------------------
(* Type correctness *)

\* The locations the actions name are locations.
LEMMA LocationsNamed ==
  /\ {"reset", "op_cond", "bring_up", "configure", "write", "link_check",
      "check_int", "clear_flag", "INT_PENDING", "SLAVE_INTR_ID", "len_low",
      "len_high", "read", "init_again", "dispatch", "send"} \subseteq Locations
  /\ \A k \in 1..Len(Registers) : Registers[k] \in Locations
                                  /\ Registers[k] \in RegisterSet
  /\ Len(Registers) = 4
<1>1. Len(Registers) = 4
  BY DEF Registers
<1>. QED  BY <1>1 DEF Locations, RegisterSet

\* The variables the actions below leave alone, or hardly touch.
ModuleTyped ==
  /\ up \in BOOLEAN /\ regs \subseteq RegisterSet /\ queue \in Seq(Frames)
  /\ sent \in 0..MaxFrames /\ faults \in 0..MaxFaults /\ rx_flag \in BOOLEAN
AppTyped ==
  /\ role \in Roles /\ ncfg \in 0..NumCommands
  /\ conn_state \in BOOLEAN /\ Wifi_Connected \in BOOLEAN
  /\ due \in BOOLEAN /\ assocOver \in BOOLEAN /\ Tx_Started \in BOOLEAN
  /\ last \in 0..MaxFrames /\ kept \in BOOLEAN
DriverTyped ==
  /\ pc \in Locations /\ ret \in Locations
  /\ attempt \in 1..SDIO_INIT_MAX_RETRY_COUNT
  /\ data_len \in {"zero", "right", "wrong"} /\ buf \in Frames \cup {Garbage}

LEMMA TypeParts == TypeOK <=> ModuleTyped /\ AppTyped /\ DriverTyped
BY DEF TypeOK, ModuleTyped, AppTyped, DriverTyped

\* Every initial state is well typed.
LEMMA TypeInit == Init => TypeOK
<1>. SUFFICES ASSUME Init PROVE TypeOK
  OBVIOUS
<1>1. ModuleTyped
  <2>1. sent \in 0..MaxFrames /\ faults \in 0..MaxFaults
    BY RadioAssumption DEF Init
  <2>2. up \in BOOLEAN /\ regs \subseteq RegisterSet
    <3>1. (up = FALSE /\ regs = {}) \/ (up = TRUE /\ regs = RegisterSet)
      BY DEF Init
    <3>. QED  BY <3>1, Zenon
  <2>3. queue \in Seq(Frames)
    BY DEF Init
  <2>4. rx_flag \in BOOLEAN
    BY Zenon DEF Init
  <2>. QED  BY <2>1, <2>2, <2>3, <2>4 DEF ModuleTyped
<1>2. AppTyped
  <2>1. ncfg \in 0..NumCommands /\ last \in 0..MaxFrames
    BY RadioAssumption DEF Init
  <2>. QED  BY <2>1 DEF Init, AppTyped
<1>3. DriverTyped
  BY RadioAssumption, LocationsNamed DEF Init, DriverTyped
<1>. QED  BY <1>1, <1>2, <1>3, TypeParts

\* A fault uses up one of those that are left.
LEMMA FaultType ==
  ASSUME faults \in 0..MaxFaults, NEW f \in {0, 1},
         Succeeds(f) \/ Fails(f) \/ Deceives(f) \/ Fault
  PROVE  faults' \in 0..MaxFaults
BY RadioAssumption DEF Succeeds, Fails, Deceives, Fault

\* The interrupt sets a flag.
LEMMA FlagType ==
  ASSUME rx_flag \in BOOLEAN, NEW s \in BOOLEAN, Interrupt(rx_flag, s)
  PROVE  rx_flag' \in BOOLEAN
BY DEF Interrupt

\* A command that leaves the module as it is.
LEMMA AsksType ==
  ASSUME ModuleTyped, Asks, NEW f \in {0, 1},
         Succeeds(f) \/ Fails(f) \/ Deceives(f)
  PROVE  ModuleTyped'
<1>1. faults' \in 0..MaxFaults
  BY FaultType DEF ModuleTyped
<1>2. rx_flag' \in BOOLEAN
  BY FlagType DEF Asks, ModuleTyped
<1>. QED  BY <1>1, <1>2 DEF Asks, module, ModuleTyped

\* What is left of the queue is a queue of frames.
LEMMA TailType ==
  ASSUME queue \in Seq(Frames), queue # <<>>
  PROVE  Head(queue) \in Frames /\ Tail(queue) \in Seq(Frames)
OBVIOUS

\* Each action keeps the types.
LEMMA TypeStep == TypeOK /\ [Next]_vars => TypeOK'
<1>. SUFFICES ASSUME TypeOK, [Next]_vars PROVE ModuleTyped' /\ AppTyped' /\ DriverTyped'
  BY DEF TypeOK, ModuleTyped, AppTyped, DriverTyped
<1>. ModuleTyped /\ AppTyped /\ DriverTyped
  BY TypeParts
<1>1. CASE FrameArrives
  <2>1. sent' \in 1..MaxFrames /\ sent' \in 0..MaxFrames
    BY <1>1, RadioAssumption DEF FrameArrives, ModuleTyped
  <2>2. queue' \in Seq(Frames)
    <3>. PICK kind \in Sends : queue' = Append(queue, [num |-> sent', kind |-> kind])
      BY <1>1 DEF FrameArrives
    <3>1. [num |-> sent', kind |-> kind] \in Frames
      BY <2>1, RadioAssumption DEF Frames
    <3>. QED  BY <3>1 DEF ModuleTyped
  <2>3. rx_flag' \in BOOLEAN
    BY <1>1, FlagType DEF FrameArrives, ModuleTyped
  <2>. QED  BY <1>1, <2>1, <2>2, <2>3
            DEF FrameArrives, ModuleTyped, AppTyped, DriverTyped, local, flags, app
<1>2. CASE ModuleFallsBack
  <2>1. faults' \in 0..MaxFaults
    BY <1>2, RadioAssumption DEF ModuleFallsBack, ModuleTyped
  <2>. QED  BY <1>2, <2>1 DEF ModuleFallsBack, ModuleTyped, AppTyped, DriverTyped,
                              local, flags, app
<1>3. CASE AlivePeriodElapses \/ AssocTimeElapses
  BY <1>3 DEF AlivePeriodElapses, AssocTimeElapses, ModuleTyped, AppTyped,
              DriverTyped, module, local, app
<1>4. CASE GoIdle
  <2>1. faults' \in 0..MaxFaults
    BY <1>4, RadioAssumption DEF GoIdle, Fault, ModuleTyped
  <2>2. queue' \in Seq(Frames)
    <3>1. queue' = queue \/ queue' = <<>>
      BY <1>4 DEF GoIdle
    <3>2. <<>> \in Seq(Frames)
      OBVIOUS
    <3>3. queue \in Seq(Frames)
      BY DEF ModuleTyped
    <3>. QED  BY <3>1, <3>2, <3>3, Zenon
  <2>3. up' \in BOOLEAN /\ regs' \subseteq RegisterSet
    <3>1. (up' = TRUE /\ regs' = {}) \/ UNCHANGED <<up, regs>>
      BY <1>4 DEF GoIdle
    <3>. QED  BY <3>1, Zenon DEF ModuleTyped
  <2>4. rx_flag' \in BOOLEAN
    BY <1>4, FlagType DEF GoIdle, ModuleTyped
  <2>5. ModuleTyped'
    BY <1>4, <2>1, <2>2, <2>3, <2>4 DEF GoIdle, ModuleTyped
  <2>. QED  BY <1>4, <2>5, LocationsNamed
            DEF GoIdle, Goto, AppTyped, DriverTyped, local, flags, app
<1>5. CASE SendOpCond
  <2>1. ModuleTyped'
    BY <1>5, AsksType DEF SendOpCond
  <2>2. pc' \in Locations /\ ret' \in Locations
    BY <1>5, LocationsNamed DEF SendOpCond, Goto, DriverTyped
  <2>. QED  BY <1>5, <2>1, <2>2 DEF SendOpCond, AppTyped, DriverTyped, local, flags, app
<1>6. CASE WriteRegister
  <2>. PICK k \in 1..Len(Registers) :
         /\ Succeeds(0) \/ Fails(0)
         /\ regs' \in {regs, regs \cup {Registers[k]}}
         /\ Goto(IF k < Len(Registers) THEN Registers[k + 1] ELSE Done)
         /\ UNCHANGED <<up, queue, sent, attempt, local, flags, app>>
         /\ Interrupt(rx_flag, TRUE)
    BY <1>6 DEF WriteRegister
  <2>1. faults' \in 0..MaxFaults
    BY FaultType DEF ModuleTyped
  <2>2. rx_flag' \in BOOLEAN
    BY FlagType DEF ModuleTyped
  <2>3. ModuleTyped'
    BY <2>1, <2>2, LocationsNamed DEF ModuleTyped
  <2>4. pc' \in Locations /\ ret' \in Locations
    BY LocationsNamed DEF Goto, Done, DriverTyped
  <2>. QED  BY <2>3, <2>4 DEF AppTyped, DriverTyped, local, flags, app
<1>7. CASE BringUp
  <2>1. attempt' \in 1..SDIO_INIT_MAX_RETRY_COUNT
    BY <1>7, RadioAssumption DEF BringUp, DriverTyped
  <2>. QED  BY <1>7, <2>1, LocationsNamed
            DEF BringUp, Reinit, Goto, ModuleTyped, AppTyped, DriverTyped,
                module, local, flags, app
<1>8. CASE App_WiFiConfigure
  <2>1. ncfg' \in 0..NumCommands
    BY <1>8, RadioAssumption DEF App_WiFiConfigure, AppTyped
  <2>. QED  BY <1>8, <2>1, LocationsNamed
            DEF App_WiFiConfigure, Goto, ModuleTyped, AppTyped, DriverTyped,
                module, local, flags
<1>9. CASE Write
  <2>1. ModuleTyped'
    BY <1>9, AsksType DEF Write
  <2>. QED  BY <1>9, <2>1, LocationsNamed
            DEF Write, Reinit, Goto, AppTyped, DriverTyped, local, flags, app
<1>10. CASE App_R900PnrLinkCheck
  <2>1. ModuleTyped'
    BY <1>10, AsksType DEF App_R900PnrLinkCheck, ModuleTyped, module
  <2>. QED  BY <1>10, <2>1, LocationsNamed
            DEF App_R900PnrLinkCheck, Reinit, Goto, AppTyped, DriverTyped, local, app
<1>11. CASE CheckSignal \/ ClearFlag \/ InitAgain
  BY <1>11, LocationsNamed
     DEF CheckSignal, ClearFlag, InitAgain, Reinit, Goto, ModuleTyped, AppTyped,
         DriverTyped, module, local, flags, app
<1>12. CASE ReadPending \/ ReadIntrId
  <2>1. ModuleTyped'
    BY <1>12, AsksType DEF ReadPending, ReadIntrId
  <2>. QED  BY <1>12, <2>1, LocationsNamed
            DEF ReadPending, ReadIntrId, Reinit, Goto, AppTyped, DriverTyped,
                local, flags, app
<1>13. CASE ReadLenLow \/ ReadLenHigh
  <2>1. ModuleTyped'
    BY <1>13, AsksType DEF ReadLenLow, ReadLenHigh
  <2>. QED  BY <1>13, <2>1, LocationsNamed
            DEF ReadLenLow, ReadLenHigh, Reinit, Goto, AppTyped, DriverTyped,
                flags, app
<1>14. CASE ReadData
  <2>1. faults' \in 0..MaxFaults /\ rx_flag' \in BOOLEAN
    BY <1>14, FaultType, FlagType DEF ReadData, ModuleTyped
  <2>2. queue' \in Seq(Frames) /\ buf' \in Frames \cup {Garbage}
    BY <1>14, TailType DEF ReadData, Transfer, Misread, ModuleTyped, DriverTyped
  <2>3. ModuleTyped'
    BY <1>14, <2>1, <2>2 DEF ReadData, ModuleTyped
  <2>4. pc' \in Locations /\ ret' \in Locations
    BY <1>14, LocationsNamed DEF ReadData, AfterRead, Reinit, Goto, DriverTyped
  <2>. QED  BY <1>14, <2>2, <2>3, <2>4
            DEF ReadData, AppTyped, DriverTyped, flags, app
<1>15. CASE Dispatch
  <2>1. last' \in 0..MaxFrames /\ kept' \in BOOLEAN
    <3>1. CASE buf = Garbage
      BY <1>15, <3>1 DEF Dispatch, AppTyped
    <3>2. CASE buf # Garbage
      <4>1. buf.num \in 0..MaxFrames
        BY <3>2 DEF DriverTyped, Frames
      <4>2. StillQueued \in BOOLEAN
        BY DEF StillQueued
      <4>. QED  BY <1>15, <3>2, <4>1, <4>2 DEF Dispatch
    <3>. QED  BY <3>1, <3>2
  <2>2. conn_state' \in BOOLEAN /\ Wifi_Connected' \in BOOLEAN
    BY <1>15 DEF Dispatch, AppTyped
  <2>3. pc' \in Locations /\ ret' \in Locations
    BY <1>15, LocationsNamed DEF Dispatch, Goto, DriverTyped
  <2>. QED  BY <1>15, <2>1, <2>2, <2>3
            DEF Dispatch, ModuleTyped, AppTyped, DriverTyped, module, local, flags
<1>16. CASE App_DemoSendH265
  BY <1>16, LocationsNamed
     DEF App_DemoSendH265, Goto, ModuleTyped, AppTyped, DriverTyped, module,
         local, flags
<1>17. CASE UNCHANGED vars
  BY <1>17 DEF vars, ModuleTyped, AppTyped, DriverTyped, module, local, flags, app
<1>. QED  BY <1>1, <1>2, <1>3, <1>4, <1>5, <1>6, <1>7, <1>8, <1>9, <1>10, <1>11,
             <1>12, <1>13, <1>14, <1>15, <1>16, <1>17
          DEF Next, MainLoop, Driver, Poll

\* TypeOK for any number of frames, faults, commands and attempts.
THEOREM LinkTypes == Spec => []TypeOK
BY TypeInit, TypeStep, PTL DEF Spec

-----------------------------------------------------------------------------
(* The order of the frames *)

\* The first number that may be handed on after the last one: the next, or the
\* same again if the module has kept that frame.
Least == IF kept THEN last ELSE last + 1

\* The frames on their way are those, in the order the module received them,
\* without repetition.
Waiting ==
  /\ last <= sent
  /\ \A k \in 1..Len(queue) : Least <= queue[k].num /\ queue[k].num <= sent
  /\ \A j, k \in 1..Len(queue) : j < k => queue[j].num < queue[k].num

\* The buffer matters while it is being dispatched: it then holds a frame that
\* comes before all that wait, or the first of them.
Fresh ==
  pc = "dispatch" /\ buf # Garbage =>
    /\ Least <= buf.num /\ buf.num <= sent
    /\ \A k \in 1..Len(queue) : \/ buf.num < queue[k].num
                                \/ k = 1 /\ buf = queue[k]

\* The driver never returns into the dispatch.
Returns == ret # "dispatch"

Order == Waiting /\ Fresh /\ Returns

\* It is a number, and moves with last and kept alone.
LEMMA LeastType == TypeOK => last \in Nat /\ Least \in Nat
BY RadioAssumption DEF TypeOK, Least

LEMMA LeastStays == ASSUME UNCHANGED <<last, kept>> PROVE Least' = Least
BY DEF Least

\* At first nothing has come.
LEMMA OrderInit == Init => Order
BY RadioAssumption DEF Init, Order, Waiting, Fresh, Returns

\* No action makes the dispatch the place to return to.
LEMMA ReturnsStep == Returns /\ [Next]_vars => Returns'
<1>. SUFFICES ASSUME Returns, [Next]_vars PROVE Returns'
  OBVIOUS
<1>1. CASE FrameArrives \/ ModuleFallsBack \/ AlivePeriodElapses
           \/ AssocTimeElapses \/ UNCHANGED vars
  BY <1>1 DEF FrameArrives, ModuleFallsBack, AlivePeriodElapses,
              AssocTimeElapses, vars, Returns
<1>2. CASE Driver
  BY <1>2 DEF Driver, GoIdle, SendOpCond, WriteRegister, Write, Reinit, Goto, Returns
<1>3. CASE BringUp \/ App_WiFiConfigure
  BY <1>3 DEF BringUp, App_WiFiConfigure, Reinit, Goto, Returns
<1>4. CASE Poll
  BY <1>4 DEF Poll, App_R900PnrLinkCheck, CheckSignal, ClearFlag, ReadPending,
              ReadIntrId, ReadLenLow, ReadLenHigh, ReadData, InitAgain, Dispatch,
              App_DemoSendH265, Reinit, Goto, Returns
<1>. QED  BY <1>1, <1>2, <1>3, <1>4 DEF Next, MainLoop

\* A queue that got shorter at its head keeps its order.
LEMMA OrderOfTail ==
  ASSUME TypeOK, Waiting, UNCHANGED <<last, kept, sent>>,
         queue' = queue \/ queue' = <<>> \/ (queue # <<>> /\ queue' = Tail(queue))
  PROVE  Waiting'
<1>1. queue \in Seq(Frames)
  BY DEF TypeOK
<1>. Least' = Least
  BY LeastStays
<1>2. CASE queue' = queue \/ queue' = <<>>
  BY <1>2 DEF Waiting
<1>3. CASE queue # <<>> /\ queue' = Tail(queue)
  <2>1. Len(queue') = Len(queue) - 1
        /\ \A k \in 1..Len(queue') : queue'[k] = queue[k + 1] /\ k + 1 \in 1..Len(queue)
    BY <1>1, <1>3
  <2>2. \A k \in 1..Len(queue') : Least' <= queue'[k].num /\ queue'[k].num <= sent'
    BY <2>1 DEF Waiting
  <2>3. \A j, k \in 1..Len(queue') : j < k => j + 1 < k + 1
    BY <1>1
  <2>4. \A j, k \in 1..Len(queue') : j < k => queue'[j].num < queue'[k].num
    BY <2>1, <2>3 DEF Waiting
  <2>. QED  BY <2>2, <2>4 DEF Waiting
<1>. QED  BY <1>2, <1>3

\* Each action keeps the order.
LEMMA OrderStep ==
  ASSUME TypeOK, Waiting, Fresh, Returns, [Next]_vars
  PROVE  Waiting' /\ Fresh'
<1>. /\ queue \in Seq(Frames) /\ Len(queue) \in Nat
     /\ last \in Nat /\ Least \in Nat
  BY LeastType DEF TypeOK
<1>1. CASE FrameArrives
  <2>. PICK kind \in Sends : queue' = Append(queue, [num |-> sent', kind |-> kind])
    BY <1>1 DEF FrameArrives
  <2>1. sent' = sent + 1 /\ sent \in Nat /\ last \in Nat
    BY <1>1, RadioAssumption DEF FrameArrives, TypeOK
  <2>2. /\ Len(queue') = Len(queue) + 1
        /\ \A k \in 1..Len(queue) : queue'[k] = queue[k]
        /\ queue'[Len(queue) + 1].num = sent + 1
    BY <2>1
  <2>3. \A k \in 1..Len(queue) : queue[k].num \in Nat
    <3>1. \A k \in 1..Len(queue) : queue[k] \in Frames
      OBVIOUS
    <3>. QED  BY <3>1, RadioAssumption DEF Frames
  <2>4. UNCHANGED <<pc, buf, last, kept>>
    BY <1>1 DEF FrameArrives, local, app
  <2>8. Least' = Least /\ Least <= last + 1
    BY <2>1, <2>4, LeastStays DEF Least
  <2>5. Waiting'
    BY <2>1, <2>2, <2>3, <2>4, <2>8 DEF Waiting
  <2>6. buf # Garbage => buf.num \in Nat
    BY DEF TypeOK, Frames
  <2>7. Fresh'
    BY <2>1, <2>2, <2>3, <2>4, <2>6, <2>8 DEF Fresh
  <2>. QED  BY <2>5, <2>7
<1>2. CASE GoIdle
  <2>1. /\ queue' = queue \/ queue' = <<>>
        /\ UNCHANGED <<last, kept, sent>> /\ pc' = "op_cond"
    BY <1>2 DEF GoIdle, Goto, app
  <2>. QED  BY <2>1, OrderOfTail DEF Fresh
<1>3. CASE ReadData
  <2>1. /\ queue' = queue \/ (queue # <<>> /\ queue' = Tail(queue))
        /\ UNCHANGED <<last, kept, sent>>
    BY <1>3 DEF ReadData, Transfer, Misread, app
  <2>2. Waiting'
    BY <2>1, OrderOfTail
  <2>3. \/ pc' # "dispatch" \/ buf' = Garbage
        \/ queue # <<>> /\ buf' = Head(queue)
    BY <1>3 DEF ReadData, Transfer, Misread, Reinit
  <2>4. CASE queue # <<>> /\ buf' = Head(queue)
    <3>1. buf' = queue[1] /\ Len(queue) > 0 /\ 1 \in 1..Len(queue)
      BY <2>4
    <3>2. Least' <= buf'.num /\ buf'.num <= sent'
      BY <2>1, <3>1, LeastStays DEF Waiting
    <3>3. CASE queue' = queue
      <4>1. \A k \in 1..Len(queue) : k = 1 \/ 1 < k
        OBVIOUS
      <4>. QED  BY <2>2, <3>1, <3>2, <3>3, <4>1 DEF Waiting, Fresh
    <3>4. CASE queue' = Tail(queue)
      <4>1. /\ Len(queue') = Len(queue) - 1
            /\ \A k \in 1..Len(queue') : /\ queue'[k] = queue[k + 1]
                                         /\ k + 1 \in 1..Len(queue) /\ 1 < k + 1
        BY <2>4, <3>4
      <4>. QED  BY <2>2, <3>1, <3>2, <4>1 DEF Waiting, Fresh
    <3>. QED  BY <2>1, <3>3, <3>4
  <2>. QED  BY <2>2, <2>3, <2>4 DEF Fresh
<1>4. CASE Dispatch
  <2>1. /\ UNCHANGED <<queue, sent>> /\ pc = "dispatch" /\ pc' # "dispatch"
        /\ buf = Garbage => UNCHANGED <<last, kept>>
        /\ buf # Garbage => last' = buf.num /\ kept' = StillQueued
    BY <1>4 DEF Dispatch, Goto, module
  <2>2. CASE buf = Garbage
    <3>1. Least' = Least /\ last' = last
      BY <2>1, <2>2, LeastStays
    <3>. QED  BY <2>1, <3>1 DEF Waiting, Fresh
  <2>3. CASE buf # Garbage
    <3>1. last' = buf.num /\ buf.num \in Nat
      BY <2>1, <2>3, RadioAssumption DEF TypeOK, Frames
    <3>2. Least' = IF StillQueued THEN buf.num ELSE buf.num + 1
      BY <2>1, <2>3 DEF Least
    <3>3. ASSUME NEW k \in 1..Len(queue) PROVE Least' <= queue[k].num
      <4>0. queue[k].num \in Nat
        <5>1. queue[k] \in Frames
          OBVIOUS
        <5>. QED  BY <5>1, RadioAssumption DEF Frames
      <4>1. CASE buf.num < queue[k].num
        BY <3>1, <3>2, <4>0, <4>1
      <4>2. CASE k = 1 /\ buf = queue[k]
        <5>1. StillQueued
          BY <3>3, <4>2 DEF StillQueued
        <5>. QED  BY <3>1, <3>2, <4>2, <5>1
      <4>. QED  BY <2>1, <2>3, <3>3, <4>1, <4>2 DEF Fresh
    <3>. QED  BY <2>1, <2>3, <3>1, <3>3 DEF Waiting, Fresh
  <2>. QED  BY <2>2, <2>3
<1>5. ASSUME UNCHANGED <<queue, sent, last, kept>>,
             pc' # "dispatch" \/ UNCHANGED <<pc, buf>>
      PROVE  Waiting' /\ Fresh'
  BY <1>5, LeastStays DEF Waiting, Fresh
<1>6. CASE ModuleFallsBack \/ AlivePeriodElapses \/ AssocTimeElapses
           \/ UNCHANGED vars
  BY <1>5, <1>6 DEF ModuleFallsBack, AlivePeriodElapses, AssocTimeElapses, vars,
                    module, local, app
<1>7. CASE BringUp \/ App_WiFiConfigure \/ CheckSignal \/ ClearFlag \/ InitAgain
           \/ App_DemoSendH265
  BY <1>5, <1>7 DEF BringUp, App_WiFiConfigure, CheckSignal, ClearFlag, InitAgain,
                    App_DemoSendH265, Reinit, Goto, module, app
<1>8. CASE SendOpCond \/ Write \/ App_R900PnrLinkCheck
  <2>1. UNCHANGED <<queue, sent, last, kept>>
    BY <1>8 DEF SendOpCond, Write, App_R900PnrLinkCheck, Asks, module, app
  <2>2. pc' # "dispatch"
    BY <1>8 DEF SendOpCond, Write, App_R900PnrLinkCheck, Reinit, Goto, Returns, Registers
  <2>. QED  BY <1>5, <2>1, <2>2
<1>9. CASE WriteRegister
  <2>. PICK k \in 1..Len(Registers) :
         /\ Goto(IF k < Len(Registers) THEN Registers[k + 1] ELSE Done)
         /\ UNCHANGED <<up, queue, sent, attempt, local, flags, app>>
    BY <1>9 DEF WriteRegister
  <2>1. pc' # "dispatch"
    <3>1. CASE k < Len(Registers)
      <4>1. k + 1 \in 1..4
        BY <3>1, LocationsNamed
      <4>2. Registers[k + 1] # "dispatch"
        BY <4>1 DEF Registers
      <4>. QED  BY <3>1, <4>2 DEF Goto
    <3>2. CASE ~(k < Len(Registers))
      BY <3>2 DEF Goto, Done, Returns
    <3>. QED  BY <3>1, <3>2
  <2>. QED  BY <1>5, <2>1 DEF app
<1>10. CASE ReadPending \/ ReadIntrId \/ ReadLenLow \/ ReadLenHigh
  BY <1>5, <1>10 DEF ReadPending, ReadIntrId, ReadLenLow, ReadLenHigh, Asks, Reinit,
                     Goto, module, app
<1>. QED  BY <1>1, <1>2, <1>3, <1>4, <1>6, <1>7, <1>8, <1>9, <1>10
          DEF Next, MainLoop, Driver, Poll

\* The order is an invariant.
LEMMA OrderHolds == Spec => [](TypeOK /\ Order)
<1>1. TypeOK /\ Order /\ [Next]_vars => Order'
  BY OrderStep, ReturnsStep DEF Order
<1>. QED  BY <1>1, OrderInit, LinkTypes, TypeStep, PTL DEF Spec

\* Only a dispatch hands a frame on, and it comes after the last one, or is
\* that one again, after a read that the module did not count.
THEOREM FramesInOrder == Spec => InOrder
<1>1. TypeOK /\ Order =>
        (pc = "dispatch" /\ pc' # "dispatch" /\ buf # Garbage
           => buf.num > last \/ (kept /\ buf.num = last))
  <2>. SUFFICES ASSUME TypeOK, Order, pc = "dispatch", buf # Garbage
                PROVE  buf.num > last \/ (kept /\ buf.num = last)
    OBVIOUS
  <2>1. Least <= buf.num /\ last \in Nat /\ buf.num \in Nat
    BY LeastType, RadioAssumption DEF Order, Fresh, TypeOK, Frames
  <2>2. CASE kept
    <3>1. Least = last
      BY <2>2 DEF Least
    <3>2. buf.num > last \/ buf.num = last
      BY <2>1, <3>1
    <3>. QED  BY <2>2, <3>2
  <2>3. CASE ~kept
    <3>1. Least = last + 1
      BY <2>3 DEF Least
    <3>. QED  BY <2>1, <3>1
  <2>. QED  BY <2>2, <2>3
<1>2. TypeOK /\ Order /\ [Next]_vars =>
        [pc = "dispatch" /\ pc' # "dispatch" /\ buf # Garbage
           => buf.num > last \/ (kept /\ buf.num = last)]_vars
  BY <1>1
<1>. QED  BY <1>2, OrderHolds, PTL DEF Spec, InOrder

-----------------------------------------------------------------------------
(* The end of a pass *)

\* Where hgic_sdspi_init and hgic_sdspi_write may have been called.
Callers == {"bring_up", "configure", "check_int", "init_again", "send",
            "link_check"}
Called == ret \in Callers

\* What is left once the driver has returned.
Back == LeftAt(ret)

\* The variant at the places outside of the driver, ...
PlaceTable ==
  /\ pc = "bring_up" => PassLeft = BringUpLeft
  /\ pc = "configure" => PassLeft = ConfigureLeft
  /\ pc = "check_int" => PassLeft = 28
  /\ pc = "clear_flag" => PassLeft = 27
  /\ pc = "INT_PENDING" => PassLeft = 26
  /\ pc = "SLAVE_INTR_ID" => PassLeft = 25
  /\ pc = "len_low" => PassLeft = 24
  /\ pc = "len_high" => PassLeft = 23
  /\ pc = "read" => PassLeft = 22
  /\ pc = "dispatch" => PassLeft = 16
  /\ pc = "init_again" => PassLeft = 15
  /\ pc = "send" => PassLeft = 8
  /\ pc = "link_check" => PassLeft = 0

\* ... inside of it, ...
DriverTable ==
  /\ pc = "reset" => PassLeft = 6 + Back
  /\ pc = "op_cond" => PassLeft = 5 + Back
  /\ pc = "IO_ENABLE" => PassLeft = 4 + Back
  /\ pc = "INT_ENABLE" => PassLeft = 3 + Back
  /\ pc = "BUS_IF_CTRL" => PassLeft = 2 + Back
  /\ pc = "BLOCK_SIZE" => PassLeft = 1 + Back
  /\ pc = "write" => PassLeft = 7 + Back

\* ... and after it.
BackTable ==
  /\ ret = "bring_up" => Back = BringUpLeft
  /\ ret = "configure" => Back = ConfigureLeft
  /\ ret = "check_int" => Back = 28
  /\ ret = "init_again" => Back = 15
  /\ ret = "send" => Back = 8
  /\ ret = "link_check" => Back = 0

\* The four names of the registers.
LEMMA RegisterNames ==
  /\ RegisterSet = {"IO_ENABLE", "INT_ENABLE", "BUS_IF_CTRL", "BLOCK_SIZE"}
  /\ Registers[1] = "IO_ENABLE" /\ Registers[2] = "INT_ENABLE"
  /\ Registers[3] = "BUS_IF_CTRL" /\ Registers[4] = "BLOCK_SIZE"
<1>1. Registers[1] = "IO_ENABLE" /\ Registers[2] = "INT_ENABLE"
      /\ Registers[3] = "BUS_IF_CTRL" /\ Registers[4] = "BLOCK_SIZE"
  BY DEF Registers
<1>2. \A k \in 1..Len(Registers) : k = 1 \/ k = 2 \/ k = 3 \/ k = 4
  BY LocationsNamed
<1>3. 1 \in 1..Len(Registers) /\ 2 \in 1..Len(Registers)
      /\ 3 \in 1..Len(Registers) /\ 4 \in 1..Len(Registers)
  BY LocationsNamed
<1>. QED  BY <1>1, <1>2, <1>3, Zenon DEF RegisterSet

\* The tables are what the case distinctions say.
LEMMA Tables == PlaceTable /\ DriverTable /\ BackTable
<1>1. PlaceTable
  BY RegisterNames DEF PlaceTable, PassLeft, InDriver, LeftAt
<1>2. DriverTable
  BY RegisterNames DEF DriverTable, PassLeft, InDriver, InitLeft, Back
<1>3. BackTable
  BY DEF BackTable, Back, LeftAt
<1>. QED  BY <1>1, <1>2, <1>3

\* The parts that depend on how far the bring-up has come are numbers.
LEMMA PartsTyped ==
  TypeOK => ConfigureLeft \in Nat /\ ConfigureLeft >= 1
            /\ BringUpLeft \in Nat /\ BringUpLeft > ConfigureLeft
BY RadioAssumption DEF TypeOK, ConfigureLeft, BringUpLeft

\* The variant is a number, so that there are no endless descents.
LEMMA PassLeftType == TypeOK /\ Called => PassLeft \in Nat /\ Back \in Nat
<1>. SUFFICES ASSUME TypeOK, Called PROVE PassLeft \in Nat /\ Back \in Nat
  OBVIOUS
<1>1. Back \in Nat
  BY Tables, PartsTyped DEF Called, Callers, BackTable
<1>2. pc \in Locations
  BY DEF TypeOK
<1>. QED  BY <1>1, <1>2, Tables, PartsTyped, RegisterNames
          DEF Locations, PlaceTable, DriverTable

\* Every call of the driver comes from one of the callers.
LEMMA CalledStep == Called /\ [Next]_vars => Called'
<1>. SUFFICES ASSUME Called, [Next]_vars PROVE Called'
  OBVIOUS
<1>1. CASE FrameArrives \/ ModuleFallsBack \/ AlivePeriodElapses
           \/ AssocTimeElapses \/ UNCHANGED vars
  BY <1>1 DEF FrameArrives, ModuleFallsBack, AlivePeriodElapses,
              AssocTimeElapses, vars, Called
<1>2. CASE Driver
  BY <1>2 DEF Driver, GoIdle, SendOpCond, WriteRegister, Write, Reinit, Goto,
              Called
<1>3. CASE BringUp \/ App_WiFiConfigure
  BY <1>3 DEF BringUp, App_WiFiConfigure, Reinit, Goto, Called, Callers
<1>4. CASE Poll
  BY <1>4 DEF Poll, App_R900PnrLinkCheck, CheckSignal, ClearFlag, ReadPending,
              ReadIntrId, ReadLenLow, ReadLenHigh, ReadData, InitAgain,
              Dispatch, App_DemoSendH265, Reinit, Goto, Called, Callers
<1>. QED  BY <1>1, <1>2, <1>3, <1>4 DEF Next, MainLoop

\* A step that neither tries the bring-up again nor sends a command of the
\* configuration leaves what they still have.
LEMMA BackKept ==
  ASSUME UNCHANGED <<attempt, ncfg>>
  PROVE  /\ ConfigureLeft' = ConfigureLeft /\ BringUpLeft' = BringUpLeft
         /\ ret' = ret => Back' = Back
BY DEF ConfigureLeft, BringUpLeft, Back, LeftAt

\* The driver returns to its caller, or from a bring-up to the configuration.
LEMMA ReturnLeft ==
  ASSUME Called, UNCHANGED <<ret, attempt, ncfg>>,
         pc' = ret, PlaceTable', BackTable
  PROVE  PassLeft' = Back
<1>1. ConfigureLeft' = ConfigureLeft /\ BringUpLeft' = BringUpLeft
  BY BackKept
<1>. QED  BY <1>1 DEF Called, Callers, PlaceTable, BackTable

\* A command of the driver brings its caller closer.
LEMMA DriverLeft ==
  ASSUME TypeOK, Called, PlaceTable', DriverTable', Driver
  PROVE  PassLeft' < PassLeft
<1>0. DriverTable /\ BackTable /\ Back \in Nat
  BY Tables, PassLeftType
<1>1. CASE GoIdle
  <2>1. /\ pc = "reset" /\ pc' = "op_cond"
        /\ UNCHANGED <<ret, attempt, ncfg>>
    BY <1>1 DEF GoIdle, Goto, app
  <2>2. Back' = Back
    BY <2>1, BackKept
  <2>. QED  BY <1>0, <2>1, <2>2 DEF DriverTable
<1>2. CASE SendOpCond
  <2>1. /\ pc = "op_cond" /\ (pc' = "IO_ENABLE" \/ pc' = ret)
        /\ UNCHANGED <<ret, attempt, ncfg>>
    BY <1>2, RegisterNames DEF SendOpCond, Goto, app
  <2>2. Back' = Back
    BY <2>1, BackKept
  <2>3. CASE pc' = "IO_ENABLE"
    BY <1>0, <2>1, <2>2, <2>3 DEF DriverTable
  <2>4. CASE pc' = ret
    <3>1. PassLeft' = Back
      BY <1>0, <2>1, <2>4, ReturnLeft
    <3>. QED  BY <1>0, <2>1, <3>1 DEF DriverTable
  <2>. QED  BY <2>1, <2>3, <2>4
<1>3. CASE WriteRegister
  <2>. PICK k \in 1..Len(Registers) :
         /\ pc = Registers[k]
         /\ Goto(IF k < Len(Registers) THEN Registers[k + 1] ELSE Done)
         /\ UNCHANGED <<attempt, app>>
    BY <1>3 DEF WriteRegister
  <2>1. UNCHANGED <<ret, attempt, ncfg>>
    BY DEF Goto, app
  <2>2. Back' = Back /\ ConfigureLeft' = ConfigureLeft
    BY <2>1, BackKept
  <2>3. CASE k < Len(Registers)
    <3>1. k \in {1, 2, 3} /\ pc' = Registers[k + 1]
      BY <2>3, LocationsNamed DEF Goto
    <3>2. \/ pc = "IO_ENABLE" /\ pc' = "INT_ENABLE"
          \/ pc = "INT_ENABLE" /\ pc' = "BUS_IF_CTRL"
          \/ pc = "BUS_IF_CTRL" /\ pc' = "BLOCK_SIZE"
      BY <3>1, RegisterNames
    <3>. QED  BY <1>0, <2>2, <3>2 DEF DriverTable
  <2>4. CASE ~(k < Len(Registers))
    <3>1. k = 4 /\ pc' = Done
      BY <2>4, LocationsNamed DEF Goto
    <3>2. pc = "BLOCK_SIZE" /\ PassLeft = 1 + Back
      BY <1>0, <3>1, RegisterNames DEF DriverTable
    <3>3. CASE ret = "bring_up"
      <4>1. PassLeft' = ConfigureLeft
        BY <2>2, <3>1, <3>3 DEF Done, PlaceTable
      <4>2. Back = BringUpLeft
        BY <1>0, <3>3 DEF BackTable
      <4>. QED  BY <3>2, <4>1, <4>2, PartsTyped
    <3>4. CASE ret # "bring_up"
      <4>1. PassLeft' = Back
        BY <1>0, <2>1, <3>1, <3>4, ReturnLeft DEF Done
      <4>. QED  BY <1>0, <3>2, <4>1
    <3>. QED  BY <3>3, <3>4
  <2>. QED  BY <2>3, <2>4
<1>4. CASE Write
  <2>1. /\ pc = "write" /\ (pc' = "reset" \/ pc' = ret)
        /\ UNCHANGED <<ret, attempt, ncfg>>
    BY <1>4 DEF Write, Goto, Reinit, app
  <2>2. Back' = Back
    BY <2>1, BackKept
  <2>3. CASE pc' = "reset"
    BY <1>0, <2>1, <2>2, <2>3 DEF DriverTable
  <2>4. CASE pc' = ret
    <3>1. PassLeft' = Back
      BY <1>0, <2>1, <2>4, ReturnLeft
    <3>. QED  BY <1>0, <2>1, <3>1 DEF DriverTable
  <2>. QED  BY <2>1, <2>3, <2>4
<1>. QED  BY <1>1, <1>2, <1>3, <1>4 DEF Driver

\* So does an attempt at the bring-up, and a command of the configuration.
LEMMA BringUpStep ==
  ASSUME TypeOK, PlaceTable', DriverTable', BackTable',
         BringUp \/ App_WiFiConfigure
  PROVE  PassLeft' < PassLeft
<1>0. /\ attempt \in Nat /\ ncfg \in Nat /\ NumCommands \in Nat
      /\ SDIO_INIT_MAX_RETRY_COUNT \in Nat /\ PlaceTable
  BY RadioAssumption, Tables DEF TypeOK
<1>1. CASE BringUp /\ attempt < SDIO_INIT_MAX_RETRY_COUNT
  <2>1. /\ pc = "bring_up" /\ attempt' = attempt + 1 /\ ncfg' = ncfg
        /\ pc' = "reset" /\ ret' = "bring_up"
    BY <1>1 DEF BringUp, Reinit, app
  <2>2. BringUpLeft' = BringUpLeft - 7
    BY <1>0, <2>1 DEF BringUpLeft, ConfigureLeft
  <2>3. PassLeft' = 6 + BringUpLeft'
    BY <2>1 DEF DriverTable, BackTable
  <2>. QED  BY <1>0, <2>1, <2>2, <2>3, PartsTyped DEF PlaceTable
<1>2. CASE BringUp /\ ~(attempt < SDIO_INIT_MAX_RETRY_COUNT)
  <2>1. /\ pc = "bring_up" /\ pc' = "configure"
        /\ UNCHANGED <<attempt, ncfg>>
    BY <1>2 DEF BringUp, Goto, app
  <2>2. ConfigureLeft' = ConfigureLeft
    BY <2>1, BackKept
  <2>. QED  BY <1>0, <2>1, <2>2, PartsTyped DEF PlaceTable
<1>3. CASE App_WiFiConfigure /\ ncfg < NumCommands
  <2>1. /\ pc = "configure" /\ ncfg' = ncfg + 1
        /\ pc' = "write" /\ ret' = "configure"
    BY <1>3 DEF App_WiFiConfigure
  <2>2. ConfigureLeft' = ConfigureLeft - 8
    BY <1>0, <2>1 DEF ConfigureLeft
  <2>3. PassLeft' = 7 + ConfigureLeft'
    BY <2>1 DEF DriverTable, BackTable
  <2>. QED  BY <1>0, <2>1, <2>2, <2>3, PartsTyped DEF PlaceTable
<1>4. CASE App_WiFiConfigure /\ ~(ncfg < NumCommands)
  <2>1. pc = "configure" /\ pc' = "link_check"
    BY <1>4 DEF App_WiFiConfigure, Goto
  <2>. QED  BY <1>0, <2>1, PartsTyped DEF PlaceTable
<1>. QED  BY <1>1, <1>2, <1>3, <1>4

\* Every step of the poll leads on, and the first one opens a bounded pass.
LEMMA PollLeft ==
  ASSUME PlaceTable', DriverTable', BackTable', Poll
  PROVE  IF pc = "link_check" THEN PassLeft' <= 34 ELSE PassLeft' < PassLeft
<1>0. PlaceTable
  BY Tables
<1>. USE DEF PlaceTable, DriverTable, BackTable, Goto, Reinit
<1>1. CASE App_R900PnrLinkCheck
  <2>1. \/ pc = "link_check" /\ pc' = "check_int"
        \/ pc = "link_check" /\ pc' = "reset" /\ ret' = "check_int"
    BY <1>1 DEF App_R900PnrLinkCheck
  <2>. QED  BY <2>1
<1>2. CASE CheckSignal \/ ClearFlag
  <2>1. \/ pc = "check_int" /\ pc' \in {"clear_flag", "send"}
        \/ pc = "clear_flag" /\ pc' = "INT_PENDING"
    BY <1>2 DEF CheckSignal, ClearFlag
  <2>. QED  BY <1>0, <2>1
<1>3. CASE ReadPending \/ ReadIntrId \/ ReadLenLow \/ ReadLenHigh
  <2>1. \/ pc = "INT_PENDING" /\ pc' = "SLAVE_INTR_ID"
        \/ pc = "SLAVE_INTR_ID" /\ pc' = "len_low"
        \/ pc = "len_low" /\ pc' \in {"len_high", "read"}
        \/ pc = "len_high" /\ pc' = "read"
        \/ /\ pc \in {"INT_PENDING", "SLAVE_INTR_ID", "len_low", "len_high"}
           /\ pc' = "send" \/ (pc' = "reset" /\ ret' = "send")
    BY <1>3 DEF ReadPending, ReadIntrId, ReadLenLow, ReadLenHigh
  <2>. QED  BY <1>0, <2>1
<1>4. CASE ReadData \/ InitAgain
  <2>1. \/ pc = "read" /\ pc' \in {"send", "dispatch"}
        \/ pc = "read" /\ pc' = "reset" /\ ret' = "init_again"
        \/ pc = "init_again" /\ pc' = "reset" /\ ret' = "send"
    BY <1>4 DEF ReadData, InitAgain, AfterRead
  <2>. QED  BY <1>0, <2>1
<1>5. CASE Dispatch \/ App_DemoSendH265
  <2>1. \/ pc = "dispatch" /\ pc' = "write" /\ ret' = "send"
        \/ pc = "dispatch" /\ pc' = "send"
        \/ pc = "send" /\ pc' = "write" /\ ret' = "link_check"
        \/ pc = "send" /\ pc' = "link_check"
    BY <1>5 DEF Dispatch, App_DemoSendH265
  <2>. QED  BY <1>0, <2>1
<1>. QED  BY <1>1, <1>2, <1>3, <1>4, <1>5 DEF Poll

\* PassEnds, and that the descent is one of natural numbers: for any number of
\* faults, attempts and commands the main loop reaches the next link check.
THEOREM PassesEnd == Spec => [](PassLeft \in Nat) /\ PassEnds
<1>1. Init => Called
  BY DEF Init, Called, Callers
<1>2. Spec => [](TypeOK /\ Called)
  BY <1>1, LinkTypes, CalledStep, PTL DEF Spec
<1>3. TypeOK /\ Called => PassLeft \in Nat
  BY PassLeftType
<1>4. ASSUME TypeOK, Called, [Next]_vars
      PROVE  [MainLoop => IF pc = "link_check" THEN PassLeft' <= 34
                          ELSE PassLeft' < PassLeft]_vars
  <2>1. PlaceTable' /\ DriverTable' /\ BackTable'
    BY Tables, PTL
  <2>2. pc = "link_check" => ~(BringUp \/ App_WiFiConfigure \/ Driver)
    BY RegisterNames, LocationsNamed
       DEF BringUp, App_WiFiConfigure, Driver, GoIdle, SendOpCond,
           WriteRegister, Write, RegisterSet
  <2>. QED  BY <1>4, <2>1, <2>2, DriverLeft, BringUpStep, PollLeft DEF MainLoop
<1>. QED  BY <1>2, <1>3, <1>4, PTL DEF Spec, PassEnds
=============================================================================
