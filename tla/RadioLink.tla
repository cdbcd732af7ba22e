------------------------------ MODULE RadioLink ------------------------------
(***************************************************************************)
(* The radio service of the application (App_R900PNR_Handle.c) on top of   *)
(* the vendor's SDIO-over-SPI driver (hgic_sdspi_v2.c, hgic_raw.c), one    *)
(* bus command per step.  The module on the other side of the bus is       *)
(* external: it queues frames, pulls its interrupt line low while it has   *)
(* one, and obeys only the registers that were really written.             *)
(*                                                                         *)
(* The bus carries no CRC.  A fault may make a command fail, or change     *)
(* what it reads without anybody noticing; MaxFaults bounds their number.  *)
(***************************************************************************)
EXTENDS Integers, Sequences

CONSTANTS
  Roles,                       \* the values of APP_WIFI_ROLE to look at
  SDIO_INIT_MAX_RETRY_COUNT,
  NumCommands,                 \* the commands of App_WiFiConfigure
  Sends,                       \* bound: the kinds of frames the module sends
  MaxFrames,                   \* bound: frames the module receives
  MaxFaults                    \* bound: faults on the bus and of the module

\* The events that are answered with a command, and data.
Events == {"connected", "disconnected", "scan_done"}
Kinds == Events \cup {"data"}

ASSUME RadioAssumption ==
  /\ Roles \subseteq {"AP", "STA"} /\ Sends \subseteq Kinds
  /\ SDIO_INIT_MAX_RETRY_COUNT \in Nat \ {0} /\ NumCommands \in Nat
  /\ MaxFrames \in Nat /\ MaxFaults \in Nat

VARIABLES
  (* the module and the bus *)
  up,          \* it speaks SPI; it falls back to SD mode on a fault
  regs,        \* the registers of hgic_sdspi_init that reached it
  queue,       \* frames that wait to be read, in order
  sent,        \* frames received so far: the number of the last one
  faults,      \* faults left
  (* the driver *)
  rx_flag,     \* g_r900pnr_spi_rx_flag
  pc, ret,     \* where the main loop is, and where the driver returns to
  attempt,     \* of r900pnr_wifi_module_init
  data_len,    \* of hgic_sdspi_read: "zero", "right" or "wrong"
  buf,         \* Spi_Rx_Buf
  conn_state,  \* hgic.status.conn_state
  (* the application *)
  role, ncfg,  \* APP_WIFI_ROLE, and the commands sent by App_WiFiConfigure
  due,         \* APP_ALIVE_PERIOD_MS since the last link check
  assocOver,   \* APP_ASSOC_TIMEOUT_MS since Assoc_Start_Tick
  Wifi_Connected, Tx_Started,
  last,        \* history: the number of the last frame handed on
  kept         \* history: the module still had it at that moment

module == <<up, regs, queue, sent>>
flags == <<due, assocOver>>
app == <<role, ncfg, Wifi_Connected, Tx_Started, last, kept, conn_state>>
local == <<data_len, buf>>
vars == <<module, faults, rx_flag, pc, ret, attempt, local, flags, app>>

-----------------------------------------------------------------------------
(* The module and its interrupt line *)

\* The registers in the order hgic_sdspi_init writes them.  HIGH_SPEED is left
\* out: nothing here depends on the clock.
Registers == <<"IO_ENABLE", "INT_ENABLE", "BUS_IF_CTRL", "BLOCK_SIZE">>

RegisterSet == {Registers[k] : k \in 1..Len(Registers)}

Frames == [num : 1..MaxFrames, kind : Kinds]
Garbage == [num |-> 0, kind |-> "garbage"]

\* It has a frame and may say so.
Pending == queue # <<>> /\ up /\ {"IO_ENABLE", "INT_ENABLE"} \subseteq regs

\* The line between two commands.  Without the continuous interrupt of
\* BUS_IF_CTRL it is only driven while the chip select is low.
IntLow == Pending /\ "BUS_IF_CTRL" \in regs

\* R900PNR_SPI_INT_IRQHandler: a falling edge sets the flag, also one that the
\* chip select of a command has caused.
Interrupt(flag, selected) ==
  rx_flag' = (flag \/ (~IntLow /\ (IntLow' \/ (selected /\ Pending))))

Init ==
  /\ \/ up = FALSE /\ regs = {}              \* both were switched on
     \/ up = TRUE /\ regs = RegisterSet      \* only the controller was reset
  /\ queue = <<>> /\ sent = 0 /\ faults = MaxFaults
  /\ rx_flag = FALSE /\ pc = "reset" /\ ret = "bring_up" /\ attempt = 1
  /\ data_len = "zero" /\ buf = Garbage /\ conn_state = FALSE
  /\ role \in Roles /\ ncfg = 0 /\ due = FALSE /\ assocOver = FALSE
  /\ Wifi_Connected = FALSE /\ Tx_Started = FALSE /\ last = 0
  /\ kept = FALSE

FrameArrives ==
  /\ sent < MaxFrames
  /\ sent' = sent + 1
  /\ \E kind \in Sends : queue' = Append(queue, [num |-> sent', kind |-> kind])
  /\ UNCHANGED <<up, regs, faults, pc, ret, attempt, local, flags, app>>
  /\ Interrupt(rx_flag, FALSE)

ModuleFallsBack ==
  /\ up /\ faults > 0
  /\ up' = FALSE /\ regs' = {} /\ faults' = faults - 1
  /\ UNCHANGED <<queue, sent, rx_flag, pc, ret, attempt, local, flags, app>>

\* Time passes.
AlivePeriodElapses ==
  /\ ~due /\ due' = TRUE
  /\ UNCHANGED <<module, faults, rx_flag, pc, ret, attempt, local, assocOver, app>>

AssocTimeElapses ==
  /\ ncfg = NumCommands /\ ~assocOver /\ assocOver' = TRUE
  /\ UNCHANGED <<module, faults, rx_flag, pc, ret, attempt, local, due, app>>

-----------------------------------------------------------------------------
(* One command to function f, as its caller sees it *)

\* Function 1 answers once it is enabled.
Answers(f) == up /\ (f = 1 => "IO_ENABLE" \in regs)

Fault == faults > 0 /\ faults' = faults - 1

Succeeds(f) == Answers(f) /\ UNCHANGED faults
Fails(f) == IF Answers(f) THEN Fault ELSE UNCHANGED faults

\* Reported as a success, but what was read is wrong.
Deceives(f) == Answers(f) /\ Fault

\* A command that leaves the module as it is.
Asks == UNCHANGED module /\ Interrupt(rx_flag, TRUE)

\* hgic_sdspi_abort where the code has it, then a call of hgic_sdspi_init that
\* returns to r.
Reinit(r) == pc' = "reset" /\ ret' = r
Goto(l) == pc' = l /\ UNCHANGED ret

-----------------------------------------------------------------------------
(* hgic_sdspi_init *)

\* Stop of a running transfer, I/O reset, CMD0.  Whether frames outlive it is
\* up to the module.  None of the results decides anything.
GoIdle ==
  /\ pc = "reset"
  /\ \/ up' = TRUE /\ regs' = {} /\ queue' \in {queue, <<>>} /\ UNCHANGED faults
     \/ Fault /\ UNCHANGED <<up, regs, queue>>
  /\ Goto("op_cond")
  /\ UNCHANGED <<sent, attempt, local, flags, app>>
  /\ Interrupt(rx_flag, TRUE)

\* CMD5, the one command whose failure init reports.
SendOpCond ==
  /\ pc = "op_cond"
  /\ \/ Succeeds(0) /\ Goto(Registers[1])
     \/ Fails(0) /\ Goto(ret)
  /\ Asks
  /\ UNCHANGED <<attempt, local, flags, app>>

\* Where init returns to with RET_OK: bring-up then configures the module.
Done == IF ret = "bring_up" THEN "configure" ELSE ret

\* A write that fails is reported on the console at most.  A module that has
\* no continuous interrupt ignores BUS_IF_CTRL.
WriteRegister ==
  \E k \in 1..Len(Registers) :
    /\ pc = Registers[k]
    /\ \/ Succeeds(0) /\ regs' = regs \cup {Registers[k]}
       \/ Fails(0) /\ UNCHANGED regs
       \/ pc = "BUS_IF_CTRL" /\ Succeeds(0) /\ UNCHANGED regs
    /\ Goto(IF k < Len(Registers) THEN Registers[k + 1] ELSE Done)
    /\ UNCHANGED <<up, queue, sent, attempt, local, flags, app>>
    /\ Interrupt(rx_flag, TRUE)

-----------------------------------------------------------------------------
(* r900pnr_wifi_module_init and App_WiFiConfigure *)

\* One attempt too many.
Mutant_BringUp ==
  /\ pc = "bring_up"
  /\ IF attempt <= SDIO_INIT_MAX_RETRY_COUNT
     THEN attempt' = attempt + 1 /\ Reinit("bring_up")
     ELSE attempt' = attempt /\ Goto("configure")
  /\ UNCHANGED <<module, faults, rx_flag, local, flags, app>>

\* After the last attempt main only logs the failure and goes on.
BringUp ==
  /\ pc = "bring_up"
  /\ IF attempt < SDIO_INIT_MAX_RETRY_COUNT
     THEN attempt' = attempt + 1 /\ Reinit("bring_up")
     ELSE attempt' = attempt /\ Goto("configure")
  /\ UNCHANGED <<module, faults, rx_flag, local, flags, app>>

App_WiFiConfigure ==
  /\ pc = "configure"
  /\ IF ncfg < NumCommands
     THEN ncfg' = ncfg + 1 /\ pc' = "write" /\ ret' = "configure"
     ELSE ncfg' = ncfg /\ Goto("link_check")
  /\ UNCHANGED <<module, faults, rx_flag, attempt, local, flags, role,
                 Wifi_Connected, Tx_Started, last, kept, conn_state>>

\* hgic_sdspi_write.  A failure of the data phase goes unnoticed.
Write ==
  /\ pc = "write"
  /\ \/ (Succeeds(1) \/ Deceives(1)) /\ Goto(ret)
     \/ Fails(1) /\ Reinit(ret)
  /\ Asks
  /\ UNCHANGED <<attempt, local, flags, app>>

-----------------------------------------------------------------------------
(* App_R900PnrPoll *)

\* The result of the probe is only looked at, nothing follows from it.
Mutant_LinkCheck ==
  /\ pc = "link_check" /\ due' = FALSE
  /\ Succeeds(0) \/ Fails(0)
  /\ Goto("check_int") /\ Asks
  /\ UNCHANGED <<attempt, local, assocOver, app>>

App_R900PnrLinkCheck ==
  /\ pc = "link_check" /\ due' = FALSE
  /\ \/ ~due /\ Goto("check_int") /\ UNCHANGED <<module, rx_flag, faults>>
     \/ due /\ Succeeds(0) /\ Goto("check_int") /\ Asks
     \/ due /\ Fails(0) /\ Reinit("check_int") /\ Asks
  /\ UNCHANGED <<attempt, local, assocOver, app>>

\* Only the flag is looked at.
Mutant_Signalled == rx_flag

Signalled == rx_flag \/ IntLow

CheckSignal ==
  /\ pc = "check_int"
  /\ Goto(IF Signalled THEN "clear_flag" ELSE "send")
  /\ UNCHANGED <<module, faults, rx_flag, attempt, local, flags, app>>

ClearFlag ==
  /\ pc = "clear_flag"
  /\ rx_flag' = FALSE /\ Goto("INT_PENDING")
  /\ UNCHANGED <<module, faults, ret, attempt, local, flags, app>>

-----------------------------------------------------------------------------
(* hgic_sdspi_read *)

\* hgic_sdspi_data_ready, in two commands.
ReadPending ==
  /\ pc = "INT_PENDING"
  /\ \/ Succeeds(0) /\ Goto(IF Pending THEN "SLAVE_INTR_ID" ELSE "send")
     \/ Deceives(0) /\ Goto(IF Pending THEN "send" ELSE "SLAVE_INTR_ID")
     \/ Fails(0) /\ Reinit("send")
  /\ Asks
  /\ UNCHANGED <<attempt, local, flags, app>>

ReadIntrId ==
  /\ pc = "SLAVE_INTR_ID"
  /\ \/ Succeeds(1) /\ Goto(IF queue # <<>> THEN "len_low" ELSE "send")
     \/ Deceives(1) /\ Goto(IF queue # <<>> THEN "send" ELSE "len_low")
     \/ Fails(1) /\ Reinit("send")
  /\ Asks
  /\ UNCHANGED <<attempt, local, flags, app>>

\* hgic_sdspi_get_datalen.  If the low byte cannot be read, the length is 0,
\* which no caller tells from a length that was read.
ReadLenLow ==
  /\ pc = "len_low"
  /\ \/ Succeeds(1) /\ data_len' = "right" /\ Goto("len_high")
     \/ Deceives(1) /\ data_len' = "wrong" /\ Goto("len_high")
     \/ Fails(1) /\ data_len' = "zero" /\ Goto("read")
  /\ Asks
  /\ UNCHANGED <<attempt, buf, flags, app>>

\* Too long for the buffer: the read is given up with an abort.
ReadLenHigh ==
  /\ pc = "len_high"
  /\ \/ Succeeds(1) /\ UNCHANGED data_len /\ Goto("read")
     \/ Deceives(1) /\ data_len' = "wrong" /\ (Goto("read") \/ Goto("send"))
     \/ Fails(1) /\ UNCHANGED data_len /\ Reinit("send")
  /\ Asks
  /\ UNCHANGED <<attempt, buf, flags, app>>

\* A data frame takes blocks, an event less than one.
Readable(frame) == frame.kind = "data" => "BLOCK_SIZE" \in regs

\* A read that was damaged, or that does not ask for what the module has to
\* send: the header may come through all the same, which is all hgic_raw_rx
\* looks at, and the module may or may not count the frame as read.
Misread ==
  /\ buf' = Garbage \/ (queue # <<>> /\ buf' = Head(queue))
  /\ queue' = queue \/ (queue # <<>> /\ queue' = Tail(queue))

Transfer ==
  IF data_len = "right" /\ queue # <<>> /\ Readable(Head(queue))
  THEN buf' = Head(queue) /\ queue' = Tail(queue)
  ELSE Misread

\* Only a positive length is handed on.
AfterRead == IF data_len = "zero" THEN "send" ELSE "dispatch"

\* The result of the command is dropped like that of the data phase.
Mutant_ReadData ==
  /\ pc = "read"
  /\ \/ Succeeds(1) /\ Transfer
     \/ Fails(1) /\ UNCHANGED <<buf, queue>>
  /\ Goto(AfterRead)
  /\ UNCHANGED <<up, regs, sent, attempt, data_len, flags, app>>
  /\ Interrupt(rx_flag, TRUE)

\* hgic_sdspi_readdata.  Its failure is handled twice, here and by its caller.
ReadData ==
  /\ pc = "read"
  /\ \/ Succeeds(1) /\ Transfer /\ Goto(AfterRead)
     \/ Deceives(1) /\ Misread /\ Goto(AfterRead)
     \/ Fails(1) /\ UNCHANGED <<buf, queue>> /\ Reinit("init_again")
  /\ UNCHANGED <<up, regs, sent, attempt, data_len, flags, app>>
  /\ Interrupt(rx_flag, TRUE)

\* The read is tried again.
Mutant_InitAgain ==
  /\ pc = "init_again" /\ Reinit("INT_PENDING")
  /\ UNCHANGED <<module, faults, rx_flag, attempt, local, flags, app>>

InitAgain ==
  /\ pc = "init_again" /\ Reinit("send")
  /\ UNCHANGED <<module, faults, rx_flag, attempt, local, flags, app>>

-----------------------------------------------------------------------------
(* hgic_raw_rx, the dispatch of the poll, and App_DemoSendH265 *)

\* What a frame is taken for.  The magic number catches most of the garbage.
TakenFor == IF buf = Garbage THEN Kinds \cup {"invalid"} ELSE {buf.kind}

\* The result of hgic_raw_rx_event gets lost in its caller.
rx_type(kind) == IF kind = "data" THEN "DATA" ELSE "IGNORE"

StillQueued == queue # <<>> /\ Head(queue) = buf

\* These events also ask the module for its station list.
Dispatch ==
  /\ pc = "dispatch"
  /\ \E kind \in TakenFor :
       /\ conn_state' = IF kind \in {"connected", "disconnected"}
                        THEN kind = "connected" ELSE conn_state
       /\ IF kind \in Events THEN pc' = "write" /\ ret' = "send"
                             ELSE Goto("send")
       /\ Wifi_Connected' = IF rx_type(kind) = "EVENT" /\ role = "STA"
                            THEN kind = "connected" ELSE Wifi_Connected
  /\ IF buf = Garbage THEN UNCHANGED <<last, kept>>
                      ELSE last' = buf.num /\ kept' = StillQueued
  /\ UNCHANGED <<module, faults, rx_flag, attempt, local, flags, role, ncfg,
                 Tx_Started>>

\* Nothing is sent before the association is known.
Mutant_MayStart == Wifi_Connected

MayStart == Wifi_Connected \/ assocOver

App_DemoSendH265 ==
  /\ pc = "send"
  /\ IF role = "STA" /\ (Tx_Started \/ MayStart)
     THEN Tx_Started' = TRUE /\ pc' = "write" /\ ret' = "link_check"
     ELSE Tx_Started' = Tx_Started /\ Goto("link_check")
  /\ UNCHANGED <<module, faults, rx_flag, attempt, local, flags, role, ncfg,
                 Wifi_Connected, last, kept, conn_state>>

-----------------------------------------------------------------------------

Driver == GoIdle \/ SendOpCond \/ WriteRegister \/ Write

Poll ==
  \/ App_R900PnrLinkCheck \/ CheckSignal \/ ClearFlag
  \/ ReadPending \/ ReadIntrId \/ ReadLenLow \/ ReadLenHigh \/ ReadData
  \/ InitAgain \/ Dispatch \/ App_DemoSendH265

MainLoop == BringUp \/ App_WiFiConfigure \/ Driver \/ Poll

Next ==
  \/ MainLoop
  \/ FrameArrives \/ ModuleFallsBack
  \/ AlivePeriodElapses \/ AssocTimeElapses

Spec == Init /\ [][Next]_vars

\* The main loop never blocks, the time base runs.  The module owes nothing.
FairSpec ==
  Spec /\ WF_vars(MainLoop) /\ WF_vars(AlivePeriodElapses)
       /\ WF_vars(AssocTimeElapses)

-----------------------------------------------------------------------------
(* Properties *)

Locations ==
  RegisterSet \cup
  {"reset", "op_cond", "bring_up", "configure", "write", "link_check",
   "check_int", "clear_flag", "INT_PENDING", "SLAVE_INTR_ID", "len_low",
   "len_high", "read", "init_again", "dispatch", "send"}

TypeOK ==
  /\ up \in BOOLEAN /\ regs \subseteq RegisterSet /\ queue \in Seq(Frames)
  /\ sent \in 0..MaxFrames /\ faults \in 0..MaxFaults
  /\ rx_flag \in BOOLEAN /\ pc \in Locations /\ ret \in Locations
  /\ attempt \in 1..SDIO_INIT_MAX_RETRY_COUNT
  /\ data_len \in {"zero", "right", "wrong"} /\ buf \in Frames \cup {Garbage}
  /\ role \in Roles /\ ncfg \in 0..NumCommands
  /\ conn_state \in BOOLEAN /\ Wifi_Connected \in BOOLEAN
  /\ due \in BOOLEAN /\ assocOver \in BOOLEAN /\ Tx_Started \in BOOLEAN
  /\ last \in 0..MaxFrames /\ kept \in BOOLEAN

\* Whatever fails, no frame is handed on out of order, and none twice: the
\* buffer is never dispatched again with what an earlier read has left in it.
\* The one exception in the code: a frame whose header came through though the
\* read was damaged or of the wrong length, and that the module therefore kept.
InOrder ==
  [][pc = "dispatch" /\ pc' # "dispatch" /\ buf # Garbage
       => buf.num > last \/ (kept /\ buf.num = last)]_vars

\* The one way in which the link stays dead after the faults are over: an
\* initialisation that could not write a register it needs returns RET_OK, and
\* the probe of the link check, a read of function 0, succeeds for ever.  Only a
\* station notices, and only that function 1 is disabled: its sends fail.
Needed == RegisterSet \ (IF role = "STA" THEN {"BUS_IF_CTRL", "IO_ENABLE"}
                                         ELSE {"BUS_IF_CTRL"})
HalfInitialised == pc = "link_check" /\ up /\ ~(Needed \subseteq regs)

\* Otherwise every frame is read in the end, or lost in a reset of the module:
\* after edges that came while the flag was being cleared, with an interrupt
\* line that only works during commands, after a module that fell back to SD
\* mode, as long as faults do not go on for ever.
FramesServed ==
  \A n \in 1..MaxFrames :
    LET queued == \E k \in 1..Len(queue) : queue[k].num = n
    IN  queued ~> (~queued \/ HalfInitialised)

\* A station begins to send, though no event ever tells the application that it
\* is connected, and though module and configuration may have failed.
StreamStarts == (role = "STA") ~> Tx_Started

\* The variant of a pass.  An initialisation is six commands, a write that
\* fails is followed by one.
InitLeft ==
  CASE pc = "reset"       -> 6
    [] pc = "op_cond"     -> 5
    [] pc = "IO_ENABLE"   -> 4
    [] pc = "INT_ENABLE"  -> 3
    [] pc = "BUS_IF_CTRL" -> 2
    [] pc = "BLOCK_SIZE"  -> 1
    [] pc = "write"       -> 7

InDriver == pc \in RegisterSet \cup {"reset", "op_cond", "write"}

ConfigureLeft == 8 * (NumCommands - ncfg) + 1
BringUpLeft == 7 * (SDIO_INIT_MAX_RETRY_COUNT - attempt) + ConfigureLeft + 1

\* At most so many steps from a place outside of hgic_sdspi_init and _write to
\* the end of the pass, or of the bring-up and the configuration.
LeftAt(l) ==
  CASE l = "bring_up"      -> BringUpLeft
    [] l = "configure"     -> ConfigureLeft
    [] l = "check_int"     -> 28
    [] l = "clear_flag"    -> 27
    [] l = "INT_PENDING"   -> 26
    [] l = "SLAVE_INTR_ID" -> 25
    [] l = "len_low"       -> 24
    [] l = "len_high"      -> 23
    [] l = "read"          -> 22
    [] l = "dispatch"      -> 16
    [] l = "init_again"    -> 15
    [] l = "send"          -> 8
    [] l = "link_check"    -> 0

PassLeft == IF InDriver THEN InitLeft + LeftAt(ret) ELSE LeftAt(pc)

\* Whatever fails, the main loop comes round: no failure is tried again without
\* a limit, neither at the bring-up nor inside a pass, where even a read that
\* fails and is handled twice leads to the next link check.
PassEnds ==
  [][MainLoop => IF pc = "link_check" THEN PassLeft' <= 34
                 ELSE PassLeft' < PassLeft]_vars
=============================================================================
