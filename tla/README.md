# Verification of the N32H785 bootloader and its application

TLA+ models of the dual-bank serial bootloader (`BOOTLOADER/Bootloader`) and of the application that runs on top of it
(`APP`): update request, task scheduler, radio link. Model-checked with TLC and proved with TLAPS. File names below are
relative to `src/`.

## 1. Inventory of the system

The repository holds two firmwares for one Cortex-M7: a 16K bootloader, and an application that runs from ITCM. They
share the flash, one word of SRAM and USART1, and never run at the same time.

| Part | Code | State | Operations |
|---|---|---|---|
| Bank selection | `upgrade/IAP.c` `check_bank`, `inc/flash.h` | two `uint16_t` counters and a CRC32 word in the last sector of the bootloader | which bank to update, which to boot, which counter to bump |
| Update window | `IAP.c` `check_update` | request word in SRAM, `wait_time`, `update_flag`, start and end address of the chosen bank | consume the request, sample the key for 5 s, choose a bank, enter XMODEM or return |
| XMODEM receiver | `upgrade/xmodem.c` | `x_first_packet_received`, packet number, flash address, `error_number`, `rcvFlag`, `received_packet_data` | read a batch, shift it, check it, erase, program, answer ACK/NAK/CAN, commit at EOT |
| USART1 interrupt and DMA | `src/n32h7xx_it.c`, `src/uart.c` | the same buffer and `rcvFlag` | at each idle line: restart the DMA at the head of the buffer, set `rcvFlag` |
| Boot | `src/main.c`, `IAP.c` | ITCM | compare the CRC32 of the bank with the stored one, copy the bank to ITCM, jump; retry for ever |
| Flash driver | SDK | flash | erase a sector, program words; may fail, may be cut by a reset |
| Host | Tera Term (README) | file, next packet | send, repeat, cancel |
| Update request | `APP/Hardware/src/App_OTA_Handle.c`, `APP/bsp/src/log.c` | `match_idx`, `ota_request_flag` | match `UPDATE` + CR/LF in the console interrupt, write the request word, clean the cache, reset |
| Task scheduler | `APP/Mcal/src/Mcal_TimerTask.c` | `task_list`, `TimeBase` | create, stop, run, one cycle per main loop pass |
| Radio service | `APP/Hardware/src/App_R900PNR_Handle.c` | receive flag, association state, last link check | bring-up with retries, configuration, link check, receive one frame, send |
| Radio driver | `APP/R900PNR_CMD/hgic_sdspi_v2.c`, `hgic_raw.c`, `r900pnr_spi_api.c` | none but the receive buffer and the status of the module | init, abort, read, write over SDIO commands on SPI; sorting frames by type |
| Rest | vector table, LEDs, delays, Ethernet port, vendored SDK, lwIP, USB | | |

**Interactions.** The application asks for an update by the SRAM word and a soft reset. The bootloader consumes the
word, chooses the bank that does not boot, erases it when the first packet arrives, programs packet by packet, and at
EOT rewrites the sector with the counters and the CRC; from then on `check_bank` boots the other bank. The interrupt
and the receiver share the buffer and `rcvFlag` without any lock. The host sees only ACK, NAK and CAN.

In the application one main loop calls the radio poll and the scheduler in turn. It shares `TimeBase` with the
SysTick interrupt, the receive flag with the interrupt of the module's INT line, and is cut off anywhere by the console
interrupt, which resets the device itself once the command has come. The radio poll and the driver share the buffer;
the driver initialises the module again from inside its own error paths.

**What is hard.** The interrupt may fire between any two statements of the receiver, above all during the erase, which
takes seconds. A reset or a loss of power may come anywhere; the counters and the CRC have no second copy. Counters
wrap, and their largest value also means "erased". ACKs get lost and the host repeats. The jump may return in the
middle of the receive loop. Several waits have no limit. In the application: the time base advances and wraps in the
middle of a scan that has sampled it once; the request word sits in a data cache when the reset comes; the SPI bus has
no CRC, every command of the radio may fail or deceive, most results are dropped, and an edge of the INT line may be
lost between the clearing of the flag and the read.

**What makes it correct.**
- Selection: an update never takes the bank that boots; a commit switches banks; both at every counter value.
- Receiver: the bank holds exactly the acknowledged packets; a session that has not committed spares the other bank.
- Commit: all or nothing, with the CRC of the bank that was written.
- Boot: what runs is the selected bank, byte for byte, and is the one that was certified.
- Request: opens one session, never two.
- Command: exactly the texts that end in the command make a request; it reaches memory before the reset.
- Scheduler: no slot runs early or too often (but for one case, named below), none starves.
- Radio: every frame is handed on once and in order, none waits for ever, a station begins to send.
- Liveness: a device left alone runs its firmware; an undisturbed transfer completes.

`PROJECT.json` lists every hazard with its line and the properties that watch it.

## 2. Modules

| Module | What it models | Code |
|---|---|---|
| `BankSelect` | both branches of `check_bank`, the counter bump, the lockstep of the counters | `IAP.c:96-132`, `xmodem.c:165-179` |
| `Bootloader` | the whole bootloader with its interrupt, flash failures, pin resets and power loss | `IAP.c`, `xmodem.c`, `main.c`, `n32h7xx_it.c` |
| `FirmwareStore` | abstract: one firmware is installed, a commit replaces it in one step, only a commit that is cut short loses it, nothing else ever runs | the promise of the README |
| `OtaLink` | `Bootloader` composed with an XMODEM sender over a faulty line; implements `FirmwareStore` | sender external |
| `OtaConsole` | `Bootloader` composed with the console of the application; implements `Bootloader` with its atomic `RequestUpdate` | `App_OTA_Handle.c`, `log.c:226-241` |
| `TaskScheduler` | the cooperative scheduler and its time base | `Mcal_TimerTask.c`, `APP/src/n32h7xx_it.c:150` |
| `RadioLink` | radio service and driver, one bus command per step, with a module that loses its mind | `App_R900PNR_Handle.c`, `hgic_sdspi_v2.c`, `hgic_raw.c` |
| `BankSelectProofs`, `BootloaderProofs`, `OtaLinkProofs`, `OtaProgressProofs`, `OtaConsoleProofs`, `TaskSchedulerProofs`, `RadioLinkProofs` | theorems | |
| `MCBootloader`, `MCOtaLink`, `MCOtaConsole`, `MCTaskScheduler`, `MCRadioLink` | bounds for TLC | |

### How state and actions correspond to the code

`Bootloader` has one CPU with a location `pc`, and the interrupt as an action enabled at every location.

| Action | Code |
|---|---|
| `CheckFlag`, `KeyPoll`, `SelectBank` | `check_update`: request word, one pass of the key loop, bank choice and entry into XMODEM |
| `USART1_IRQHandler(b)` | the interrupt: a control byte replaces the header of the buffer only, a packet replaces all of it |
| `DropJunk`, `ReadHeader`, `FirstPacketTimeout`, `HostCancelled` | the top of the loop of `xmodem_receive`, the 60 s wait, `case X_CAN` |
| `BeginPacket`, `EndShift` | `xmodem_handle_packet` up to the CRC16; the interrupt may come between the two |
| `EraseSector`, `EraseFails`, `EraseDone` | `flash_erase`, one step per sector |
| `ProgramPacket`, `ProgramFails`, `RejectPacket` | number and CRC check, `flash_write`, ACK / `xmodem_error_handler` |
| `EndOfTransmission`, `CommitErase`, `CommitWrite`, `CommitFails` | `case X_EOT` |
| `JumpAfterCommit`, `JumpReturns`, `CheckAndBoot` | `flash_jump_to_app` from the receiver and from `main` |
| `RequestUpdate` | `ota_request_reset` of the application |
| `PinReset`, `PowerLoss` | at every location; a flash operation in progress leaves a torn sector or cell |

`OtaConsole` runs beside it while `pc = "app"`: `ConsoleInterrupt(ch)` is one call of `USART1_IRQHandler` of the
application with `ota_cmd_feed` in it; after a match the CPU never leaves the interrupt, so `StoreRequest`,
`SCB_CleanDCache` and `NVIC_SystemReset` follow, with `EvictLine` (the cache writes back when it likes) and resets from
outside in between. `OTA_UpdateCheck_Handle`, called by the 20 ms task according to the README, is dead code: nobody is
left to see the flag it looks for (the comment at `log.c:234` still says the main loop does the reset).

`TaskScheduler`: `SysTick_Handler` at any point; `BeginCycle`, `SkipSlot`, `RunSlot`, `HandlerReturns`, `EndCycle` are
`Task_Handle_Cycle`; `Task_Create`, `Task_Run`, `Task_Stop` may be called from the main loop and from every handler
(`AnyCaller`). Two history variables keep the account of a slot: `credit` is the time since it was started less one
period for every run, and `early` says whether it has since been run with a stamp later than the sample of the cycle.
Both start anew when the slot is started; nothing else touches them.

`RadioLink`: `pc` is named after the register or the function whose command comes next, `ret` is where the driver
returns to, since `hgic_sdspi_init` is entered from six places.

| Action | Code |
|---|---|
| `GoIdle`, `SendOpCond`, `WriteRegister` | `hgic_sdspi_init`: only CMD5 decides its result |
| `BringUp`, `App_WiFiConfigure` | `r900pnr_wifi_module_init` with its attempts; main goes on whatever comes of it |
| `Write` | `hgic_sdspi_write`, for commands and frames alike |
| `App_R900PnrLinkCheck`, `CheckSignal`, `ClearFlag` | the head of `App_R900PnrPoll` |
| `ReadPending`, `ReadIntrId`, `ReadLenLow`, `ReadLenHigh`, `ReadData`, `InitAgain` | `hgic_sdspi_read` |
| `Dispatch` | `hgic_raw_rx` and what the poll does with its result |
| `App_DemoSendH265` | the sender of a station |
| `FrameArrives`, `ModuleFallsBack` | the module (external) |
| `AlivePeriodElapses`, `AssocTimeElapses` | the two time-outs |

A command to the module has three outcomes: `Succeeds`, `Fails` (because the module does not answer, or by a fault) and
`Deceives` (a fault nobody notices: the data phase carries no CRC and a late response counts as a good one).
`Interrupt` derives the edges of the INT line from the state of the module; without the continuous SPI interrupt
(`BUS_IF_CTRL`) the line is driven only while a command holds the chip select. A read that was damaged, or that asks for
the wrong length (`Misread`), may bring the header through all the same, and `hgic_raw_rx` looks at nothing else; the
module may or may not count the frame as read. `last` is the number of the last frame handed on, `kept` whether the
module still had it; both are history. The events that make `hgic_raw_rx_event` send a command (connected, disconnected,
scan done) are told apart; the others change nothing and are left out.

Variables keep the names of the code. `target` is the bank that `FLASH_APP_START_ADDRESS` points to; `addr` is
`xmodem_actual_flash_address`, and `xmodem_packet_number` is derived from it, since both move together. `comm_status`
is left out: it is `UART_OK` exactly when a batch is pending or the first packet has come. `overrun` records that the
interrupt wrote to the buffer while a packet was in process, `committed` that the session has stored an end of
transfer; the code has no such variables and no guard reads `committed`.

### Abstractions

- A cell is the 128 bytes of one packet; a sector is a cell too.
- CRC32 of a bank is the content of the bank: no collisions. (The CRC of an erased bank of either size differs from an
  erased CRC word: 0xD4601D15 and 0xD1CA2956.) CRC16 and the complement of the number are one bit of the packet.
- STX packets are rejected: their CRC is read at the offset of a 128-byte packet (`xmodem.c:285`), and a chance match
  is left out.
- The words of the counter sector are programmed in address order, the CRC before the word of the two counters.
  `HalfDone` lists what a cut erase or write may leave: the old sector, a blank one, only the CRC, everything.
- A torn cell is `Junk`, which no packet holds. A buffer overwritten during a packet yields `Junk` as well.
- `rcvFlag` is read from memory at every pass of the receive loop. It is not `volatile` (`xmodem.c:35`) and the idle
  pass after the first packet makes no call, so this is a fact about the build, not about the C text;
  `TransferCompletes` depends on it.
- A batch that is not awaited by anybody (main, application, halt) is not modelled; a header that is no protocol byte
  after the first packet makes the loop spin, a stutter step.

## 3. Runs

| Run | Question | Result |
|---|---|---|
| `bootloader` | safety with a host that sends anything at any time, failing flash, resets everywhere; no cycles but one when left alone | holds, 3.8 million states |
| `settle` | does a device left alone run its firmware | holds, 0.8 million states |
| `link` | does the bank follow the sender, is the store implemented | holds, 64 thousand states |
| `link_hostile` | every fault at once, also a sender that breaks the protocol | holds, 3 million states |
| `complete` | does an undisturbed transfer advance, and end with its firmware running | holds, 3.6 thousand states |
| `console` | is a request made exactly when asked for, and is it atomic | holds, 0.36 million states |
| `scheduler` | periods, starvation and wrap | holds |
| `radio` | frames, stream and length of a pass under bus and module faults | holds, 0.65 million states |
| `first_deployment` | README:71, SWD to BankA, reset, application starts | violated |
| `brick_power` | README:9, never bricked | violated: power lost in the commit |
| `unchecked_packet` | README:12, every packet is checked | violated by a repeat during the erase |
| `second_commit` | README:84, a version that came by OTA stays | violated by the second EOT of a session |

### What the passing properties say

- `CountersInLockstep`: BankA's counter equals BankB's or is one ahead, modulo 2^16, whatever happens. Off lockstep
  `check_bank` would update the bank that boots.
- `FallbackSurvives`: until a session commits, no step spoils the bank the next reset boots. Its condition
  `addr <= End(target)` is the limit of 880K in the README: the code does not check it.
- `CommitInstalls`: the first commit of a session makes the bank it has written the one that boots, with its CRC. It says
  nothing of a second one: that is `second_commit`, below.
- `AppIsCertified`: `flash_jump_to_app` after a commit skips the CRC check, and still only certified code runs.
- `RequestIsOneShot`: the request word never outlives the first look at it.
- `TransferInStep`: the bank holds the packets the sender has had acknowledged, or one more.
- `LinkInductive`: the invariant behind `TransferInStep` and `RefinesStore`, in every reachable state (section 4).
- `RefinesStore`: under noise, loss, cancel, and flash errors and resets at every step, firmware changes only as a whole
  and nothing else runs. A commit that is cut short may lose it (`brick_power`), never mix it. One that is cut between
  its two words leaves the CRC of one bank and counters that select the other (`torn`): the next session may overwrite
  what is certified or bring it back, until a whole commit ends the state. A commit counts as done (`Finish`) only when
  what it has installed starts, or a reset comes and would boot it.
- `ComesToRest`: every step of the CPU that is no key press lowers `StepsLeft`, whatever fails and whatever was received:
  no time-out, failed erase or stale request sends the device round in circles. The one exception it names is real: an
  end of transfer whose image does not pass the jump test is handled again and again (`JumpReturns`).
- `SettlesInFirmware`: once nobody touches the device, it ends in the application; the exceptions it names are all
  places where the code really may stay: without a valid image the boot check is retried for ever, a flash error in a
  commit halts in `while (1)`, a host that falls silent after its first packet is waited for without limit, and after a
  failed session `main` loops on the CRC of the half-written bank (the comment at `xmodem.c:402` says "start over").
- `FiresOnCommand`: the matcher keeps an index and nothing else, yet it fires exactly on the texts that end in the
  command and a line end, whatever half words came before. (README:107 asks for the whole word; a line that ends in
  `XUPDATE` is taken as well.)
- `RequestIsMeant`: no request word lingers in memory or cache while the application runs, whatever reset cut an earlier
  request short - because the bootloader consumes it before anything else.
- `RequestReachesMemory`: the word is in memory when the reset comes, whether or not the cache has written it back.
- `RefinesBootloader`: to the bootloader the four steps are the one atomic `RequestUpdate`; the mapping hides the word
  while the application runs. All that is shown of `Bootloader` holds of the composition.
- `NeverEarly`, `RunsFitPeriods`, `Punctual`: a slot runs neither before its period is over, nor more often in total
  than its periods allow, nor later than its period and two passes of the main loop. The first two have an exception, and
  it is real: a slot that a handler starts with `Task_Run` or `Task_Create` carries a stamp later than the `now` of the
  cycle in progress, the unsigned difference wraps, and it runs at once if it is scanned later in the cycle
  (`Mcal_TimerTask.c:123`; the comment of `Task_Run` at :85 says the period restarts from now; no handler of the
  repository calls it yet, the call is open to all of them). `NeverEarly` names the run, `RunsFitPeriods` what follows from it: from then on the slot is
  one run ahead of its periods, and by the age of the sample more, since the run is stamped with the sample. It happens
  once for each start and does not add up.
- `InOrder`: frames are handed on in order and at most once; a failed read never dispatches what is left in the buffer.
  The exception: a frame that the module has kept, because the read was damaged or of the wrong length, may come again,
  but nothing comes between. What `InOrder` cannot see is damage behind an intact header; the code does not see it either.
- `FramesServed`: a frame the module holds is read, or lost in a reset of the module, however edges and clears of the
  flag fall - unless the initialisation has stayed half done (`HalfInitialised`): `hgic_sdspi_init` returns success
  although a register was not written, and the link check asks a function that answers all the same.
- `PassEnds`: every step lowers `PassLeft`, and a pass of the main loop has at most 35 of them, whatever fails: a read
  that fails initialises the module once more and leaves the poll, the retries of the bring-up have their limit. This is
  also what gives the scheduler its turn.
- `StreamStarts`: a station begins to send whatever happens to module and configuration.
- `TransferCompletes`: without faults a transfer that has begun ends in the new firmware.
- `TransferAdvances`: the same step by step, from the first packet on: no packet is refused or repeated, no batch is
  missed though the receiver clears `rcvFlag` without looking, and only the last jump, into the file that was sent,
  leaves the session. `WorkLeft` counts the steps of device and sender that remain, at most seven per packet.

### What the violated run `second_commit` adds

An EOT before any packet commits a blank bank and its jump returns (`xmodem.c:199`); a transfer that follows goes into the
same bank, and its EOT asks `check_bank` anew which counter to bump (`xmodem.c:170`). The file runs until the next reset,
which selects the other bank, with a CRC32 that is not its own. The passing properties cover these three steps only
in that nothing uncertified runs (`AppIsCertified`); `CommitInstalls` stops at the first commit.

### Bounds, and why they are enough

`MCBootloader`: BankA has one cell and BankB two, so an image of two packets runs over the end of BankA into BankB;
counters 0..2 wrap within three commits per bank and reach their erased value; packet numbers are modulo 3 and wrap in
the larger bank; two errors end a session; one key sample suffices, since samples only count. Each batch kind is
offered at each step. `Settle` uses two banks of one cell. `MCOtaLink`: two images of one and two packets, neither a
prefix of the other, banks of two and three cells, so an image is shorter than, equal to and padded in a bank. `link`
counts packets modulo 2, the least that tells neighbours apart, so the number wraps within a file; its faults are those
that `Orderly` (section 4) allows, which are all but a sender that breaks the protocol; the
hostile run uses smaller banks and all faults, with a file that is no application.

`MCOtaConsole`: a command of two characters and five characters between two resets hold a half word, a doubled first
letter, a word broken after its end and a whole command after any of these. `MCTaskScheduler`: two slots with periods
that do not divide one another, a time base of ten values that wraps in every position relative to a scan, passes of
up to two milliseconds, so a slot may miss a whole period. `MCRadioLink`: both roles, two frames, two
faults - enough for a fault during the recovery from a fault - two attempts at the bring-up, one configuration command.
The module sends data and one event (`Sends`); the other events take the same path through the model, and garbage in the
buffer may be taken for any of them. More frames only repeat the cycle of the poll.

### Fairness

`FairSpec` is weak fairness of `Cpu`: the loops of the bootloader keep running. No fairness is put on the host, the
key, the interrupt or on resets; which of two outcomes of a flash operation happens is not fair either. `FairLinkSpec`
adds that a sender that has begun goes on. For `RadioLink` the main loop (every wait in it has a limit: the SPI of the
controller is the master and clocks bytes whether or not anybody answers) and the two time-outs are weakly fair; the
module owes nothing, and `MaxFaults` makes faults end.
`CHECK_DEADLOCK FALSE` is set where a device without firmware spins in `main` and no fault is left to free it.

## 4. Theorems

All proofs are checked by TLAPS without any assumption beyond those named on the constants: banks are not empty, the
erased cell, the junk cell and the payloads differ, limits are numbers, an erased CRC word is not the CRC of a bank,
batches are well typed; the first letter of the command does not recur in it; periods are positive and, with the
longest pass of the main loop, far below the range of the time base. `Batches` is otherwise arbitrary, so the host is too.

| Theorem | Statement |
|---|---|
| `UpdateSparesBootBank` | in lockstep, the bank to update is not the bank to boot |
| `CommitSwitchesBanks` | after the bump, the bank that was updated boots |
| `InductiveHolds` | `Spec => []Inductive` |
| `TypeCorrect` | `Spec => []TypeOK` |
| `CountersStayInLockstep` | `Spec => []CountersInLockstep` |
| `OnlyCertifiedCodeRuns` | `Spec => []AppIsCertified` |
| `RequestsDoNotRepeat` | `Spec => []RequestIsOneShot` |
| `UntouchedComesToRest` | `Spec => [](StepsLeft \in Nat) /\ ComesToRest` |
| `FallbackAlwaysSurvives` | `Spec => FallbackSurvives` |
| `CommitsInstall` | `Spec => CommitInstalls` |
| `LinkCountersInLockstep` | `LinkSpec => []CountersInLockstep`, with any faults |
| `LinkFallbackSurvives` | `LinkSpec => FallbackSurvives`, with any faults |
| `LinkInductiveHolds` | `Orderly => (LinkSpec => []LinkInductive)` |
| `TransferStaysInStep` | `Orderly => (LinkSpec => []TransferInStep)` |
| `LinkImplementsStore` | `Orderly => (LinkSpec => RefinesStore)` |
| `WholeFilesRun` | `Orderly => (LinkSpec => []RunsInstalled)`: what runs is a whole file and the one that is installed |
| `BrickedOnlyByCutCommits` | `Orderly /\ ~CommitMayBeCut => (LinkSpec => NeverBricked)` |
| `TransfersAdvance` | `Orderly /\ Faults = {} => (LinkSpec => [](first => WorkLeft \in Nat) /\ TransferAdvances)` |
| `CommandsAreRecognised` | `ConsoleSpec => []FiresOnCommand` |
| `ConsoleTypes` | `ConsoleSpec => []ConsoleTypeOK` |
| `RequestsAreMeant` | `ConsoleSpec => []RequestIsMeant` |
| `RequestsReachMemory` | `ConsoleSpec => RequestReachesMemory` |
| `RequestsRefine` | `ConsoleSpec => RefinesBootloader` |
| `ConsoleKeepsGuarantees` | `ConsoleSpec` implies `[]CountersInLockstep`, `[]AppIsCertified`, `FallbackSurvives`, `CommitInstalls` and `ComesToRest` |
| `SchedulerTypes`, `SlotsArePunctual`, `RunsAlwaysFit`, `SlotsNeverEarly` | the four properties of `TaskScheduler` |
| `LinkTypes`, `FramesInOrder` | type correctness and order of `RadioLink` |
| `PassesEnd` | `Spec => [](PassLeft \in Nat) /\ PassEnds`, for `RadioLink` |

**The argument.** `Inductive` is the invariant (checked by run `bootloader` too). Lockstep alone is inductive only
together with the lockstep of the RAM copy that a commit will store, `CommitDescribesTarget`, which also says that the
copy holds the CRC of the bank of the session and that it will make this bank boot. That the fallback is spared needs
to know that a session before its commit writes the other bank (`SessionSparesFallback`, from `UpdateSparesBootBank`
at the choice of the bank) and that its addresses do not fall below that bank (`WritesFromStart`). `WriteInTarget`
then shows that outside of a commit a step changes at most one cell of the target, and `TargetWritten` that such a
write keeps the content of the other bank. `TypeStep` and `InductiveStep` have one step per action; `LeaveSafe`,
`LoopSafe` and `JumpSafe` treat the actions that end a session, stay in the packet loop, and jump.

**Rest.** `StepsLeft` adds up what the path to rest can still hold: a batch in the buffer with the erase of a whole bank,
the end of the session, a time-out and the start-up after it. The request flag is in it, so that a soft reset that found
the flag still set would start over; it does not, because `RequestIsOneShot` says the flag is gone by then. `StepsDescend`
goes through the actions; the erase counts its sectors (`CellsLeft`).

**The link.** `Orderly` names what `TransferInStep` and `RefinesStore` need: no impatient or stale sender, no header
damaged into EOT, packet numbers that tell neighbours apart, files that are applications. Noise, loss, cancels, and
flash errors and resets at every step, those inside the commit included, are all allowed. (Without it
`unchecked_packet` and `link_hostile` show what happens.) `LinkInductive` says where a packet
can be: at most one is on its way, and buffer, packet in process and answer all belong to the place of the sender in its
file (`HostKept`, `AnswerKept`, `ArrivalKept`); before the first packet nothing has been written, and after it the bank
holds the file up to there (`SessionKept`) - unless a cancel has spoiled the packet in process, and then the cancel is
what the receiver reads next (`Cancelling`); the stored CRC is that of a whole file, in the bank that boots unless a commit was cut short (`StoreKept`). A repeat is refused because neighbouring numbers differ modulo `PktMod` (`Neighbours`), so an accepted
packet is the next one and fits (`NextPacket`); an EOT is read only after the last packet, so what is certified is the
padded file (`WholeFile`), and the jump cannot return (`NoJumpReturns`). The two theorems about any faults need only `Inductive` and that the sender stays in its file.

**The store.** The mapping reads what is installed off the sector and the banks (`Installed`), what runs off the ITCM
(`Running`, with `<<>>` for anything that is no file, which the store cannot follow) and the state of the commit off `pc`
and the sector (`Phase`). `StoreSteps` sorts the steps of the link: the EOT is `Begin`, the erase of the sector `Install`,
its rewrite a stutter, the jump after it `Finish`, a commit cut short `Cut` (`CutCrc`: what is left in the sector is blank,
the old CRC, or that of the whole file), a write of a session a stutter or, in the torn state, `Overwrite`; every other
step starts or stops the firmware or goes unnoticed. That the jump ends the change needs one more invariant
(`JumpIntact`): between the rewrite and the jump the bank that a reset would boot is the one that is certified. If no
commit can be cut, neither `Cut` nor `Overwrite` is a step, and what is installed is never lost again:
`BrickedOnlyByCutCommits`, the positive half of `brick_power`. `WholeFilesRun` covers the torn state as well.

**Progress.** Without faults a session is at one of seven places (`Undisturbed`: nobody has sent, the sender's turn, a
batch in the buffer, its header read, a packet in process, its answer on the line, the commit), and each has one step
on. The packet in process is the one the bank is about to take (`Behind`), so it is accepted (`InStepAccepted`); the file
that starts is the one that was sent, because a padded file determines bank and file (`PaddedOnce`).

**The console.** The matcher is proved by an invariant that says what the index means: the last `match_idx` characters
heard are the first of the command, and no longer beginning of the command ends there. It is kept because the first
letter does not recur: a mismatch can leave no beginning but one of length one. `RequestsRefine` maps every step of the
composition to a step of `Bootloader` or a stutter; the reset at the end of the request is `RequestUpdate`. The refinement
hides the request word; `ConsoleKeepsGuarantees` states of the composition itself what `Bootloader` promises, by carrying
its invariant through steps that touch nothing but that word (`DeviceStep`).

**The scheduler.** `RunsFitPeriods` is kept by relating account and stamp: a slot that has not run early has at least the
age of its stamp in `credit`, one that has is behind by one period and a pass (`Ahead`). The invariant bounds the age of every slot by where the scan stands: before it is scanned a slot may
be late by what this pass and the one before have taken. The bound stays below half the range of the time base, which
makes unsigned differences true ones and lets the comparison of `Task_Handle_Cycle` be read as one of ages.

**The radio.** The frames on their way are those after the last one handed on, or from it on if the module has kept it
(`Least`), in the order of their arrival; the frame in the buffer, while it is dispatched, lies between the two; and the driver never returns into the dispatch. The length of
a pass is counted by two tables, one for the places outside of `hgic_sdspi_init` and `hgic_sdspi_write` (`LeftAt`) and one
inside (`InitLeft`), added up over the return address: `CalledStep`, `DriverLeft` and `ReturnLeft` show that a call, a step
and a return lower the sum, `BringUpStep` that every attempt does.

**Only model-checked.** The liveness properties (`SettlesInFirmware`, `TransferCompletes`, `FramesServed`, `StreamStarts`),
which are out of the prover's reach: each is the conclusion of a variant under fairness, which takes `ENABLED` and an
induction. Their variants are theorems: `ComesToRest`, `PassEnds` and `TransferAdvances` say that every step lowers a
number, `UntouchedComesToRest`, `PassesEnd` and `TransfersAdvance` that it stays one. Every other property of a passing run
is a theorem. The invariants `Undisturbed` and `JumpIntact` are stated beside their proofs and were checked with TLC on
the instances of `complete` and `link` before.

## 5. Not modelled

**How much of the repository this is.** Nearly all of its lines are vendored: the SDK twice (once per firmware), CMSIS
headers, USB and lwIP stacks, generated register definitions. The code written for this system is a few thousand lines,
and the components above are nearly all of it that keeps state. A share of the whole repository would say nothing.

**Left out for good:** register set-up, clocks, LEDs, log text, the Ethernet port and lwIP (never started by `main`), the
vendored code; in the radio driver the contents of the configuration commands and of their responses, boot download and
OTA of the module, and `App_WaitFwInfo`, which nothing calls.

**Left out, with what was seen while reading:**
- `xmodem.c:285` reads the CRC of an STX packet at the offset of a 128-byte one; a frame at byte level would add nothing
  to "an STX packet is rejected but for chance".
- `IAP.c:169-191` counts key samples that need not be consecutive; README:11 asks for a press of two seconds.
- `xmodem.c:292` takes its copy of `rcvFlag` when it is always set, so the flag of a batch that arrives during the shift
  is cleared with it; its comment says it is kept. `link` shows that the sender's repeat makes up for it.
- An EOT that arrives before any packet, from a sender that goes on after a reset, commits a bank nothing was written
  to; and after a file that is no application the same EOT is committed again and again. Both end like `brick_power`;
  both are steps of `link_hostile`. What they may lead to is `second_commit`. A header damaged into EOT in the
  middle of a file certifies half of it, against README:15 (half done, no certificate): the code asks for one EOT byte
  and nothing else. It is a step of `link_hostile` too, and what `Orderly` excludes for `RefinesStore`.
- `hgic_raw_rx` drops the result of `hgic_raw_rx_event` (`hgic_raw.c:288`), so the branch for events in the poll is never
  taken and `Wifi_Connected` never follows `conn_state`, although `App_R900PNR_Handle.c:196` says that the application
  tracks the association. `StreamStarts` holds all the same, by the time-out.
- `hgic_raw_set_mode` returns a count of bytes, so the mode is always sent twice, and `App_WiFiConfigure` never returns
  the 0 its comment promises. No caller looks.
- The configuration is sent once, after a failed bring-up too, and never again after the link check has initialised a
  module that was reset (`main.c:90-92`).
- The radio poll is called by `main` itself, not by `Task_10ms` as README:273 says.
- Whether `rcvFlag`, which is not `volatile`, is read anew at each pass of the receive loop is a question for the build.
