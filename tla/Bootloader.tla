----------------------------- MODULE Bootloader -----------------------------
(***************************************************************************)
(* The dual-bank serial bootloader (BOOTLOADER/Bootloader): bank choice,   *)
(* update window, XMODEM receiver, commit of a transfer, CRC-checked jump, *)
(* with the USART1 idle interrupt that runs beside them, flash operations  *)
(* that may fail, pin resets and power loss at every step, and the         *)
(* application reduced to what the bootloader sees of it.                  *)
(*                                                                         *)
(* A cell stands for the 128 bytes of an XMODEM packet, an image for the   *)
(* cells of its packets.  The whole-bank CRC32 is the content of the bank  *)
(* itself: collisions are abstracted away.  BankB starts where BankA ends, *)
(* as in inc/flash.h.                                                      *)
(***************************************************************************)
EXTENDS BankSelect, Integers

CONSTANTS
  CapA, CapB,    \* cells of each bank: 880K and 1024K in the code
  Data,          \* payloads of intact packets
  Blank, Junk,   \* an erased cell; a cell no intact packet holds
  Bootable,      \* first cells whose SP and reset vector pass the jump test
  NoImage,       \* an erased CRC word; an ITCM nothing was copied to
  Batches,       \* what the USART may receive between two idle lines
  PktMod,        \* packet numbers are uint8_t: 256 in the code
  MaxErrors,     \* X_MAX_ERRORS: 3
  WaitPolls,     \* key samples after a reset: 10, every 500 ms
  PressPolls     \* pressed samples that request an update: 4

ASSUME GeometryAssumption == CapA \in Nat \ {0} /\ CapB \in Nat \ {0}
ASSUME CellsAssumption ==
  /\ Blank \notin Data \cup {Junk} /\ Junk \notin Data
  /\ Bootable \subseteq Data \cup {Junk}
ASSUME LimitsAssumption ==
  /\ PktMod \in Nat \ {0} /\ MaxErrors \in Nat \ {0}
  /\ WaitPolls \in Nat /\ PressPolls \in Nat \ {0}

Addr == 1..(CapA + CapB)
Cells == Data \cup {Blank, Junk}

\* FLASH_APP_START_ADDRESS and FLASH_APP_END_ADDRESS of a bank.
Start(bk) == IF bk = "A" THEN 1 ELSE CapA + 1
End(bk)   == IF bk = "A" THEN CapA ELSE CapA + CapB
Content(f, bk) == [i \in Start(bk)..End(bk) |-> f[i]]
Contents == UNION {[Start(bk)..End(bk) -> Cells] : bk \in Banks}

ASSUME NoImageAssumption == NoImage \notin Contents

Control  == {"EOT", "CAN", "junk"}      \* single bytes
Headers  == Control \cup {"SOH", "STX"}
BatchSet == [hdr : Headers, num : 0..(PktMod - 1), data : Data \cup {Junk},
             ok : BOOLEAN]              \* ok: the packet's own CRC16 holds
ASSUME BatchesAssumption == Batches \subseteq BatchSet

\* A buffer whose bytes were shifted down, or never received.
Spent == [hdr |-> "junk", num |-> 0, data |-> Junk, ok |-> FALSE]

\* The last sector of the bootloader: two counters and the CRC32 word.
Sectors == [a : Counters, b : Counters, crc : Contents \cup {NoImage}]
ErasedSector == [a |-> ErasedCnt, b |-> ErasedCnt, crc |-> NoImage]

VARIABLES
  flash,        \* BankA and BankB
  info,         \* BOOT_LSAST_SECTOR
  otaFlag,      \* the word at OTA_FLAG_ADDR holds OTA_FLAG_MAGIC
  itcm,         \* what copy_app_to_itcm left in the ITCM
  pc,           \* where the one CPU is
  wait_time, update_flag,       \* locals of check_update
  target,       \* the bank FLASH_APP_START_ADDRESS points to
  first,        \* x_first_packet_received
  addr,         \* xmodem_actual_flash_address
  error_number, \* of xmodem_receive
  header,       \* of xmodem_receive
  pkt,          \* received_packet_number and _crc, and the shifted data
  erase_addr,   \* of flash_erase
  backup,       \* flash_page_backup
  rcvFlag,      \* set by the interrupt, consumed by the receiver
  buf,          \* received_packet_data, the DMA destination
  overrun,      \* the interrupt wrote to buf while a packet was in process
  reply,        \* the last protocol byte sent and not read by the host
  committed     \* history: this session has stored an end of transfer

nvm     == <<flash, info, otaFlag>>
choice  == <<wait_time, update_flag, target>>
session == <<first, addr, error_number>>
frame   == <<header, pkt, erase_addr>>
uart    == <<rcvFlag, buf, overrun>>
vars == <<flash, info, otaFlag, itcm, pc, wait_time, update_flag, target,
          first, addr, error_number, header, pkt, erase_addr, backup,
          rcvFlag, buf, overrun, reply, committed>>

InPacket == {"shift", "erase", "program"}
InCommit == {"commit_erase", "commit_write"}
InUpdate == InPacket \cup InCommit \cup {"xmodem", "dispatch", "jump"}
Locations == InUpdate \cup {"check_update", "key_wait", "main", "app", "halt"}

\* The variables of the receiver are back at their start values, or nothing
\* reads them any more.
ReceiverIdle ==
  /\ first' = FALSE /\ addr' = 0 /\ error_number' = 0
  /\ header' = "none" /\ pkt' = Spent /\ erase_addr' = 0
  /\ backup' = ErasedSector
  /\ rcvFlag' = FALSE /\ buf' = Spent /\ overrun' = FALSE

\* What a reset leaves of every variable that is not in flash and not in the
\* reserved SRAM word.
RamCleared ==
  /\ pc' = "check_update" /\ itcm' = NoImage
  /\ wait_time' = 0 /\ update_flag' = 0 /\ target' = "A"
  /\ ReceiverIdle /\ reply' = "none" /\ committed' = FALSE

\* A bootloader programmed by SWD on a device whose banks are blank, but for
\* whatever SWD put into BankA (README, first deployment).
Init ==
  /\ flash \in {f \in [Addr -> Data \cup {Blank}] :
                  \A i \in Start("B")..End("B") : f[i] = Blank}
  /\ info = ErasedSector /\ otaFlag = FALSE
  /\ pc = "check_update" /\ itcm = NoImage
  /\ wait_time = 0 /\ update_flag = 0 /\ target = "A"
  /\ first = FALSE /\ addr = 0 /\ error_number = 0
  /\ header = "none" /\ pkt = Spent /\ erase_addr = 0
  /\ backup = ErasedSector
  /\ rcvFlag = FALSE /\ buf = Spent /\ overrun = FALSE
  /\ committed = FALSE /\ reply = "none"

-----------------------------------------------------------------------------
(* check_update *)

\* The flag is not consumed.
Mutant_CheckFlag ==
  /\ pc = "check_update"
  /\ update_flag' = IF otaFlag THEN PressPolls ELSE 0
  /\ wait_time' = IF otaFlag THEN 0 ELSE WaitPolls
  /\ pc' = "key_wait"
  /\ UNCHANGED <<nvm, itcm, target, session, frame, backup, uart,
                 reply, committed>>

\* The flag is consumed at once and replaces the key window.
CheckFlag ==
  /\ pc = "check_update"
  /\ update_flag' = IF otaFlag THEN PressPolls ELSE 0
  /\ wait_time' = IF otaFlag THEN 0 ELSE WaitPolls
  /\ otaFlag' = FALSE
  /\ pc' = "key_wait"
  /\ UNCHANGED <<flash, info, itcm, target, session, frame, backup, uart,
                 reply, committed>>

\* One pass of the key window: pressed samples add up, in a row or not.
KeyPoll(pressed) ==
  /\ pc = "key_wait" /\ wait_time > 0
  /\ wait_time' = wait_time - 1
  /\ update_flag' = IF pressed THEN update_flag + 1 ELSE update_flag
  /\ UNCHANGED <<nvm, itcm, pc, target, session, frame, backup, uart, reply,
                 committed>>

\* An update takes the bank that boots.
Mutant_SelectBank ==
  /\ pc = "key_wait" /\ wait_time = 0
  /\ IF update_flag >= PressPolls
     THEN /\ target' = BootBank(info.a, info.b)
          /\ pc' = "xmodem"
          /\ addr' = Start(target')
     ELSE /\ target' = BootBank(info.a, info.b)
          /\ pc' = "main"
          /\ UNCHANGED addr
  /\ UNCHANGED <<nvm, itcm, wait_time, update_flag, first, error_number,
                 frame, backup, uart, reply, committed>>

\* check_bank(update_flag), then xmodem_download or back to main.
SelectBank ==
  /\ pc = "key_wait" /\ wait_time = 0
  /\ IF update_flag >= PressPolls
     THEN /\ target' = UpdateBank(info.a, info.b)
          /\ pc' = "xmodem"
          /\ addr' = Start(target')
     ELSE /\ target' = BootBank(info.a, info.b)
          /\ pc' = "main"
          /\ UNCHANGED addr
  /\ UNCHANGED <<nvm, itcm, wait_time, update_flag, first, error_number,
                 frame, backup, uart, reply, committed>>

-----------------------------------------------------------------------------
(* USART1_IRQHandler *)

\* The DMA restarts at the head of the buffer, so a single byte replaces the
\* header of what is there and a packet replaces all of it.  Bytes that come
\* while nothing will read them any more (main, app, halt) are left out.
USART1_IRQHandler(b) ==
  /\ pc \in InUpdate \cup {"check_update", "key_wait"}
  /\ buf' = IF b.hdr \in Control THEN [buf EXCEPT !.hdr = b.hdr] ELSE b
  /\ rcvFlag' = TRUE
  /\ overrun' = (overrun \/ pc \in InPacket)
  /\ UNCHANGED <<nvm, itcm, pc, choice, session, frame, backup, reply,
                 committed>>

-----------------------------------------------------------------------------
(* xmodem_receive *)

\* Leaving xmodem_receive with X_ERROR: xmodem_download returns to main.
EndSession == pc' = "main" /\ ReceiverIdle

\* The batch is ignored but not consumed.
Mutant_DropJunk ==
  /\ pc = "xmodem" /\ rcvFlag /\ ~first /\ buf.hdr = "junk"
  /\ UNCHANGED <<nvm, itcm, pc, choice, session, frame, backup, uart,
                 reply, committed>>

\* Before the first packet, a batch that starts with no protocol byte is
\* thrown away and the wait begins again.
DropJunk ==
  /\ pc = "xmodem" /\ rcvFlag /\ ~first /\ buf.hdr = "junk"
  /\ rcvFlag' = FALSE
  /\ UNCHANGED <<nvm, itcm, pc, choice, session, frame, backup, buf, overrun,
                 reply, committed>>

\* The header byte is read here and the rest of the batch one step later.
\* rcvFlag stays set.
ReadHeader ==
  /\ pc = "xmodem" /\ rcvFlag /\ buf.hdr # "junk"
  /\ header' = buf.hdr
  /\ pc' = "dispatch"
  /\ UNCHANGED <<nvm, itcm, choice, session, pkt, erase_addr, backup, uart,
                 reply, committed>>

\* 60 s without a first packet: a soft reset, which keeps SRAM (the CAN CAN
\* sent before it finds no host).
\* There is no such limit once the first packet has come (comm_status never
\* leaves UART_OK again).
FirstPacketTimeout ==
  /\ pc = "xmodem" /\ ~rcvFlag /\ ~first
  /\ RamCleared
  /\ UNCHANGED nvm

\* case X_CAN
HostCancelled ==
  /\ pc = "dispatch" /\ header = "CAN"
  /\ EndSession
  /\ UNCHANGED <<nvm, itcm, choice, reply, committed>>

\* xmodem_handle_packet up to the shift of the data to the head of buf.
BeginPacket ==
  /\ pc = "dispatch" /\ header \in {"SOH", "STX"}
  /\ pkt' = buf
  /\ buf' = Spent /\ overrun' = FALSE
  /\ reply' = "none"
  /\ pc' = "shift"
  /\ UNCHANGED <<nvm, itcm, choice, session, header, erase_addr, backup,
                 rcvFlag, committed>>

\* The shift is done: rcvFlag is cleared if it was set before the shift, and
\* it always was.  The CRC16 is computed over the shifted data and compared
\* with bytes 131 and 132 whatever the header: for an STX packet those are
\* two bytes of its payload (a match of one in 65536 is abstracted away).
EndShift ==
  /\ pc = "shift"
  /\ rcvFlag' = FALSE
  /\ pkt' = [pkt EXCEPT !.ok = @ /\ header = "SOH" /\ ~overrun]
  /\ overrun' = FALSE
  /\ pc' = IF first THEN "program" ELSE "erase"
  /\ erase_addr' = IF first THEN 0 ELSE Start(target)
  /\ UNCHANGED <<nvm, itcm, choice, session, header, backup, buf, reply,
                 committed>>

\* A flash error sets the error counter to its maximum: CAN CAN and out.
FlashFailed == EndSession /\ reply' = "CAN"

\* One sector of flash_erase, before the first packet is even checked.
EraseSector ==
  /\ pc = "erase" /\ erase_addr <= End(target)
  /\ flash' = [flash EXCEPT ![erase_addr] = Blank]
  /\ erase_addr' = erase_addr + 1
  /\ UNCHANGED <<info, otaFlag, itcm, pc, choice, session, header, pkt,
                 backup, uart, reply, committed>>

EraseFails ==
  /\ pc = "erase" /\ erase_addr <= End(target)
  /\ UNCHANGED flash \/ flash' = [flash EXCEPT ![erase_addr] = Junk]
  /\ FlashFailed
  /\ UNCHANGED <<info, otaFlag, itcm, choice, committed>>

EraseDone ==
  /\ pc = "erase" /\ erase_addr > End(target)
  /\ first' = TRUE
  /\ erase_addr' = 0
  /\ pc' = "program"
  /\ UNCHANGED <<nvm, itcm, choice, addr, error_number, header, pkt, backup,
                 uart, reply, committed>>

\* Packets are numbered from 0.
Mutant_PacketNumber == (addr - Start(target)) % PktMod

\* xmodem_packet_number starts at 1 and moves with the flash address.
PacketNumber == (addr - Start(target) + 1) % PktMod

\* The packet number is not compared.
Mutant_Acceptable == pkt.ok

Acceptable == pkt.num = PacketNumber /\ pkt.ok

\* What the head of buf holds by now.
ToProgram == IF overrun THEN Junk ELSE pkt.data

\* flash_write succeeds on an erased cell; nothing compares addr with the
\* end of the bank.
ProgramPacket ==
  /\ pc = "program" /\ Acceptable
  /\ addr \in Addr /\ flash[addr] = Blank
  /\ flash' = [flash EXCEPT ![addr] = ToProgram]
  /\ addr' = addr + 1
  /\ reply' = "ACK"
  /\ pc' = "xmodem"
  /\ header' = "none" /\ pkt' = Spent /\ overrun' = FALSE
  /\ UNCHANGED <<info, otaFlag, itcm, choice, first, error_number,
                 erase_addr, backup, rcvFlag, buf, committed>>

\* SMU_WriteFlash or the read-back fails: the cell keeps what it had or is
\* left with anything.
ProgramFails ==
  /\ pc = "program" /\ Acceptable
  /\ \/ UNCHANGED flash
     \/ addr \in Addr /\ flash' = [flash EXCEPT ![addr] = Junk]
  /\ FlashFailed
  /\ UNCHANGED <<info, otaFlag, itcm, choice, committed>>

\* A wrong number or CRC counts as an error, a repeated packet as well.  The
\* third error of a session ends it, however many packets went well between.
RejectPacket ==
  /\ pc = "program" /\ ~Acceptable
  /\ IF error_number + 1 >= MaxErrors
     THEN FlashFailed
     ELSE /\ error_number' = error_number + 1
          /\ reply' = "NAK"
          /\ pc' = "xmodem"
          /\ header' = "none" /\ pkt' = Spent /\ overrun' = FALSE
          /\ UNCHANGED <<first, addr, erase_addr, backup, rcvFlag, buf>>
  /\ UNCHANGED <<nvm, itcm, choice, committed>>

-----------------------------------------------------------------------------
(* case X_EOT: the commit *)

\* ACK, then the new counters and the CRC of the bank that was written are
\* put into the RAM copy of the sector.
EndOfTransmission ==
  /\ pc = "dispatch" /\ header = "EOT"
  /\ backup' = [a |-> BumpedA(info.a, info.b), b |-> BumpedB(info.a, info.b),
                crc |-> Content(flash, target)]
  /\ reply' = "ACK"
  /\ pc' = "commit_erase"
  /\ UNCHANGED <<nvm, itcm, choice, session, frame, uart, committed>>

CommitErase ==
  /\ pc = "commit_erase"
  /\ info' = ErasedSector
  /\ pc' = "commit_write"
  /\ UNCHANGED <<flash, otaFlag, itcm, choice, session, frame, backup, uart,
                 reply, committed>>

CommitWrite ==
  /\ pc = "commit_write"
  /\ info' = backup
  /\ committed' = TRUE
  /\ pc' = "jump"
  /\ UNCHANGED <<flash, otaFlag, itcm, choice, session, frame, backup, uart,
                 reply>>

\* What an unfinished erase or write of the sector may leave: words are
\* written one by one, the CRC word before the word of the two counters.
HalfDone ==
  IF pc = "commit_erase" THEN {info, ErasedSector}
  ELSE {ErasedSector, [ErasedSector EXCEPT !.crc = backup.crc], backup}

\* while(1): only a reset helps.
CommitFails ==
  /\ pc \in InCommit
  /\ info' \in HalfDone
  /\ pc' = "halt" /\ ReceiverIdle
  /\ UNCHANGED <<flash, otaFlag, itcm, choice, reply, committed>>

copy_app_to_itcm == itcm' = Content(flash, target)

\* flash_jump_to_app when the stack pointer and the reset vector pass its
\* test; the CRC is not checked here.  USART1 is reset on the way.
flash_jump_to_app ==
  /\ flash[Start(target)] \in Bootable
  /\ copy_app_to_itcm
  /\ pc' = "app" /\ ReceiverIdle /\ reply' = "none"
  /\ UNCHANGED <<nvm, choice, committed>>

JumpAfterCommit == pc = "jump" /\ flash_jump_to_app

\* When the test fails the loop of xmodem_receive goes on, with rcvFlag still
\* set: the same EOT is handled again.
JumpReturns ==
  /\ pc = "jump" /\ flash[Start(target)] \notin Bootable
  /\ pc' = "xmodem"
  /\ header' = "none" /\ backup' = ErasedSector
  /\ UNCHANGED <<nvm, itcm, choice, session, pkt, erase_addr, uart, reply,
                 committed>>

-----------------------------------------------------------------------------
(* main, the application, resets *)

check_app_crc == info.crc = Content(flash, target)

\* main jumps without the CRC check.
Mutant_CheckAndBoot ==
  /\ pc = "main"
  /\ flash_jump_to_app

\* One pass of the loop of main; a bank that fails the CRC or the jump test
\* is checked again for ever.
CheckAndBoot ==
  /\ pc = "main"
  /\ check_app_crc
  /\ flash_jump_to_app

\* ota_request_reset of the application.
RequestUpdate ==
  /\ pc = "app"
  /\ otaFlag' = TRUE
  /\ RamCleared
  /\ UNCHANGED <<flash, info>>

\* A flash operation that a reset cuts short.
CutShort ==
  /\ \/ UNCHANGED flash
     \/ /\ pc = "erase" /\ erase_addr <= End(target)
        /\ flash' = [flash EXCEPT ![erase_addr] = Junk]
     \/ /\ pc = "program" /\ Acceptable /\ addr \in Addr
        /\ flash' = [flash EXCEPT ![addr] = Junk]
  /\ IF pc \in InCommit THEN info' \in HalfDone ELSE UNCHANGED info

\* The reset pin keeps SRAM, a loss of power does not.
PinReset  == CutShort /\ RamCleared /\ UNCHANGED otaFlag
PowerLoss == CutShort /\ RamCleared /\ otaFlag' = FALSE

Receiver ==
  \/ DropJunk \/ ReadHeader \/ FirstPacketTimeout \/ HostCancelled
  \/ BeginPacket \/ EndShift
  \/ EraseSector \/ EraseFails \/ EraseDone
  \/ ProgramPacket \/ ProgramFails \/ RejectPacket
  \/ EndOfTransmission \/ CommitErase \/ CommitWrite \/ CommitFails
  \/ JumpAfterCommit \/ JumpReturns

\* Every step the CPU takes by itself, outside of interrupts.
Cpu ==
  \/ CheckFlag \/ (\E pressed \in BOOLEAN : KeyPoll(pressed)) \/ SelectBank
  \/ Receiver \/ CheckAndBoot

Receive == \E b \in Batches : USART1_IRQHandler(b)

Next == Cpu \/ Receive \/ RequestUpdate \/ PinReset \/ PowerLoss

Spec == Init /\ [][Next]_vars

\* The loops of the bootloader keep running; nothing else is owed.
FairSpec == Spec /\ WF_vars(Cpu)

-----------------------------------------------------------------------------
(* Properties *)

TypeOK ==
  /\ flash \in [Addr -> Cells] /\ info \in Sectors /\ otaFlag \in BOOLEAN
  /\ pc \in Locations /\ itcm \in Contents \cup {NoImage}
  /\ wait_time \in 0..WaitPolls /\ update_flag \in Nat
  /\ target \in Banks /\ first \in BOOLEAN
  /\ addr \in Nat /\ error_number \in Nat
  /\ header \in {"none", "SOH", "STX", "EOT", "CAN"}
  /\ pkt \in BatchSet /\ erase_addr \in Nat
  /\ backup \in Sectors
  /\ rcvFlag \in BOOLEAN /\ buf \in BatchSet /\ overrun \in BOOLEAN
  /\ reply \in {"none", "ACK", "NAK", "CAN"} /\ committed \in BOOLEAN

\* The counters never drift apart, through wraps, repeated end-of-transfer
\* bytes, torn commits and resets: a drift of two would make check_bank
\* update the bank that boots.
CountersInLockstep == InLockstep(info.a, info.b)

\* The bank the next reset boots.
Fallback == BootBank(info.a, info.b)

\* The bank the next reset boots is the one whose CRC is stored.
Intact == info.crc = Content(flash, Fallback)

\* Until its own commit, no step of a session, no failing flash operation
\* and no reset spoils the firmware a reset would go back to, whatever the
\* host sends - as long as the transfer stays inside the bank it writes.
FallbackSurvives ==
  [][(Intact /\ ~committed /\ pc \notin InCommit /\ addr <= End(target))
       => Intact']_vars

\* The first end of transfer a session stores makes the bank it has written
\* the one that boots, with its own CRC, at every value of the counters and
\* even though the sector was blank in between.
CommitInstalls ==
  [][(pc = "commit_write" /\ pc' = "jump" /\ ~committed)
       => Intact' /\ Fallback' = target]_vars

\* What runs is, byte for byte, the bank that was selected, and the CRC slot
\* certifies it - also right after a transfer, when main's check is skipped.
AppIsCertified ==
  pc = "app" => itcm = Content(flash, target) /\ info.crc = itcm

\* A request from the application opens one session: the flag does not
\* outlive the first look at it, so no reset re-enters the update mode.
RequestIsOneShot == otaFlag => pc = "check_update"

-----------------------------------------------------------------------------
(* The inductive invariant behind the safety properties *)

\* A session that has not committed writes the bank that does not boot.
SessionSparesFallback ==
  (pc \in InUpdate \ {"commit_write"} /\ ~committed) => target # Fallback

\* The write addresses never fall below the start of the bank.
WritesFromStart ==
  /\ pc \in InUpdate => addr >= Start(target)
  /\ pc = "erase" => erase_addr >= Start(target)

\* What is about to be stored, and what was, describes the bank on flash.
CommitDescribesTarget ==
  /\ InLockstep(backup.a, backup.b)
  /\ pc \in InCommit => backup.crc = Content(flash, target)
  /\ pc \in InCommit /\ ~committed => BootBank(backup.a, backup.b) = target
  /\ pc = "jump" => committed /\ info.crc = Content(flash, target)

\* All of it together is kept by every step, whatever the host sends.
Inductive ==
  /\ TypeOK /\ CountersInLockstep /\ AppIsCertified /\ RequestIsOneShot
  /\ SessionSparesFallback /\ WritesFromStart /\ CommitDescribesTarget

-----------------------------------------------------------------------------
(* Liveness: what happens once nobody touches the device any more *)

Touched ==
  \/ Receive \/ RequestUpdate \/ PinReset \/ PowerLoss \/ KeyPoll(TRUE)
Quiet == <>[][~Touched]_vars

Runnable == Intact /\ flash[Start(Fallback)] \in Bootable

\* The device is back in main after a session that failed.
Aborted == pc = "main" /\ update_flag >= PressPolls

\* A device left alone ends up running its firmware.  The only places where
\* it may stay instead: no firmware to run, a failed commit (while (1)), a
\* session that has received a packet, one that has already stored an end of
\* transfer, and main after a failed session.
SettlesInFirmware ==
  Quiet => <>[](\/ pc = "app" \/ ~Runnable \/ pc = "halt"
                \/ first \/ committed \/ Aborted)

-----------------------------------------------------------------------------
(* The variant behind the liveness: how many steps are left *)

\* In the receive loop with nothing to read: at most a timeout, a look at the
\* request word, the key window and the choice of the bank.
IdleSteps == 4 + WaitPolls

\* One batch from the idle line to the reply, with the erase of a whole bank.
BatchSteps == CapA + CapB + 6

Pending == IF rcvFlag THEN BatchSteps ELSE 0

CellsLeft == IF erase_addr <= End(target) THEN End(target) - erase_addr + 1
             ELSE 0

\* A bound on the steps the CPU takes from here before it rests in the
\* application, in the loop of main, in a halt, or on a silent line, if
\* nobody touches the device any more.
StepsLeft ==
  CASE pc \in {"app", "halt"} -> 0
    [] pc = "main"            -> 1
    [] pc = "jump"            -> 2
    [] pc = "commit_write"    -> 3
    [] pc = "commit_erase"    -> 4
    [] pc = "key_wait"        -> IF update_flag >= PressPolls
                                 THEN wait_time + 1 + IdleSteps + Pending
                                 ELSE wait_time + 2
    [] pc = "check_update"    -> IF otaFlag THEN 2 + IdleSteps + Pending
                                 ELSE 3 + WaitPolls
    [] pc = "xmodem"          -> IdleSteps + Pending
    [] pc = "dispatch"        -> IdleSteps + BatchSteps - 1
    [] pc = "shift"           -> IdleSteps + BatchSteps - 2
    [] pc = "erase"           -> IdleSteps + Pending + CellsLeft + 2
    [] pc = "program"         -> IdleSteps + Pending + 1

\* Whatever fails and whatever was received, a device that nobody touches
\* does not go round in circles: every step of the CPU, a timeout's soft
\* reset and a failed flash operation included, brings it closer to rest.
\* Only an end of transfer whose image does not pass the jump test is handled
\* again and again (JumpReturns).
ComesToRest ==
  [][Cpu /\ ~KeyPoll(TRUE) /\ ~JumpReturns => StepsLeft' < StepsLeft]_vars

-----------------------------------------------------------------------------
(* What the documentation says and the code does not keep *)

\* README, first deployment: after SWD put the application into BankA, a
\* reset and the countdown end in the application, unless the user asks for
\* an update first.
FirstDeploymentBoots ==
  flash[Start("A")] \in Bootable /\ Quiet => <>(pc \in {"app", "xmodem"})

\* README, daily development: unlike a debug build, a version that came by OTA
\* is persistent.  Then what runs after an end of transfer is what the next
\* reset boots, also when the session has seen an earlier one.
TransferPersists == pc = "app" /\ committed => Intact /\ Fallback = target
=============================================================================
