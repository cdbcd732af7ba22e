-------------------------- MODULE BootloaderProofs --------------------------
(***************************************************************************)
(* Safety of the bootloader for banks, counters, packets, limits and hosts *)
(* of every size and kind: Batches may hold anything a USART can receive.  *)
(***************************************************************************)
EXTENDS Bootloader, BankSelectProofs, TLAPS

-----------------------------------------------------------------------------
(* Facts about the operators *)

\* The banks are intervals of the flash and do not overlap.
LEMMA Geometry ==
  /\ \A bk \in Banks : Start(bk) \in Nat /\ End(bk) \in Nat
                       /\ Start(bk)..End(bk) \subseteq Addr
  /\ \A b1, b2 \in Banks : b1 # b2 =>
       \A i \in Start(b1)..End(b1) : i \notin Start(b2)..End(b2)
  BY GeometryAssumption, SMT DEF Banks, Start, End, Addr

\* The content of a bank is something a CRC can stand for.
LEMMA ContentType ==
  ASSUME NEW f \in [Addr -> Cells], NEW bk \in Banks
  PROVE  Content(f, bk) \in Contents
<1>1. Content(f, bk) \in [Start(bk)..End(bk) -> Cells]
  BY Geometry DEF Content
<1>. QED  BY <1>1 DEF Contents

\* A write outside a bank does not change its content.
LEMMA ContentKept ==
  ASSUME NEW f \in [Addr -> Cells], NEW bk \in Banks,
         NEW i, NEW c, i \notin Start(bk)..End(bk)
  PROVE  Content([f EXCEPT ![i] = c], bk) = Content(f, bk)
  BY Geometry, SMT DEF Content

\* A shifted-out buffer is a batch.
LEMMA SpentType == Spent \in BatchSet
  BY LimitsAssumption, SMT DEF Spent, BatchSet, Headers, Control

\* An erased sector is a sector, and its counters agree.
LEMMA ErasedSectorType ==
  ErasedSector \in Sectors /\ InLockstep(ErasedSector.a, ErasedSector.b)
  BY CntMaxAssumption, SMT
     DEF ErasedSector, Sectors, Counters, ErasedCnt, InLockstep

\* The counters an end of transfer stores are counters.
LEMMA BumpType ==
  ASSUME NEW a \in Counters, NEW b \in Counters
  PROVE  BumpedA(a, b) \in Counters /\ BumpedB(a, b) \in Counters
  BY IncrType DEF BumpedA, BumpedB

\* So is whatever an interrupted commit leaves of the sector.
LEMMA HalfDoneType ==
  ASSUME TypeOK, NEW s \in HalfDone, InLockstep(info.a, info.b),
         InLockstep(backup.a, backup.b)
  PROVE  s \in Sectors /\ InLockstep(s.a, s.b)
<1>1. [ErasedSector EXCEPT !.crc = backup.crc] \in Sectors
  BY ErasedSectorType DEF TypeOK, Sectors
<1>2. InLockstep([ErasedSector EXCEPT !.crc = backup.crc].a,
                 [ErasedSector EXCEPT !.crc = backup.crc].b)
  BY DEF ErasedSector, InLockstep
<1>. QED  BY <1>1, <1>2, ErasedSectorType DEF HalfDone, TypeOK

-----------------------------------------------------------------------------
(* Type correctness *)

\* Every state the device may start in is well typed.
LEMMA TypeInit == Init => TypeOK
<1>. SUFFICES ASSUME Init PROVE TypeOK
  OBVIOUS
<1>1. flash \in [Addr -> Cells]
  BY SMT DEF Init, Cells
<1>2. /\ pc \in Locations /\ itcm \in Contents \cup {NoImage}
      /\ target \in Banks /\ committed \in BOOLEAN
      /\ reply \in {"none", "ACK", "NAK", "CAN"}
  BY DEF Init, Locations, Banks
<1>3. wait_time \in 0..WaitPolls /\ update_flag \in Nat
  BY LimitsAssumption DEF Init
<1>4. /\ info \in Sectors /\ otaFlag \in BOOLEAN /\ backup \in Sectors
      /\ pkt \in BatchSet /\ buf \in BatchSet
      /\ rcvFlag \in BOOLEAN /\ overrun \in BOOLEAN
  BY SpentType, ErasedSectorType DEF Init
<1>5. /\ first \in BOOLEAN /\ addr \in Nat /\ error_number \in Nat
      /\ header \in {"none", "SOH", "STX", "EOT", "CAN"} /\ erase_addr \in Nat
  BY DEF Init
<1>. QED  BY <1>1, <1>2, <1>3, <1>4, <1>5 DEF TypeOK

\* The part of TypeOK that speaks of the receiver.
ReceiverTyped ==
  /\ first \in BOOLEAN /\ addr \in Nat /\ error_number \in Nat
  /\ header \in {"none", "SOH", "STX", "EOT", "CAN"}
  /\ pkt \in BatchSet /\ erase_addr \in Nat /\ backup \in Sectors
  /\ rcvFlag \in BOOLEAN /\ buf \in BatchSet /\ overrun \in BOOLEAN

\* Resets and the end of a session put the receiver back to type-correct
\* values.
LEMMA IdleType ==
  ASSUME ReceiverIdle
  PROVE  ReceiverTyped'
  BY SpentType, ErasedSectorType DEF ReceiverIdle, ReceiverTyped

\* A reset leaves well-typed variables behind.
LEMMA RamClearedType ==
  ASSUME TypeOK, RamCleared, flash' \in [Addr -> Cells], info' \in Sectors,
         otaFlag' \in BOOLEAN
  PROVE  TypeOK'
<1>1. /\ pc' \in Locations /\ itcm' \in Contents \cup {NoImage}
      /\ target' \in Banks /\ committed' \in BOOLEAN
      /\ reply' \in {"none", "ACK", "NAK", "CAN"}
  BY DEF RamCleared, Locations, Banks
<1>2. wait_time' \in 0..WaitPolls /\ update_flag' \in Nat
  BY LimitsAssumption DEF RamCleared
<1>3. ReceiverTyped'
  BY IdleType DEF RamCleared
<1>. QED  BY <1>1, <1>2, <1>3 DEF TypeOK, ReceiverTyped

\* A single cell may become blank, junk or a payload.
LEMMA CellWritten ==
  ASSUME TypeOK, NEW i, NEW c \in Cells
  PROVE  [flash EXCEPT ![i] = c] \in [Addr -> Cells]
<1>1. flash \in [Addr -> Cells]
  BY DEF TypeOK
<1>. QED  BY <1>1

\* So does a jump to the application.
LEMMA JumpType ==
  ASSUME TypeOK, flash_jump_to_app
  PROVE  TypeOK'
<1>1. itcm' \in Contents \cup {NoImage}
  BY ContentType DEF flash_jump_to_app, copy_app_to_itcm, TypeOK
<1>2. ReceiverTyped'
  BY IdleType DEF flash_jump_to_app
<1>3. pc' \in Locations /\ reply' \in {"none", "ACK", "NAK", "CAN"}
  BY DEF flash_jump_to_app, Locations
<1>4. UNCHANGED <<flash, info, otaFlag, wait_time, update_flag, target,
                  committed>>
  BY DEF flash_jump_to_app, nvm, choice
<1>. QED  BY <1>1, <1>2, <1>3, <1>4 DEF TypeOK, ReceiverTyped

\* So does a session that ends in main.
LEMMA EndType ==
  ASSUME TypeOK, EndSession, flash' \in [Addr -> Cells],
         UNCHANGED <<info, otaFlag, itcm, choice, committed>>,
         reply' \in {"none", "ACK", "NAK", "CAN"}
  PROVE  TypeOK'
<1>1. ReceiverTyped'
  BY IdleType DEF EndSession
<1>2. pc' \in Locations
  BY DEF EndSession, Locations
<1>3. /\ info' \in Sectors /\ otaFlag' \in BOOLEAN /\ target' \in Banks
      /\ itcm' \in Contents \cup {NoImage} /\ committed' \in BOOLEAN
      /\ wait_time' \in 0..WaitPolls /\ update_flag' \in Nat
  BY DEF TypeOK, choice
<1>. QED  BY <1>1, <1>2, <1>3 DEF TypeOK, ReceiverTyped

\* Each action keeps the types; the counters only as long as they agree.
LEMMA TypeStep == TypeOK /\ [Next]_vars /\ InLockstep(info.a, info.b)
                  /\ InLockstep(backup.a, backup.b) => TypeOK'
<1>. SUFFICES ASSUME TypeOK, [Next]_vars, InLockstep(info.a, info.b),
                     InLockstep(backup.a, backup.b)
              PROVE  TypeOK'
  OBVIOUS
<1>. USE DEF nvm, choice, session, frame, uart
<1>1. CASE CheckFlag
  <2>1. wait_time' \in 0..WaitPolls /\ update_flag' \in Nat
    BY <1>1, LimitsAssumption DEF CheckFlag
  <2>2. otaFlag' \in BOOLEAN /\ pc' \in Locations
    BY <1>1 DEF CheckFlag, Locations
  <2>. QED  BY <1>1, <2>1, <2>2 DEF CheckFlag, TypeOK
<1>2. ASSUME NEW pressed \in BOOLEAN, KeyPoll(pressed) PROVE TypeOK'
  BY <1>2, LimitsAssumption DEF KeyPoll, TypeOK
<1>3. CASE SelectBank
  BY <1>3, Geometry
     DEF SelectBank, TypeOK, Locations, InUpdate, UpdateBank, BootBank, Banks
<1>4. CASE DropJunk
  BY <1>4 DEF DropJunk, TypeOK
<1>5. CASE ReadHeader
  BY <1>5 DEF ReadHeader, TypeOK, Locations, InUpdate, BatchSet, Headers,
              Control
<1>6. CASE FirstPacketTimeout
  BY <1>6, RamClearedType DEF FirstPacketTimeout, TypeOK
<1>7. CASE HostCancelled
  BY <1>7, EndType DEF HostCancelled, TypeOK
<1>8. CASE BeginPacket
  BY <1>8, SpentType DEF BeginPacket, TypeOK, Locations, InUpdate, InPacket
<1>9. CASE EndShift
  <2>1. pkt' \in BatchSet
    BY <1>9 DEF EndShift, TypeOK, BatchSet
  <2>2. erase_addr' \in Nat
    BY <1>9, Geometry DEF EndShift, TypeOK
  <2>. QED  BY <1>9, <2>1, <2>2
            DEF EndShift, TypeOK, Locations, InUpdate, InPacket
<1>10. CASE EraseSector
  <2>1. flash' \in [Addr -> Cells]
    BY <1>10, CellWritten DEF EraseSector, TypeOK, Cells
  <2>. QED  BY <1>10, <2>1 DEF EraseSector, TypeOK
<1>11. CASE EraseFails
  <2>1. flash' \in [Addr -> Cells]
    BY <1>11, CellWritten DEF EraseFails, TypeOK, Cells
  <2>. QED  BY <1>11, <2>1, EndType DEF EraseFails, FlashFailed
<1>12. CASE EraseDone
  BY <1>12 DEF EraseDone, TypeOK, Locations, InUpdate, InPacket
<1>13. CASE ProgramPacket
  <2>1. ToProgram \in Cells
    BY DEF ToProgram, TypeOK, BatchSet, Cells
  <2>2. flash' \in [Addr -> Cells]
    BY <1>13, <2>1, CellWritten DEF ProgramPacket, TypeOK
  <2>3. addr' \in Nat
    BY <1>13 DEF ProgramPacket, TypeOK
  <2>4. pc' \in Locations /\ pkt' \in BatchSet
    BY <1>13, SpentType DEF ProgramPacket, Locations, InUpdate
  <2>. QED  BY <1>13, <2>2, <2>3, <2>4 DEF ProgramPacket, TypeOK
<1>14. CASE ProgramFails
  <2>1. flash' \in [Addr -> Cells]
    BY <1>14, CellWritten DEF ProgramFails, TypeOK, Cells
  <2>. QED  BY <1>14, <2>1, EndType DEF ProgramFails, FlashFailed
<1>15. CASE RejectPacket
  <2>1. CASE error_number + 1 >= MaxErrors
    BY <1>15, <2>1, EndType DEF RejectPacket, FlashFailed, TypeOK
  <2>2. CASE ~(error_number + 1 >= MaxErrors)
    <3>1. error_number' \in Nat
      BY <1>15, <2>2 DEF RejectPacket, TypeOK
    <3>2. pc' \in Locations /\ pkt' \in BatchSet
      BY <1>15, <2>2, SpentType DEF RejectPacket, Locations, InUpdate
    <3>. QED  BY <1>15, <2>2, <3>1, <3>2 DEF RejectPacket, TypeOK
  <2>. QED  BY <2>1, <2>2
<1>16. CASE EndOfTransmission
  <2>1. backup' \in Sectors
    BY <1>16, BumpType, ContentType DEF EndOfTransmission, TypeOK, Sectors
  <2>. QED  BY <1>16, <2>1
            DEF EndOfTransmission, TypeOK, Locations, InUpdate, InCommit
<1>17. CASE CommitErase
  BY <1>17, ErasedSectorType
     DEF CommitErase, TypeOK, Locations, InUpdate, InCommit
<1>18. CASE CommitWrite
  BY <1>18 DEF CommitWrite, TypeOK, Locations, InUpdate
<1>19. CASE CommitFails
  <2>1. info' \in Sectors
    BY <1>19, HalfDoneType DEF CommitFails
  <2>2. ReceiverTyped'
    BY <1>19, IdleType DEF CommitFails
  <2>. QED  BY <1>19, <2>1, <2>2
            DEF CommitFails, TypeOK, ReceiverTyped, Locations
<1>20. CASE JumpAfterCommit
  BY <1>20, JumpType DEF JumpAfterCommit
<1>21. CASE JumpReturns
  BY <1>21, ErasedSectorType DEF JumpReturns, TypeOK, Locations, InUpdate
<1>22. CASE CheckAndBoot
  BY <1>22, JumpType DEF CheckAndBoot
<1>23. ASSUME NEW b \in Batches, USART1_IRQHandler(b) PROVE TypeOK'
  <2>1. buf' \in BatchSet
    BY <1>23, BatchesAssumption DEF USART1_IRQHandler, TypeOK, BatchSet
  <2>. QED  BY <1>23, <2>1 DEF USART1_IRQHandler, TypeOK
<1>24. CASE RequestUpdate
  BY <1>24, RamClearedType DEF RequestUpdate, TypeOK
<1>25. CASE PinReset \/ PowerLoss
  <2>1. flash' \in [Addr -> Cells]
    BY <1>25, CellWritten DEF PinReset, PowerLoss, CutShort, TypeOK, Cells
  <2>2. info' \in Sectors
    BY <1>25, HalfDoneType DEF PinReset, PowerLoss, CutShort, TypeOK
  <2>. QED  BY <1>25, <2>1, <2>2, RamClearedType
            DEF PinReset, PowerLoss, TypeOK
<1>26. CASE UNCHANGED vars
  BY <1>26 DEF vars, TypeOK
<1>. QED
  BY <1>1, <1>2, <1>3, <1>4, <1>5, <1>6, <1>7, <1>8, <1>9, <1>10, <1>11,
     <1>12, <1>13, <1>14, <1>15, <1>16, <1>17, <1>18, <1>19, <1>20, <1>21,
     <1>22, <1>23, <1>24, <1>25, <1>26 DEF Next, Cpu, Receiver, Receive

-----------------------------------------------------------------------------
(* The inductive invariant *)

Safe ==
  /\ CountersInLockstep /\ AppIsCertified /\ RequestIsOneShot
  /\ SessionSparesFallback /\ WritesFromStart /\ CommitDescribesTarget

\* A blank device satisfies the invariant.
LEMMA InductiveInit == Init => Inductive
<1>. SUFFICES ASSUME Init PROVE Inductive
  OBVIOUS
<1>1. TypeOK
  BY TypeInit
<1>2. CountersInLockstep /\ InLockstep(backup.a, backup.b)
  BY ErasedSectorType DEF Init, CountersInLockstep
<1>3. AppIsCertified /\ RequestIsOneShot /\ SessionSparesFallback
      /\ WritesFromStart
  BY DEF Init, AppIsCertified, RequestIsOneShot, SessionSparesFallback,
         WritesFromStart, InUpdate, InPacket, InCommit
<1>4. CommitDescribesTarget
  BY <1>2 DEF Init, CommitDescribesTarget, InCommit
<1>. QED  BY <1>1, <1>2, <1>3, <1>4 DEF Inductive

\* Leaving a session for main, the halt loop or a reset.
LEMMA LeaveSafe ==
  ASSUME ReceiverIdle, pc' \in {"main", "halt", "check_update"},
         InLockstep(info'.a, info'.b), otaFlag' => pc' = "check_update"
  PROVE  Safe'
<1>1. CountersInLockstep' /\ InLockstep(backup'.a, backup'.b)
  BY ErasedSectorType DEF CountersInLockstep, ReceiverIdle
<1>2. AppIsCertified' /\ RequestIsOneShot' /\ SessionSparesFallback'
      /\ WritesFromStart'
  BY DEF AppIsCertified, RequestIsOneShot, SessionSparesFallback,
         WritesFromStart, InUpdate, InPacket, InCommit
<1>3. CommitDescribesTarget'
  BY <1>1 DEF CommitDescribesTarget, InCommit
<1>. QED  BY <1>1, <1>2, <1>3 DEF Safe

\* A step inside the packet loop, as long as its addresses stay in the bank.
LEMMA LoopSafe ==
  ASSUME Inductive, pc \in InUpdate \ InCommit,
         pc' \in InPacket \cup {"xmodem", "dispatch"},
         UNCHANGED <<info, otaFlag, target, committed>>,
         backup' = backup \/ backup' = ErasedSector,
         addr' >= Start(target),
         pc' = "erase" => erase_addr' >= Start(target)
  PROVE  Safe'
<1>1. CountersInLockstep' /\ InLockstep(backup'.a, backup'.b)
  BY ErasedSectorType DEF CountersInLockstep, CommitDescribesTarget, Inductive
<1>2. RequestIsOneShot' /\ AppIsCertified'
  BY DEF Inductive, RequestIsOneShot, AppIsCertified, InUpdate, InPacket,
         InCommit
<1>3. SessionSparesFallback'
  BY DEF Inductive, SessionSparesFallback, Fallback, InUpdate, InPacket,
         InCommit
<1>4. WritesFromStart'
  BY DEF WritesFromStart
<1>5. CommitDescribesTarget'
  BY <1>1 DEF CommitDescribesTarget, InCommit, InPacket
<1>. QED  BY <1>1, <1>2, <1>3, <1>4, <1>5 DEF Safe

\* A jump to a bank whose content is the stored one.
LEMMA JumpSafe ==
  ASSUME Inductive, flash_jump_to_app, pc \in {"main", "jump"},
         info.crc = Content(flash, target)
  PROVE  Safe'
<1>1. /\ UNCHANGED <<flash, info, otaFlag, target>> /\ pc' = "app"
      /\ itcm' = Content(flash, target) /\ ReceiverIdle
  BY DEF flash_jump_to_app, copy_app_to_itcm, nvm, choice
<1>2. CountersInLockstep' /\ InLockstep(backup'.a, backup'.b)
  BY <1>1, ErasedSectorType DEF Inductive, CountersInLockstep, ReceiverIdle
<1>3. AppIsCertified'
  BY <1>1 DEF AppIsCertified, Content
<1>4. RequestIsOneShot' /\ SessionSparesFallback' /\ WritesFromStart'
  BY <1>1 DEF Inductive, RequestIsOneShot, SessionSparesFallback,
              WritesFromStart, InUpdate, InPacket, InCommit
<1>5. CommitDescribesTarget'
  BY <1>1, <1>2 DEF CommitDescribesTarget, InCommit
<1>. QED  BY <1>2, <1>3, <1>4, <1>5 DEF Safe

\* What a cut commit leaves in the sector is in lockstep.
LEMMA CutInfo ==
  ASSUME Inductive, CutShort
  PROVE  InLockstep(info'.a, info'.b)
  BY HalfDoneType
     DEF Inductive, CutShort, CountersInLockstep, CommitDescribesTarget

\* The invariant is kept by every step, one case per action.
LEMMA InductiveStep == Inductive /\ [Next]_vars => Inductive'
<1>. SUFFICES ASSUME Inductive, [Next]_vars PROVE Inductive'
  OBVIOUS
<1>0. /\ TypeOK /\ CountersInLockstep /\ AppIsCertified /\ RequestIsOneShot
      /\ SessionSparesFallback /\ WritesFromStart /\ CommitDescribesTarget
  BY DEF Inductive
<1>a. TypeOK'
  BY <1>0, TypeStep DEF CountersInLockstep, CommitDescribesTarget
<1>b. SUFFICES Safe'
  BY <1>a DEF Inductive, Safe
<1>. USE DEF nvm, choice, session, frame, uart
<1>1. CASE CheckFlag
  BY <1>0, <1>1
     DEF CheckFlag, Safe, CountersInLockstep, AppIsCertified,
         RequestIsOneShot, SessionSparesFallback, WritesFromStart,
         CommitDescribesTarget, InUpdate, InPacket, InCommit
<1>2. ASSUME NEW pressed \in BOOLEAN, KeyPoll(pressed) PROVE Safe'
  BY <1>0, <1>2
     DEF KeyPoll, Safe, CountersInLockstep, AppIsCertified,
         RequestIsOneShot, SessionSparesFallback, WritesFromStart,
         CommitDescribesTarget, InUpdate, InPacket, InCommit
<1>3. CASE SelectBank
  <2>1. UNCHANGED <<flash, info, otaFlag, committed, backup>>
        /\ pc' \in {"xmodem", "main"} /\ ~otaFlag
    BY <1>0, <1>3 DEF SelectBank, RequestIsOneShot
  <2>2. CountersInLockstep' /\ AppIsCertified' /\ RequestIsOneShot'
    BY <1>0, <2>1 DEF CountersInLockstep, AppIsCertified, RequestIsOneShot
  <2>3. SessionSparesFallback'
    <3>1. info.a \in Counters /\ info.b \in Counters
      BY <1>0 DEF TypeOK, Sectors
    <3>2. UpdateBank(info.a, info.b) # Fallback
      BY <1>0, <3>1, UpdateSparesBootBank DEF CountersInLockstep, Fallback
    <3>. QED  BY <1>3, <3>2, <2>1
              DEF SelectBank, SessionSparesFallback, Fallback, InUpdate,
                  InPacket, InCommit
  <2>4. WritesFromStart'
    <3>1. pc' = "xmodem" => addr' = Start(target')
      BY <1>3 DEF SelectBank
    <3>2. target' \in Banks
      BY <1>a DEF TypeOK
    <3>3. Start(target') \in Nat
      BY <3>2, Geometry
    <3>4. pc' = "xmodem" => addr' >= Start(target')
      BY <3>1, <3>3
    <3>5. pc' \in InUpdate => pc' = "xmodem"
      BY <2>1 DEF InUpdate, InPacket, InCommit
    <3>. QED  BY <3>4, <3>5, <2>1 DEF WritesFromStart
  <2>5. CommitDescribesTarget'
    BY <1>0, <2>1 DEF CommitDescribesTarget, InCommit
  <2>. QED  BY <2>2, <2>3, <2>4, <2>5 DEF Safe
<1>4. CASE DropJunk
  BY <1>0, <1>4, LoopSafe DEF DropJunk, WritesFromStart, InUpdate, InCommit
<1>5. CASE ReadHeader
  BY <1>0, <1>5, LoopSafe DEF ReadHeader, WritesFromStart, InUpdate, InCommit
<1>6. CASE FirstPacketTimeout
  BY <1>0, <1>6, LeaveSafe
     DEF FirstPacketTimeout, RamCleared, CountersInLockstep
<1>7. CASE HostCancelled
  BY <1>0, <1>7, LeaveSafe
     DEF HostCancelled, EndSession, CountersInLockstep, RequestIsOneShot
<1>8. CASE BeginPacket
  BY <1>0, <1>8, LoopSafe
     DEF BeginPacket, WritesFromStart, InUpdate, InPacket, InCommit
<1>9. CASE EndShift
  <2>1. addr >= Start(target) /\ Start(target) \in Nat
    BY <1>0, <1>9, Geometry
       DEF EndShift, TypeOK, WritesFromStart, InUpdate, InPacket
  <2>2. pc' = "erase" => erase_addr' = Start(target)
    BY <1>9 DEF EndShift
  <2>3. pc' = "erase" => erase_addr' >= Start(target)
    BY <2>1, <2>2
  <2>. QED  BY <1>9, <2>1, <2>3, LoopSafe
            DEF EndShift, InUpdate, InPacket, InCommit
<1>10. CASE EraseSector
  <2>1. addr >= Start(target) /\ erase_addr >= Start(target)
    BY <1>0, <1>10 DEF EraseSector, WritesFromStart, InUpdate, InPacket
  <2>2. erase_addr' >= Start(target)
    <3>1. erase_addr \in Nat /\ Start(target) \in Nat
      BY <1>0, Geometry DEF TypeOK
    <3>2. erase_addr' = erase_addr + 1
      BY <1>10 DEF EraseSector
    <3>. QED  BY <2>1, <3>1, <3>2
  <2>. QED  BY <1>10, <2>1, <2>2, LoopSafe
            DEF EraseSector, InUpdate, InPacket, InCommit
<1>11. CASE EraseFails \/ ProgramFails
  BY <1>0, <1>11, LeaveSafe
     DEF EraseFails, ProgramFails, FlashFailed, EndSession,
         CountersInLockstep, RequestIsOneShot
<1>12. CASE EraseDone
  BY <1>0, <1>12, LoopSafe
     DEF EraseDone, WritesFromStart, InUpdate, InPacket, InCommit
<1>13. CASE ProgramPacket
  <2>1. addr >= Start(target)
    BY <1>0, <1>13 DEF ProgramPacket, WritesFromStart, InUpdate, InPacket
  <2>2. addr' >= Start(target)
    <3>1. addr \in Nat /\ Start(target) \in Nat
      BY <1>0, Geometry DEF TypeOK
    <3>2. addr' = addr + 1
      BY <1>13 DEF ProgramPacket
    <3>. QED  BY <2>1, <3>1, <3>2
  <2>. QED  BY <1>13, <2>2, LoopSafe
            DEF ProgramPacket, InUpdate, InPacket, InCommit
<1>15. CASE RejectPacket
  <2>1. CASE error_number + 1 >= MaxErrors
    BY <1>0, <1>15, <2>1, LeaveSafe
       DEF RejectPacket, FlashFailed, EndSession, CountersInLockstep,
           RequestIsOneShot
  <2>2. CASE ~(error_number + 1 >= MaxErrors)
    BY <1>0, <1>15, <2>2, LoopSafe
       DEF RejectPacket, WritesFromStart, InUpdate, InPacket, InCommit
  <2>. QED  BY <2>1, <2>2
<1>16. CASE EndOfTransmission
  <2>1. UNCHANGED <<flash, info, otaFlag, target, committed, addr>>
        /\ pc = "dispatch" /\ pc' = "commit_erase"
    BY <1>16 DEF EndOfTransmission
  <2>2. CountersInLockstep' /\ AppIsCertified' /\ RequestIsOneShot'
    BY <1>0, <2>1 DEF CountersInLockstep, AppIsCertified, RequestIsOneShot
  <2>3. SessionSparesFallback' /\ WritesFromStart'
    BY <1>0, <2>1
       DEF SessionSparesFallback, Fallback, WritesFromStart, InUpdate
  <2>4. CommitDescribesTarget'
    <3>1. InLockstep(backup'.a, backup'.b)
      BY <1>0, <1>16, LockstepKept
         DEF EndOfTransmission, TypeOK, Sectors, CountersInLockstep
    <3>2. backup'.crc = Content(flash', target')
      BY <1>16, <2>1 DEF EndOfTransmission
    <3>3. ~committed => BootBank(backup'.a, backup'.b) = target
      <4>1. info.a \in Counters /\ info.b \in Counters
            /\ InLockstep(info.a, info.b) /\ target \in Banks
        BY <1>0 DEF TypeOK, Sectors, CountersInLockstep
      <4>2. ~committed => target # BootBank(info.a, info.b)
        BY <1>0, <2>1
           DEF SessionSparesFallback, Fallback, InUpdate, InCommit
      <4>3. ~committed => target = UpdateBank(info.a, info.b)
        BY <4>1, <4>2, UpdateSparesBootBank DEF Banks, UpdateBank, BootBank
      <4>4. BootBank(backup'.a, backup'.b) = UpdateBank(info.a, info.b)
        BY <1>16, <4>1, CommitSwitchesBanks DEF EndOfTransmission
      <4>. QED  BY <4>3, <4>4
    <3>. QED  BY <2>1, <3>1, <3>2, <3>3 DEF CommitDescribesTarget
  <2>. QED  BY <2>2, <2>3, <2>4 DEF Safe
<1>17. CASE CommitErase
  BY <1>0, <1>17, ErasedSectorType
     DEF CommitErase, Safe, CountersInLockstep, AppIsCertified,
         RequestIsOneShot, SessionSparesFallback, WritesFromStart,
         CommitDescribesTarget, InUpdate, InPacket, InCommit
<1>18. CASE CommitWrite
  BY <1>0, <1>18
     DEF CommitWrite, Safe, CountersInLockstep, AppIsCertified,
         RequestIsOneShot, SessionSparesFallback, WritesFromStart,
         CommitDescribesTarget, InUpdate, InPacket, InCommit
<1>19. CASE CommitFails
  <2>1. InLockstep(info'.a, info'.b)
    BY <1>0, <1>19, HalfDoneType
       DEF CommitFails, CountersInLockstep, CommitDescribesTarget
  <2>. QED  BY <1>0, <1>19, <2>1, LeaveSafe
            DEF CommitFails, RequestIsOneShot, InCommit
<1>20. CASE JumpAfterCommit
  BY <1>0, <1>20, JumpSafe DEF JumpAfterCommit, CommitDescribesTarget
<1>21. CASE JumpReturns
  BY <1>0, <1>21, LoopSafe
     DEF JumpReturns, WritesFromStart, InUpdate, InCommit
<1>22. CASE CheckAndBoot
  BY <1>22, JumpSafe DEF CheckAndBoot, check_app_crc
<1>23. ASSUME NEW b \in Batches, USART1_IRQHandler(b) PROVE Safe'
  BY <1>0, <1>23
     DEF USART1_IRQHandler, Safe, CountersInLockstep, AppIsCertified,
         RequestIsOneShot, SessionSparesFallback, Fallback, WritesFromStart,
         CommitDescribesTarget
<1>24. CASE RequestUpdate
  BY <1>0, <1>24, LeaveSafe DEF RequestUpdate, RamCleared, CountersInLockstep
<1>25. CASE PinReset \/ PowerLoss
  <2>1. CutShort /\ RamCleared
    BY <1>25 DEF PinReset, PowerLoss
  <2>. QED  BY <2>1, CutInfo, LeaveSafe DEF RamCleared
<1>26. CASE UNCHANGED vars
  BY <1>0, <1>26
     DEF vars, Safe, CountersInLockstep, AppIsCertified,
         RequestIsOneShot, SessionSparesFallback, Fallback, WritesFromStart,
         CommitDescribesTarget
<1>. QED
  BY <1>1, <1>2, <1>3, <1>4, <1>5, <1>6, <1>7, <1>8, <1>9, <1>10, <1>11,
     <1>12, <1>13, <1>15, <1>16, <1>17, <1>18, <1>19, <1>20, <1>21,
     <1>22, <1>23, <1>24, <1>25, <1>26 DEF Next, Cpu, Receiver, Receive

-----------------------------------------------------------------------------
(* What every execution satisfies *)

\* Inductive: the conjunction the safety theorems rest on, in every reachable
\* state.
THEOREM InductiveHolds == Spec => []Inductive
  BY InductiveInit, InductiveStep, PTL DEF Spec

\* Every variable keeps its type, for batches of any content.
THEOREM TypeCorrect == Spec => []TypeOK
<1>1. Inductive => TypeOK
  BY DEF Inductive
<1>. QED  BY <1>1, InductiveHolds, PTL

\* The two upgrade counters never drift apart (xmodem.c, X_EOT), whatever is
\* sent, wherever the commit is cut and however often they wrap.
THEOREM CountersStayInLockstep == Spec => []CountersInLockstep
<1>1. Inductive => CountersInLockstep
  BY DEF Inductive
<1>. QED  BY <1>1, InductiveHolds, PTL

\* flash_jump_to_app never starts anything but the selected bank with the CRC
\* that is stored, also from xmodem_receive, where no CRC is compared.
THEOREM OnlyCertifiedCodeRuns == Spec => []AppIsCertified
<1>1. Inductive => AppIsCertified
  BY DEF Inductive
<1>. QED  BY <1>1, InductiveHolds, PTL

\* check_update consumes the request of the application before anything else.
THEOREM RequestsDoNotRepeat == Spec => []RequestIsOneShot
<1>1. Inductive => RequestIsOneShot
  BY DEF Inductive
<1>. QED  BY <1>1, InductiveHolds, PTL

\* A write inside the bank of a session that has not committed leaves the
\* other bank, the one a reset boots, as it is.
LEMMA FallbackUntouched ==
  ASSUME Inductive, ~committed, pc \in InPacket, info' = info,
         NEW i \in Start(target)..End(target), NEW c,
         flash' = [flash EXCEPT ![i] = c]
  PROVE  Content(flash', Fallback) = Content(flash, Fallback)
<1>1. target # Fallback /\ target \in Banks /\ Fallback \in Banks
  BY DEF Inductive, TypeOK, SessionSparesFallback, InUpdate, InPacket,
         InCommit, Fallback, BootBank, Banks
<1>2. i \notin Start(Fallback)..End(Fallback)
  BY <1>1, Geometry
<1>. QED  BY <1>1, <1>2, ContentKept DEF Inductive, TypeOK

\* So it is intact after the write when it was before.
LEMMA TargetWritten ==
  ASSUME Inductive, Intact, ~committed, pc \in InPacket, info' = info,
         NEW i \in Start(target)..End(target), NEW c,
         flash' = [flash EXCEPT ![i] = c]
  PROVE  Intact'
  BY FallbackUntouched DEF Intact, Fallback

\* Outside of a commit, a step writes nothing or one cell of the bank of the
\* session.
LEMMA WriteInTarget ==
  ASSUME Inductive, [Next]_vars, pc \notin InCommit, addr <= End(target)
  PROVE  /\ info' = info
         /\ \/ flash' = flash
            \/ /\ pc \in InPacket
               /\ \E i \in Start(target)..End(target), c \in Cells :
                    flash' = [flash EXCEPT ![i] = c]
<1>. USE DEF nvm, choice, session, frame, uart
<1>. DEFINE Written == \E i \in Start(target)..End(target), c \in Cells :
                         flash' = [flash EXCEPT ![i] = c]
<1>0. /\ TypeOK /\ target \in Banks /\ addr \in Nat /\ erase_addr \in Nat
      /\ Start(target) \in Nat /\ End(target) \in Nat
  BY Geometry DEF Inductive, TypeOK
<1>1. pc = "erase" /\ erase_addr <= End(target)
        => erase_addr \in Start(target)..End(target)
  BY <1>0 DEF Inductive, WritesFromStart
<1>2. pc = "program" => addr \in Start(target)..End(target)
  <2>1. pc = "program" => addr >= Start(target)
    BY DEF Inductive, WritesFromStart, InUpdate, InPacket
  <2>. QED  BY <1>0, <2>1
<1>3. ToProgram \in Cells /\ Blank \in Cells /\ Junk \in Cells
  BY <1>0 DEF ToProgram, TypeOK, BatchSet, Cells
<1>4. CASE EraseSector
  <2>1. Written /\ pc = "erase" /\ info' = info
    BY <1>1, <1>3, <1>4 DEF EraseSector
  <2>. QED  BY <2>1 DEF InPacket
<1>5. CASE EraseFails
  <2>1. (Written \/ flash' = flash) /\ pc = "erase" /\ info' = info
    BY <1>1, <1>3, <1>5 DEF EraseFails
  <2>. QED  BY <2>1 DEF InPacket
<1>6. CASE ProgramPacket
  <2>1. Written /\ pc = "program" /\ info' = info
    BY <1>2, <1>3, <1>6 DEF ProgramPacket
  <2>. QED  BY <2>1 DEF InPacket
<1>7. CASE ProgramFails
  <2>1. (Written \/ flash' = flash) /\ pc = "program" /\ info' = info
    BY <1>2, <1>3, <1>7 DEF ProgramFails
  <2>. QED  BY <2>1 DEF InPacket
<1>8. CASE PinReset \/ PowerLoss
  <2>1. info' = info
    BY <1>8 DEF PinReset, PowerLoss, CutShort
  <2>2. flash' = flash \/ (Written /\ pc \in {"erase", "program"})
    BY <1>1, <1>2, <1>3, <1>8 DEF PinReset, PowerLoss, CutShort
  <2>. QED  BY <2>1, <2>2 DEF InPacket
<1>9. CASE CommitErase \/ CommitWrite \/ CommitFails
  BY <1>9 DEF CommitErase, CommitWrite, CommitFails, InCommit
<1>10. CASE DropJunk \/ ReadHeader \/ FirstPacketTimeout \/ HostCancelled
            \/ BeginPacket \/ EndShift \/ EraseDone
  BY <1>10 DEF DropJunk, ReadHeader, FirstPacketTimeout, HostCancelled,
               BeginPacket, EndShift, EraseDone
<1>11. CASE RejectPacket \/ EndOfTransmission \/ JumpAfterCommit
            \/ JumpReturns \/ CheckAndBoot
  BY <1>11 DEF RejectPacket, EndOfTransmission, JumpAfterCommit, JumpReturns,
               CheckAndBoot, flash_jump_to_app
<1>12. CASE CheckFlag \/ SelectBank \/ RequestUpdate \/ UNCHANGED vars
  BY <1>12 DEF CheckFlag, SelectBank, RequestUpdate, vars
<1>13. ASSUME NEW pressed \in BOOLEAN, KeyPoll(pressed)
       PROVE  info' = info /\ flash' = flash
  BY <1>13 DEF KeyPoll
<1>14. ASSUME NEW b \in Batches, USART1_IRQHandler(b)
       PROVE  info' = info /\ flash' = flash
  BY <1>14 DEF USART1_IRQHandler
<1>. QED
  BY <1>4, <1>5, <1>6, <1>7, <1>8, <1>9, <1>10, <1>11, <1>12, <1>13, <1>14
     DEF Next, Cpu, Receiver, Receive

\* A step of the device spares the firmware a reset would go back to.
LEMMA FallbackStep ==
  ASSUME Inductive, [Next]_vars, Intact, ~committed, pc \notin InCommit,
         addr <= End(target)
  PROVE  Intact'
<1>1. CASE info' = info /\ flash' = flash
  BY <1>1 DEF Intact, Fallback, Content
<1>2. CASE info' = info /\ pc \in InPacket
           /\ \E i \in Start(target)..End(target), c \in Cells :
                flash' = [flash EXCEPT ![i] = c]
  BY <1>2, TargetWritten
<1>. QED  BY <1>1, <1>2, WriteInTarget

\* The firmware a reset would go back to survives every step of a session
\* that has not committed, every failing flash operation and every reset.
THEOREM FallbackAlwaysSurvives == Spec => FallbackSurvives
<1>1. ASSUME Inductive, [Next]_vars
      PROVE  [(Intact /\ ~committed /\ pc \notin InCommit
               /\ addr <= End(target)) => Intact']_vars
  BY <1>1, FallbackStep
<1>. QED  BY <1>1, InductiveHolds, PTL DEF Spec, FallbackSurvives

\* Nothing but the completed write of the sector leads on to the jump.
LEMMA OnlyCommitWrite ==
  ASSUME [Next]_vars, pc = "commit_write", pc' = "jump"
  PROVE  CommitWrite
<1>1. ~(CheckFlag \/ SelectBank \/ CheckAndBoot \/ RequestUpdate
        \/ UNCHANGED vars)
  BY DEF CheckFlag, SelectBank, CheckAndBoot, RequestUpdate, vars
<1>2. ~(PinReset \/ PowerLoss \/ FirstPacketTimeout)
  BY DEF PinReset, PowerLoss, FirstPacketTimeout, RamCleared
<1>3. ~(DropJunk \/ ReadHeader \/ HostCancelled \/ BeginPacket \/ EndShift
        \/ EraseSector \/ EraseFails \/ EraseDone)
  BY DEF DropJunk, ReadHeader, HostCancelled, BeginPacket, EndShift,
         EraseSector, EraseFails, EraseDone
<1>4. ~(ProgramPacket \/ ProgramFails \/ RejectPacket \/ EndOfTransmission
        \/ CommitErase \/ CommitFails \/ JumpAfterCommit \/ JumpReturns)
  BY DEF ProgramPacket, ProgramFails, RejectPacket, EndOfTransmission,
         CommitErase, CommitFails, JumpAfterCommit, JumpReturns
<1>5. \A pressed \in BOOLEAN : ~KeyPoll(pressed)
  BY DEF KeyPoll
<1>6. \A b \in Batches : ~USART1_IRQHandler(b)
  BY DEF USART1_IRQHandler
<1>. QED  BY <1>1, <1>2, <1>3, <1>4, <1>5, <1>6
          DEF Next, Cpu, Receiver, Receive

\* The write of the sector installs what the first commit of a session has
\* prepared.
LEMMA CommitStep ==
  ASSUME Inductive, [Next]_vars, pc = "commit_write", pc' = "jump", ~committed
  PROVE  Intact' /\ Fallback' = target
<1>1. pc \in InCommit
  BY DEF InCommit
<1>2. Fallback' = target' => Intact'
  BY InductiveStep DEF Inductive, CommitDescribesTarget, Intact
<1>3. backup.crc = Content(flash, target)
      /\ BootBank(backup.a, backup.b) = target
  BY <1>1 DEF Inductive, CommitDescribesTarget
<1>4. CommitWrite
  BY OnlyCommitWrite
<1>5. info' = backup /\ target' = target
  BY <1>4 DEF CommitWrite, choice
<1>. QED  BY <1>2, <1>3, <1>5 DEF Fallback

\* The first commit of a session makes the bank it has written the one that
\* boots (xmodem.c, X_EOT, with check_bank of IAP.c at the next reset).
THEOREM CommitsInstall == Spec => CommitInstalls
<1>1. ASSUME Inductive, [Next]_vars
      PROVE  [(pc = "commit_write" /\ pc' = "jump" /\ ~committed)
              => Intact' /\ Fallback' = target]_vars
  BY <1>1, CommitStep
<1>. QED  BY <1>1, InductiveHolds, PTL DEF Spec, CommitInstalls

-----------------------------------------------------------------------------
(* The way to rest *)

\* What each place of the CPU still has before it.
StepsTable ==
  /\ pc \in {"app", "halt"} => StepsLeft = 0
  /\ pc = "main" => StepsLeft = 1
  /\ pc = "jump" => StepsLeft = 2
  /\ pc = "commit_write" => StepsLeft = 3
  /\ pc = "commit_erase" => StepsLeft = 4
  /\ pc = "key_wait" /\ update_flag >= PressPolls
       => StepsLeft = wait_time + 1 + IdleSteps + Pending
  /\ pc = "key_wait" /\ ~(update_flag >= PressPolls)
       => StepsLeft = wait_time + 2
  /\ pc = "check_update" /\ otaFlag => StepsLeft = 2 + IdleSteps + Pending
  /\ pc = "check_update" /\ ~otaFlag => StepsLeft = 3 + WaitPolls
  /\ pc = "xmodem" => StepsLeft = IdleSteps + Pending
  /\ pc = "dispatch" => StepsLeft = IdleSteps + BatchSteps - 1
  /\ pc = "shift" => StepsLeft = IdleSteps + BatchSteps - 2
  /\ pc = "erase" => StepsLeft = IdleSteps + Pending + CellsLeft + 2
  /\ pc = "program" => StepsLeft = IdleSteps + Pending + 1

\* The table is what the case distinction says.
LEMMA StepsAt == StepsTable
  BY DEF StepsLeft, StepsTable

\* The parts of the variant: an erase never has more cells before it than a
\* batch pays for.
PartsTable ==
  /\ IdleSteps \in Nat /\ IdleSteps = 4 + WaitPolls
  /\ BatchSteps \in Nat /\ BatchSteps >= 8
  /\ Pending \in Nat /\ (rcvFlag => Pending = BatchSteps)
  /\ (~rcvFlag => Pending = 0)
  /\ CellsLeft \in Nat
  /\ (erase_addr >= 1 => CellsLeft <= BatchSteps - 6)
  /\ (erase_addr <= End(target) =>
        CellsLeft = End(target) - erase_addr + 1)
  /\ (erase_addr > End(target) => CellsLeft = 0)
  /\ WaitPolls \in Nat /\ wait_time \in Nat

\* All of it follows from the types.
LEMMA PartsLeft == TypeOK => PartsTable
<1>. SUFFICES ASSUME TypeOK PROVE PartsTable
  OBVIOUS
<1>1. End(target) \in Nat /\ End(target) <= CapA + CapB
  BY GeometryAssumption DEF TypeOK, Banks, End
<1>2. erase_addr \in Nat /\ rcvFlag \in BOOLEAN /\ wait_time \in Nat
  BY LimitsAssumption DEF TypeOK
<1>3. BatchSteps \in Nat /\ BatchSteps >= 8 /\ BatchSteps = CapA + CapB + 6
  BY GeometryAssumption DEF BatchSteps
<1>4. IdleSteps \in Nat /\ IdleSteps = 4 + WaitPolls /\ WaitPolls \in Nat
  BY LimitsAssumption DEF IdleSteps
<1>5. Pending \in Nat /\ (rcvFlag => Pending = BatchSteps)
      /\ (~rcvFlag => Pending = 0)
  BY <1>3 DEF Pending
<1>6. CellsLeft \in Nat
      /\ (erase_addr >= 1 => CellsLeft <= BatchSteps - 6)
      /\ (erase_addr <= End(target) =>
            CellsLeft = End(target) - erase_addr + 1)
      /\ (erase_addr > End(target) => CellsLeft = 0)
  BY <1>1, <1>2, <1>3, GeometryAssumption DEF CellsLeft
<1>. QED  BY <1>1, <1>2, <1>3, <1>4, <1>5, <1>6 DEF PartsTable

\* The variant is a number: there are no endless descents.
LEMMA StepsLeftType == TypeOK => StepsLeft \in Nat
<1>. SUFFICES ASSUME TypeOK PROVE StepsLeft \in Nat
  OBVIOUS
<1>1. pc \in Locations
  BY DEF TypeOK
<1>. QED  BY <1>1, PartsLeft, StepsAt
          DEF PartsTable, StepsTable, Locations, InUpdate, InPacket, InCommit

\* What a session that ends, in the application, in main or in a halt, still
\* has before it is less than what any session has.
LEMMA RestIsLess ==
  ASSUME StepsTable, PartsTable, StepsTable', pc \in InUpdate,
         \/ pc' = "app"
         \/ pc' \in {"main", "halt"} /\ pc # "jump"
  PROVE  StepsLeft' < StepsLeft
<1>1. StepsLeft >= 2 /\ StepsLeft \in Int
  BY DEF StepsTable, PartsTable, InUpdate, InPacket, InCommit
<1>2. StepsLeft' <= 1 /\ StepsLeft' \in Int
  BY DEF StepsTable
<1>. QED  BY <1>1, <1>2

\* Every step of the CPU but a pressed key and a jump that returns.
LEMMA StepsDescend ==
  Inductive /\ [Next]_vars /\ Cpu /\ ~KeyPoll(TRUE) /\ ~JumpReturns
    => StepsLeft' < StepsLeft
<1>. SUFFICES ASSUME Inductive, [Next]_vars, Cpu, ~KeyPoll(TRUE), ~JumpReturns
              PROVE  StepsLeft' < StepsLeft
  OBVIOUS
<1>. USE DEF nvm, choice, session, frame, uart
<1>a. TypeOK /\ TypeOK' /\ RequestIsOneShot
  BY InductiveStep DEF Inductive
<1>b. StepsTable /\ PartsTable
  BY <1>a, StepsAt, PartsLeft
<1>c. StepsTable' /\ PartsTable'
  BY <1>a, StepsAt, PartsLeft, PTL
<1>d. IdleSteps' = IdleSteps /\ BatchSteps' = BatchSteps
  BY DEF IdleSteps, BatchSteps
<1>e. PressPolls \in Nat \ {0} /\ update_flag \in Nat
  BY <1>a, LimitsAssumption DEF TypeOK
<1>1. CASE CheckFlag
  <2>1. pc = "check_update" /\ pc' = "key_wait" /\ rcvFlag' = rcvFlag
    BY <1>1 DEF CheckFlag
  <2>2. Pending' = Pending
    BY <2>1, <1>d DEF Pending
  <2>3. CASE otaFlag
    <3>1. update_flag' = PressPolls /\ wait_time' = 0
      BY <1>1, <2>3 DEF CheckFlag
    <3>. QED  BY <2>1, <2>2, <2>3, <3>1, <1>b, <1>c, <1>d, <1>e
              DEF StepsTable, PartsTable
  <2>4. CASE ~otaFlag
    <3>1. update_flag' = 0 /\ wait_time' = WaitPolls
      BY <1>1, <2>4 DEF CheckFlag
    <3>. QED  BY <2>1, <2>4, <3>1, <1>b, <1>c, <1>e
              DEF StepsTable, PartsTable
  <2>. QED  BY <2>3, <2>4
<1>2. CASE KeyPoll(FALSE)
  <2>1. /\ pc = "key_wait" /\ pc' = "key_wait" /\ rcvFlag' = rcvFlag
        /\ wait_time' = wait_time - 1 /\ update_flag' = update_flag
    BY <1>2 DEF KeyPoll
  <2>2. Pending' = Pending
    BY <2>1, <1>d DEF Pending
  <2>. QED  BY <2>1, <2>2, <1>b, <1>c, <1>d DEF StepsTable, PartsTable
<1>3. CASE SelectBank
  <2>1. pc = "key_wait" /\ wait_time = 0 /\ rcvFlag' = rcvFlag
    BY <1>3 DEF SelectBank
  <2>2. Pending' = Pending
    BY <2>1, <1>d DEF Pending
  <2>3. CASE update_flag >= PressPolls
    <3>1. pc' = "xmodem"
      BY <1>3, <2>3 DEF SelectBank
    <3>. QED  BY <2>1, <2>2, <2>3, <3>1, <1>b, <1>c, <1>d
              DEF StepsTable, PartsTable
  <2>4. CASE ~(update_flag >= PressPolls)
    <3>1. pc' = "main"
      BY <1>3, <2>4 DEF SelectBank
    <3>. QED  BY <2>1, <2>4, <3>1, <1>b, <1>c DEF StepsTable
  <2>. QED  BY <2>3, <2>4
<1>4. CASE DropJunk
  <2>1. pc = "xmodem" /\ rcvFlag /\ pc' = "xmodem" /\ ~rcvFlag'
    BY <1>4 DEF DropJunk
  <2>. QED  BY <2>1, <1>b, <1>c, <1>d DEF StepsTable, PartsTable
<1>5. CASE ReadHeader
  <2>1. pc = "xmodem" /\ rcvFlag /\ pc' = "dispatch"
    BY <1>5 DEF ReadHeader
  <2>. QED  BY <2>1, <1>b, <1>c, <1>d DEF StepsTable, PartsTable
<1>6. CASE FirstPacketTimeout
  <2>1. pc = "xmodem" /\ ~rcvFlag /\ pc' = "check_update" /\ otaFlag' = otaFlag
    BY <1>6 DEF FirstPacketTimeout, RamCleared
  <2>2. ~otaFlag'
    BY <1>a, <2>1 DEF RequestIsOneShot
  <2>. QED  BY <2>1, <2>2, <1>b, <1>c DEF StepsTable, PartsTable
<1>7. CASE BeginPacket
  <2>1. pc = "dispatch" /\ pc' = "shift"
    BY <1>7 DEF BeginPacket
  <2>. QED  BY <2>1, <1>b, <1>c, <1>d DEF StepsTable, PartsTable
<1>8. CASE EndShift
  <2>1. pc = "shift" /\ ~rcvFlag' /\ target' = target
    BY <1>8 DEF EndShift
  <2>2. CASE first
    <3>1. pc' = "program"
      BY <1>8, <2>2 DEF EndShift
    <3>. QED  BY <2>1, <3>1, <1>b, <1>c, <1>d DEF StepsTable, PartsTable
  <2>3. CASE ~first
    <3>1. pc' = "erase" /\ erase_addr' = Start(target)
      BY <1>8, <2>3 DEF EndShift
    <3>2. erase_addr' >= 1
      BY <3>1, GeometryAssumption DEF Start
    <3>3. CellsLeft' \in Nat /\ CellsLeft' <= BatchSteps - 6 /\ Pending' = 0
      BY <2>1, <3>2, <1>c, <1>d DEF PartsTable
    <3>4. StepsLeft' = IdleSteps + 0 + CellsLeft' + 2
      BY <3>1, <3>3, <1>c, <1>d DEF StepsTable
    <3>5. StepsLeft = IdleSteps + BatchSteps - 2
      BY <2>1, <1>b DEF StepsTable
    <3>6. \A c \in Nat : c <= BatchSteps - 6
            => IdleSteps + 0 + c + 2 < IdleSteps + BatchSteps - 2
      BY <1>b DEF PartsTable
    <3>. QED  BY <3>3, <3>4, <3>5, <3>6
  <2>. QED  BY <2>2, <2>3
<1>9. CASE EraseSector
  <2>1. /\ pc = "erase" /\ pc' = "erase" /\ erase_addr <= End(target)
        /\ erase_addr' = erase_addr + 1 /\ rcvFlag' = rcvFlag
        /\ End(target)' = End(target)
    BY <1>9 DEF EraseSector
  <2>2. Pending' = Pending
    BY <2>1, <1>d DEF Pending
  <2>3. CellsLeft' < CellsLeft
    <3>1. End(target) \in Nat /\ erase_addr \in Nat
      BY <1>a, Geometry DEF TypeOK
    <3>. QED  BY <2>1, <3>1 DEF CellsLeft
  <2>. QED  BY <2>1, <2>2, <2>3, <1>b, <1>c, <1>d DEF StepsTable, PartsTable
<1>10. CASE EraseDone
  <2>1. /\ pc = "erase" /\ pc' = "program" /\ rcvFlag' = rcvFlag
    BY <1>10 DEF EraseDone
  <2>2. Pending' = Pending
    BY <2>1, <1>d DEF Pending
  <2>. QED  BY <2>1, <2>2, <1>b, <1>c, <1>d DEF StepsTable, PartsTable
<1>11. CASE ProgramPacket \/ (RejectPacket /\ error_number + 1 < MaxErrors)
  <2>1. pc = "program" /\ pc' = "xmodem" /\ rcvFlag' = rcvFlag
    <3>1. error_number \in Nat /\ MaxErrors \in Nat
      BY <1>a, LimitsAssumption DEF TypeOK
    <3>. QED  BY <1>11, <3>1 DEF ProgramPacket, RejectPacket
  <2>2. Pending' = Pending
    BY <2>1, <1>d DEF Pending
  <2>. QED  BY <2>1, <2>2, <1>b, <1>c, <1>d DEF StepsTable, PartsTable
<1>12. CASE \/ HostCancelled \/ EraseFails \/ ProgramFails
            \/ RejectPacket /\ ~(error_number + 1 < MaxErrors)
  <2>1. pc \in InUpdate /\ pc # "jump" /\ pc' = "main"
    <3>1. error_number \in Nat /\ MaxErrors \in Nat
      BY <1>a, LimitsAssumption DEF TypeOK
    <3>. QED  BY <1>12, <3>1
              DEF HostCancelled, EraseFails, ProgramFails, RejectPacket,
                  FlashFailed, EndSession, InUpdate, InPacket
  <2>. QED  BY <2>1, <1>b, <1>c, RestIsLess
<1>13. CASE EndOfTransmission \/ CommitErase \/ CommitWrite
  <2>1. \/ pc = "dispatch" /\ pc' = "commit_erase"
        \/ pc = "commit_erase" /\ pc' = "commit_write"
        \/ pc = "commit_write" /\ pc' = "jump"
    BY <1>13 DEF EndOfTransmission, CommitErase, CommitWrite
  <2>. QED  BY <2>1, <1>b, <1>c DEF StepsTable, PartsTable
<1>14. CASE CommitFails \/ JumpAfterCommit
  <2>1. /\ pc \in InUpdate
        /\ pc' = "app" \/ (pc' = "halt" /\ pc # "jump")
    BY <1>14 DEF CommitFails, JumpAfterCommit, flash_jump_to_app, InUpdate,
                 InCommit
  <2>. QED  BY <2>1, <1>b, <1>c, RestIsLess
<1>15. CASE CheckAndBoot
  <2>1. pc = "main" /\ pc' = "app"
    BY <1>15 DEF CheckAndBoot, flash_jump_to_app
  <2>. QED  BY <2>1, <1>b, <1>c DEF StepsTable
<1>. QED  BY <1>1, <1>2, <1>3, <1>4, <1>5, <1>6, <1>7, <1>8, <1>9, <1>10,
             <1>11, <1>12, <1>13, <1>14, <1>15 DEF Cpu, Receiver

\* ComesToRest, and that the descent is one of natural numbers: untouched, the
\* device takes at most StepsLeft more steps whatever fails.
THEOREM UntouchedComesToRest ==
  Spec => [](StepsLeft \in Nat) /\ ComesToRest
<1>1. Inductive => StepsLeft \in Nat
  BY StepsLeftType DEF Inductive
<1>2. Inductive /\ [Next]_vars
        => [Cpu /\ ~KeyPoll(TRUE) /\ ~JumpReturns
              => StepsLeft' < StepsLeft]_vars
  BY StepsDescend
<1>. QED  BY <1>1, <1>2, InductiveHolds, PTL DEF Spec, ComesToRest
=============================================================================
