---------------------------- MODULE OtaLinkProofs ----------------------------
(***************************************************************************)
(* The bootloader with a sender on a line that damages and loses bytes:    *)
(* for banks, files and packet numbers of every size, a transfer stays in  *)
(* step, and device and link together implement the firmware store.        *)
(***************************************************************************)
EXTENDS OtaLink, BootloaderProofs

-----------------------------------------------------------------------------
(* The device under a host: Inductive of module Bootloader is kept *)

\* Whatever well-formed batch an idle line ends, the interrupt keeps the
\* invariant of the device.
LEMMA InterruptKept ==
  ASSUME Inductive, NEW b \in BatchSet, USART1_IRQHandler(b)
  PROVE  Inductive'
<1>. USE DEF nvm, choice, session, frame
<1>1. TypeOK'
  <2>1. buf' \in BatchSet
    BY DEF USART1_IRQHandler, Inductive, TypeOK, BatchSet
  <2>. QED  BY <2>1 DEF USART1_IRQHandler, Inductive, TypeOK
<1>2. CountersInLockstep' /\ AppIsCertified' /\ RequestIsOneShot'
  BY DEF USART1_IRQHandler, Inductive, CountersInLockstep, AppIsCertified,
         RequestIsOneShot
<1>3. SessionSparesFallback' /\ WritesFromStart' /\ CommitDescribesTarget'
  BY DEF USART1_IRQHandler, Inductive, SessionSparesFallback, Fallback,
         WritesFromStart, CommitDescribesTarget
<1>. QED  BY <1>1, <1>2, <1>3 DEF Inductive

\* Taking an answer off the line changes nothing on the device.
ReplyTaken ==
  /\ reply' = "none"
  /\ UNCHANGED <<nvm, itcm, pc, choice, session, frame, backup, uart,
                 committed>>

\* So the invariant of the device is kept.
LEMMA ReplyTakenKept == Inductive /\ ReplyTaken => Inductive'
<1>. SUFFICES ASSUME Inductive, ReplyTaken PROVE Inductive'
  OBVIOUS
<1>. USE DEF nvm, choice, session, frame, uart, ReplyTaken
<1>1. TypeOK'
  BY DEF Inductive, TypeOK
<1>2. CountersInLockstep' /\ AppIsCertified' /\ RequestIsOneShot'
  BY DEF Inductive, CountersInLockstep, AppIsCertified, RequestIsOneShot
<1>3. SessionSparesFallback' /\ WritesFromStart' /\ CommitDescribesTarget'
  BY DEF Inductive, SessionSparesFallback, Fallback, WritesFromStart,
         CommitDescribesTarget
<1>. QED  BY <1>1, <1>2, <1>3 DEF Inductive

\* A step that changes nothing on the device.
LEMMA NothingKept == Inductive /\ UNCHANGED vars => Inductive'
  BY InductiveStep

\* What goes over the line is a batch of the device's USART.
LEMMA BytesAreBatches ==
  \A c \in Control : Byte(c) \in BatchSet
  BY LimitsAssumption, SMT DEF Byte, BatchSet, Headers, Control

\* A file is a sequence of payloads that fits a bank.
LEMMA FileType ==
  ASSUME NEW img \in Images
  PROVE  /\ img \in Seq(Data) /\ Len(img) \in Nat /\ Len(img) \in 1..CapA
         /\ \A k \in 1..Len(img) : img[k] \in Data
<1>1. img \in Seq(Data) /\ Len(img) \in 1..CapA
  BY ImagesAssumption
<1>. QED  BY <1>1

\* The sender's place in its file.
HostTyped ==
  /\ host \in {"idle", "send", "await"}
  /\ \/ host = "idle" /\ file = <<>> /\ cur = 0
     \/ file \in Images /\ cur \in 1..(Len(file) + 1)

\* A packet is a batch.
LEMMA PacketsAreBatches ==
  ASSUME HostTyped, host # "idle", cur <= Len(file), NEW ok \in BOOLEAN
  PROVE  [Packet(cur) EXCEPT !.ok = ok] \in BatchSet /\ Packet(cur) \in BatchSet
<1>1. file \in Images /\ cur \in 1..Len(file)
  <2>1. file \in Images /\ cur \in 1..(Len(file) + 1) 
    BY DEF HostTyped
  <2>2. Len(file) \in Nat
    BY <2>1, FileType
  <2>. QED  BY <2>1, <2>2
<1>2. file[cur] \in Data
  BY <1>1, FileType
<1>3. cur % PktMod \in 0..(PktMod - 1)
  <2>1. cur \in Nat /\ PktMod \in Nat \ {0}
    BY <1>1, FileType, LimitsAssumption
  <2>. QED  BY <2>1
<1>. QED  BY <1>2, <1>3 DEF Packet, BatchSet, Headers, Control

\* The device's part of a sender's delivery.
LEMMA DeliverKept ==
  ASSUME Inductive, NEW b \in BatchSet, Deliver(b)
  PROVE  Inductive'
  BY InterruptKept, NothingKept DEF Deliver

\* Every step of the sender and the line keeps the invariant of the device.
LEMMA HostKeepsDevice == Inductive /\ HostTyped /\ Host => Inductive'
<1>. SUFFICES ASSUME Inductive, HostTyped, Host PROVE Inductive'
  OBVIOUS
<1>1. ASSUME NEW img \in Images, HostStart(img) PROVE Inductive'
  BY <1>1, NothingKept DEF HostStart
<1>2. CASE HostSend
  <2>. DEFINE sent == IF cur <= Len(file) THEN Packet(cur) ELSE Byte("EOT")
  <2>. DEFINE hurt == IF cur <= Len(file) THEN [sent EXCEPT !.ok = FALSE]
                                          ELSE Byte("junk")
  <2>1. sent \in BatchSet /\ hurt \in BatchSet /\ Byte("EOT") \in BatchSet
    <3>1. Byte("EOT") \in BatchSet /\ Byte("junk") \in BatchSet
      BY BytesAreBatches DEF Control
    <3>2. CASE cur <= Len(file)
      BY <1>2, <3>1, <3>2, PacketsAreBatches DEF HostSend
    <3>3. CASE ~(cur <= Len(file))
      BY <3>1, <3>3
    <3>. QED  BY <3>2, <3>3
  <2>2. Deliver(sent) \/ UNCHANGED vars \/ Deliver(hurt) \/ Deliver(Byte("EOT"))
    BY <1>2 DEF HostSend
  <2>. HIDE DEF sent, hurt
  <2>. QED  BY <2>1, <2>2, DeliverKept, NothingKept
<1>3. CASE HostReads
  BY <1>3, ReplyTakenKept DEF HostReads, ReplyTaken
<1>4. CASE LoseReply
  BY <1>4, ReplyTakenKept DEF LoseReply, ReplyTaken
<1>5. CASE HostTimeout
  BY <1>5, NothingKept DEF HostTimeout
<1>6. CASE HostCancel \/ UserTypes
  <2>1. Byte("CAN") \in BatchSet /\ Byte("junk") \in BatchSet
    BY BytesAreBatches DEF Control
  <2>. QED  BY <1>6, <2>1, DeliverKept, NothingKept DEF HostCancel, UserTypes
<1>. QED  BY <1>1, <1>2, <1>3, <1>4, <1>5, <1>6 DEF Host

\* Every other step of the composition is a step of the bootloader.
LEMMA DeviceSteps ==
  Device \/ Mishap \/ (RequestUpdate /\ HostSeesReset) => Next
  BY DEF Device, Mishap, FlashFault, Restart, Next, Cpu, Receiver

\* With any faults, the invariant of the device survives its composition with
\* the sender.
LEMMA LinkKeepsDevice ==
  Inductive /\ HostTyped /\ [LinkNext]_linkVars => Inductive'
<1>1. Inductive /\ HostTyped /\ LinkNext => Inductive'
  BY HostKeepsDevice, DeviceSteps, InductiveStep DEF LinkNext
<1>2. Inductive /\ UNCHANGED linkVars => Inductive'
  BY NothingKept DEF linkVars
<1>. QED  BY <1>1, <1>2

\* The sender never leaves its file.
LEMMA HostTypedStep == HostTyped /\ [LinkNext]_linkVars => HostTyped'
<1>. SUFFICES ASSUME HostTyped, [LinkNext]_linkVars PROVE HostTyped'
  OBVIOUS
<1>1. ASSUME NEW img \in Images, HostStart(img) PROVE HostTyped'
  <2>1. Len(img) \in Nat
    BY FileType
  <2>. QED  BY <1>1, <2>1 DEF HostStart, HostTyped
<1>2. CASE HostReads
  <2>1. file \in Images /\ Len(file) \in Nat /\ cur \in 1..(Len(file) + 1)
    BY <1>2, FileType DEF HostReads, HostTyped
  <2>2. reply = "ACK" /\ cur <= Len(file) => cur + 1 \in 1..(Len(file) + 1)
    BY <2>1
  <2>. QED  BY <1>2, <2>1, <2>2 DEF HostReads, HostTyped
<1>3. CASE HostSend \/ LoseReply \/ HostTimeout \/ HostCancel \/ UserTypes
  BY <1>3 DEF HostSend, LoseReply, HostTimeout, HostCancel, UserTypes,
              HostTyped
<1>4. CASE HostSeesReset
  BY <1>4 DEF HostSeesReset, HostTyped
<1>5. CASE UNCHANGED linkVars
  BY <1>5 DEF linkVars, HostTyped
<1>. QED  BY <1>1, <1>2, <1>3, <1>4, <1>5 DEF LinkNext, Device, Mishap, Host

\* The invariant of the device in every state of the composition, whatever
\* the faults.
THEOREM LinkInductiveDevice == LinkSpec => [](Inductive /\ HostTyped)
<1>1. LinkInit => Inductive /\ HostTyped
  BY InductiveInit DEF LinkInit, HostTyped
<1>. QED  BY <1>1, LinkKeepsDevice, HostTypedStep, PTL DEF LinkSpec

\* The upgrade counters stay in lockstep with any sender on any line: no
\* repeated, misread or late end of transfer makes check_bank update the bank
\* that boots.
THEOREM LinkCountersInLockstep == LinkSpec => []CountersInLockstep
<1>1. Inductive => CountersInLockstep
  BY DEF Inductive
<1>. QED  BY <1>1, LinkInductiveDevice, PTL

\* The firmware a reset would go back to survives every step of device, line
\* and sender before the commit, with any faults, as long as the transfer
\* stays in the bank it writes.
THEOREM LinkFallbackSurvives == LinkSpec => FallbackSurvives
<1>1. ASSUME Inductive, HostTyped, [LinkNext]_linkVars
      PROVE  [(Intact /\ ~committed /\ pc \notin InCommit
               /\ addr <= End(target)) => Intact']_vars
  <2>1. CASE [Next]_vars
    BY <1>1, <2>1, FallbackStep
  <2>2. CASE UNCHANGED <<flash, info>>
    BY <2>2 DEF Intact, Fallback, Content
  <2>3. [Next]_vars \/ UNCHANGED <<flash, info>>
    <3>1. CASE Host
      <4>1. \A b : USART1_IRQHandler(b) \/ UNCHANGED vars
                    => UNCHANGED <<flash, info>>
        BY DEF USART1_IRQHandler, vars, nvm
      <4>2. \A b : Deliver(b) => UNCHANGED <<flash, info>>
        BY <4>1 DEF Deliver
      <4>. QED  BY <3>1, <4>1, <4>2
                DEF Host, HostStart, HostSend, HostReads, LoseReply,
                    HostTimeout, HostCancel, UserTypes, nvm
    <3>. QED  BY <1>1, <3>1, DeviceSteps DEF LinkNext, linkVars
  <2>. QED  BY <2>1, <2>2, <2>3
<1>. QED  BY <1>1, LinkInductiveDevice, PTL DEF LinkSpec, FallbackSurvives

-----------------------------------------------------------------------------
(* Facts the steps share *)

\* The parts of LinkInductive that speak of the link.
LinkKept ==
  HostKept /\ AnswerKept /\ ArrivalKept /\ SessionKept /\ StoreKept

\* The sender's place is part of HostKept.
LEMMA HostPlace == HostKept => HostTyped
  BY DEF HostKept, HostTyped

\* The counters of the transfer are numbers.
LEMMA Numbers ==
  ASSUME LinkInductive
  PROVE  /\ cur \in Nat /\ Len(file) \in Nat /\ addr \in Nat
         /\ erase_addr \in Nat /\ target \in Banks
         /\ Start(target) \in Nat /\ End(target) \in Nat
         /\ file # <<>> => file \in Images /\ cur \in 1..(Len(file) + 1)
<1>1. HostTyped /\ TypeOK
  BY HostPlace DEF LinkInductive, Inductive
<1>2. cur \in Nat /\ Len(file) \in Nat
      /\ (file # <<>> => file \in Images /\ cur \in 1..(Len(file) + 1))
  <2>1. CASE file = <<>> /\ cur = 0
    BY <2>1
  <2>2. CASE file \in Images /\ cur \in 1..(Len(file) + 1)
    BY <2>2, FileType
  <2>. QED  BY <1>1, <2>1, <2>2 DEF HostTyped
<1>. QED  BY <1>1, <1>2, Geometry DEF TypeOK

\* Stored speaks of nothing else.
LEMMA StoredSame ==
  ASSUME Stored, UNCHANGED <<flash, addr, target, file, cur>>
  PROVE  Stored'
  BY DEF Stored

\* Neither does Intact.
LEMMA IntactSame ==
  ASSUME Intact, UNCHANGED <<flash, info>>
  PROVE  Intact'
  BY DEF Intact, Fallback, Content

\* A step that spares the firmware that boots keeps the store.
LEMMA StoreSame ==
  ASSUME StoreKept, Intact => Intact', info' = info,
         pc' # "app" => itcm' = NoImage,
         committed' => pc' \in {"jump", "app"}
  PROVE  StoreKept'
  BY DEF StoreKept, Good, Padded

\* A session has stored nothing before it writes.
LEMMA NotCommitted ==
  ASSUME LinkInductive, pc \notin {"jump", "app"}
  PROVE  ~committed
  BY DEF LinkInductive, StoreKept

\* Nothing of a session is left where none is.
LEMMA NoSession ==
  ASSUME LinkInductive, ReceiverIdle,
         pc' \in {"check_update", "main", "app", "halt"},
         pc' = "check_update" => reply' = "none" /\ host' = "idle",
         host' \in {"idle", host}, UNCHANGED <<file, cur>>
  PROVE  HostKept' /\ AnswerKept' /\ ArrivalKept' /\ SessionKept'
<1>1. HostKept'
  <2>1. buf'.hdr = "junk"
    BY DEF ReceiverIdle, Spent
  <2>2. /\ host' \in {"idle", "send", "await"}
        /\ \/ host' = "idle" /\ file' = <<>> /\ cur' = 0
           \/ file' \in Images /\ cur' \in 1..(Len(file') + 1)
    BY DEF LinkInductive, HostKept
  <2>. QED  BY <2>1, <2>2 DEF HostKept, InUpdate, InPacket, InCommit
<1>2. AnswerKept' /\ ArrivalKept'
  BY DEF AnswerKept, ArrivalKept, InUpdate, InPacket, InCommit
<1>3. SessionKept'
  BY DEF SessionKept, ReceiverIdle, InUpdate, InPacket, InCommit
<1>. QED  BY <1>1, <1>2, <1>3

\* A session, or a firmware, that ends.
LEMMA LeaveKept ==
  ASSUME LinkInductive, ReceiverIdle, pc' \in {"check_update", "main", "app"},
         info' = info, Intact => Intact',
         pc' # "app" => itcm' = NoImage,
         committed' => pc' = "app",
         pc' = "check_update" => reply' = "none" /\ host' = "idle",
         host' \in {"idle", host}, UNCHANGED <<file, cur>>
  PROVE  LinkKept'
  BY NoSession, StoreSame DEF LinkInductive, LinkKept

\* The sender stays where it is when the device does not restart.
LEMMA HostStays ==
  ASSUME HostSeesReset, pc' # "check_update"
  PROVE  UNCHANGED <<host, file, cur>>
  BY DEF HostSeesReset

\* A sender whose device restarts is done, unless it is a stale one.
LEMMA HostLeaves ==
  ASSUME Orderly, HostSeesReset, pc' = "check_update"
  PROVE  host' = "idle" /\ UNCHANGED <<file, cur>>
  BY DEF HostSeesReset, Orderly

-----------------------------------------------------------------------------
(* Before the first packet, and leaving a session *)

\* check_update, up to the choice of the bank.
LEMMA StartUpKept ==
  ASSUME LinkInductive, HostSeesReset,
         CheckFlag \/ (\E pressed \in BOOLEAN : KeyPoll(pressed)) \/ SelectBank
  PROVE  LinkKept'
<1>. USE DEF nvm, choice, session, frame, uart
<1>1. /\ pc \in {"check_update", "key_wait"}
      /\ pc' \in {"key_wait", "xmodem", "main"}
      /\ UNCHANGED <<flash, info, itcm, rcvFlag, buf, overrun, reply, committed,
                     first>>
      /\ pc' = "xmodem" => addr' = Start(target')
  BY DEF CheckFlag, KeyPoll, SelectBank
<1>2. UNCHANGED <<host, file, cur>>
  BY <1>1, HostStays
<1>3. host = "idle" /\ buf.hdr = "junk" /\ reply = "none" /\ ~first
  BY <1>1 DEF LinkInductive, HostKept, SessionKept, InUpdate, InPacket,
              InCommit
<1>4. HostKept'
  BY <1>1, <1>2, <1>3 DEF LinkInductive, HostKept
<1>5. AnswerKept' /\ ArrivalKept'
  BY <1>1, <1>2, <1>3 DEF AnswerKept, ArrivalKept, InPacket, InCommit
<1>6. SessionKept'
  BY <1>1, <1>2, <1>3
     DEF SessionKept, Engaged, InUpdate, InPacket, InCommit
<1>7. StoreKept'
  BY <1>1, IntactSame, StoreSame, NotCommitted DEF LinkInductive, StoreKept
<1>. QED  BY <1>4, <1>5, <1>6, <1>7 DEF LinkKept

\* A session that is cancelled or times out, and the request of the
\* application.
LEMMA ExitKept ==
  ASSUME Orderly, LinkInductive, HostSeesReset,
         FirstPacketTimeout \/ HostCancelled \/ RequestUpdate
  PROVE  LinkKept'
<1>1. CASE FirstPacketTimeout \/ RequestUpdate
  <2>1. RamCleared /\ UNCHANGED <<flash, info>>
    BY <1>1 DEF FirstPacketTimeout, RequestUpdate, nvm
  <2>2. host' = "idle" /\ UNCHANGED <<file, cur>>
    BY <2>1, HostLeaves DEF RamCleared
  <2>. QED  BY <2>1, <2>2, LeaveKept, IntactSame DEF RamCleared
<1>2. CASE HostCancelled
  <2>1. /\ ReceiverIdle /\ pc = "dispatch" /\ pc' = "main"
        /\ UNCHANGED <<flash, info, itcm, committed>>
    BY <1>2 DEF HostCancelled, EndSession, nvm
  <2>2. UNCHANGED <<host, file, cur>>
    BY <2>1, HostStays
  <2>3. ~committed /\ itcm = NoImage
    BY <2>1, NotCommitted DEF LinkInductive, StoreKept
  <2>. QED  BY <2>1, <2>2, <2>3, LeaveKept, IntactSame
<1>. QED  BY <1>1, <1>2

\* Starting the firmware.
LEMMA JumpKept ==
  ASSUME LinkInductive, HostSeesReset, flash_jump_to_app
  PROVE  LinkKept'
<1>1. /\ ReceiverIdle /\ pc' = "app"
      /\ UNCHANGED <<flash, info, committed>>
  BY DEF flash_jump_to_app, nvm
<1>. QED  BY <1>1, HostStays, LeaveKept, IntactSame

-----------------------------------------------------------------------------
(* Receiving a packet *)

\* Bytes that are no packet, before the first one.
LEMMA DropJunkKept ==
  ASSUME LinkInductive, HostSeesReset, DropJunk
  PROVE  LinkKept'
<1>. USE DEF nvm, choice, session, frame
<1>1. /\ pc = "xmodem" /\ rcvFlag /\ ~first /\ buf.hdr = "junk" /\ ~rcvFlag'
      /\ UNCHANGED <<flash, info, itcm, pc, target, first, addr, buf, overrun,
                     reply, committed>>
  BY DEF DropJunk
<1>2. UNCHANGED <<host, file, cur>>
  BY <1>1, HostStays
<1>3. HostKept' /\ AnswerKept' /\ ArrivalKept'
  BY <1>1, <1>2
     DEF LinkInductive, HostKept, AnswerKept, ArrivalKept, InPacket, InCommit
<1>4. SessionKept'
  BY <1>1, <1>2
     DEF LinkInductive, SessionKept, Engaged, InUpdate, InPacket, InCommit
<1>5. StoreKept'
  BY <1>1, IntactSame, StoreSame DEF LinkInductive, StoreKept
<1>. QED  BY <1>3, <1>4, <1>5 DEF LinkKept

\* The header of a batch that is in the buffer.
LEMMA ReadHeaderKept ==
  ASSUME LinkInductive, HostSeesReset, ReadHeader
  PROVE  LinkKept'
<1>. USE DEF nvm, choice, session, frame, uart
<1>1. /\ pc = "xmodem" /\ rcvFlag /\ buf.hdr # "junk" /\ header' = buf.hdr
      /\ pc' = "dispatch"
      /\ UNCHANGED <<flash, info, itcm, target, first, addr, rcvFlag, buf,
                     overrun, reply, committed>>
  BY DEF ReadHeader
<1>2. UNCHANGED <<host, file, cur>>
  BY <1>1, HostStays
<1>3. host # "send" /\ pc \in InUpdate
  BY <1>1 DEF LinkInductive, HostKept, InUpdate
<1>4. \/ buf.hdr = "SOH" /\ Matches(buf)
      \/ buf.hdr = "EOT" /\ cur > Len(file)
      \/ buf.hdr = "CAN" /\ host = "idle"
  BY <1>1 DEF LinkInductive, ArrivalKept
<1>5. HostKept'
  BY <1>1, <1>2, <1>3 DEF LinkInductive, HostKept
<1>6. AnswerKept'
  BY <1>1, <1>2, <1>3 DEF LinkInductive, AnswerKept
<1>7. ArrivalKept'
  BY <1>1, <1>2, <1>3, <1>4
     DEF LinkInductive, SessionKept, ArrivalKept, Matches, InPacket, InCommit
<1>8. SessionKept'
  <2>1. first => (Stored \/ Cancelling)'
    BY <1>1, <1>2, <1>3, StoredSame DEF LinkInductive, SessionKept, Cancelling
  <2>2. ~first => /\ addr = Start(target) /\ reply = "none"
                  /\ buf.hdr # "EOT" /\ (Engaged => cur = 1)
    BY <1>3 DEF LinkInductive, SessionKept
  <2>3. Engaged' => Engaged
    BY <1>1, <1>2 DEF Engaged, InPacket
  <2>. QED  BY <1>1, <1>2, <2>1, <2>2, <2>3 DEF SessionKept, InUpdate
<1>9. StoreKept'
  BY <1>1, IntactSame, StoreSame, NotCommitted DEF LinkInductive, StoreKept
<1>. QED  BY <1>5, <1>6, <1>7, <1>8, <1>9 DEF LinkKept

\* The packet is taken out of the buffer.
LEMMA BeginPacketKept ==
  ASSUME LinkInductive, HostSeesReset, BeginPacket
  PROVE  LinkKept'
<1>. USE DEF nvm, choice, session
<1>1. /\ pc = "dispatch" /\ header \in {"SOH", "STX"}
      /\ pkt' = buf /\ buf' = Spent /\ overrun' = FALSE /\ reply' = "none"
      /\ pc' = "shift"
      /\ UNCHANGED <<flash, info, itcm, target, first, addr, header, rcvFlag,
                     committed>>
  BY DEF BeginPacket
<1>2. UNCHANGED <<host, file, cur>>
  BY <1>1, HostStays
<1>3. host # "send" /\ pc \in InUpdate
  BY <1>1 DEF LinkInductive, HostKept, InUpdate
<1>4. header = "SOH" /\ Matches(buf)
  BY <1>1 DEF LinkInductive, ArrivalKept
<1>5. HostKept'
  BY <1>1, <1>2, <1>3 DEF LinkInductive, HostKept
<1>6. AnswerKept'
  BY <1>1 DEF AnswerKept
<1>7. ArrivalKept'
  BY <1>1, <1>2, <1>4 DEF ArrivalKept, Matches, InPacket, InCommit, Spent
<1>8. SessionKept'
  <2>1. first => Stored'
    BY <1>1, <1>2, <1>3, <1>4, StoredSame
       DEF LinkInductive, SessionKept, Cancelling
  <2>2. ~first => addr = Start(target) /\ cur = 1
    BY <1>1, <1>3, <1>4 DEF LinkInductive, SessionKept, Engaged
  <2>. QED  BY <1>1, <1>2, <2>1, <2>2
            DEF SessionKept, InUpdate, InPacket, Spent
<1>9. StoreKept'
  BY <1>1, IntactSame, StoreSame, NotCommitted DEF LinkInductive, StoreKept
<1>. QED  BY <1>5, <1>6, <1>7, <1>8, <1>9 DEF LinkKept

\* While a packet is in process, only a cancel may have come.
LEMMA InProcess ==
  ASSUME LinkInductive, pc \in InPacket
  PROVE  /\ header = "SOH" /\ Matches(pkt) /\ reply = "none"
         /\ cur \in 1..Len(file)
         /\ buf.hdr \in {"junk", "CAN"} /\ host # "send" /\ ~committed
         /\ itcm = NoImage
         /\ overrun \/ (rcvFlag /\ pc # "shift") =>
              host = "idle" /\ rcvFlag /\ buf.hdr = "CAN"
         /\ first => Stored
         /\ ~first => addr = Start(target) /\ cur = 1
         /\ pc = "erase" =>
              /\ ~first
              /\ \A i \in Start(target)..(erase_addr - 1) : flash[i] = Blank
         /\ pc = "program" => first
<1>1. pc \in InUpdate /\ pc \notin {"xmodem", "dispatch", "jump", "app"}
  BY DEF InPacket, InUpdate
<1>2. header = "SOH" /\ Matches(pkt) /\ reply = "none" /\ cur \in 1..Len(file)
      /\ buf.hdr \in {"junk", "CAN"}
      /\ (overrun \/ (rcvFlag /\ pc # "shift") =>
            host = "idle" /\ rcvFlag /\ buf.hdr = "CAN")
  BY DEF LinkInductive, ArrivalKept, Matches
<1>3. host # "send" /\ ~committed /\ itcm = NoImage
  BY <1>1 DEF LinkInductive, HostKept, StoreKept
<1>4. (first => Stored) /\ (~first => addr = Start(target) /\ cur = 1)
      /\ (pc = "program" => first)
  BY <1>1 DEF LinkInductive, SessionKept, Cancelling, Engaged
<1>5. pc = "erase" =>
        ~first /\ \A i \in Start(target)..(erase_addr - 1) : flash[i] = Blank
  BY DEF LinkInductive, SessionKept
<1>. QED  BY <1>2, <1>3, <1>4, <1>5

\* The data are at the head of the buffer.
LEMMA EndShiftKept ==
  ASSUME LinkInductive, HostSeesReset, EndShift
  PROVE  LinkKept'
<1>. USE DEF nvm, choice, session
<1>1. /\ pc = "shift" /\ ~rcvFlag' /\ ~overrun'
      /\ pkt' = [pkt EXCEPT !.ok = @ /\ header = "SOH" /\ ~overrun]
      /\ pc' = IF first THEN "program" ELSE "erase"
      /\ erase_addr' = IF first THEN 0 ELSE Start(target)
      /\ UNCHANGED <<flash, info, itcm, target, first, addr, header, buf, reply,
                     committed>>
  BY DEF EndShift
<1>2. UNCHANGED <<host, file, cur>>
  BY <1>1, HostStays
<1>3. pc \in InPacket /\ pc' \in InPacket
  BY <1>1 DEF InPacket
<1>4. Matches(pkt)'
  BY <1>1, <1>2, <1>3, InProcess
     DEF Matches, LinkInductive, Inductive, TypeOK, BatchSet
<1>5. HostKept'
  BY <1>1, <1>2, <1>3, InProcess DEF LinkInductive, HostKept
<1>6. AnswerKept'
  BY <1>1, <1>3, InProcess DEF AnswerKept
<1>7. ArrivalKept'
  BY <1>1, <1>2, <1>3, <1>4, InProcess DEF ArrivalKept, InPacket, InCommit
<1>8. SessionKept'
  <2>1. first => Stored'
    BY <1>1, <1>2, <1>3, InProcess, StoredSame
  <2>2. \A i \in Start(target)..(Start(target) - 1) : flash[i] = Blank
    BY Numbers
  <2>3. Start(target') = Start(target)
    BY <1>1
  <2>4. (pc = "erase")' => ~first' /\ erase_addr' = Start(target)
    BY <1>1
  <2>5. (pc = "erase")' =>
          /\ ~first'
          /\ \A i \in Start(target')..(erase_addr' - 1) : flash'[i] = Blank
    BY <1>1, <2>2, <2>3, <2>4
  <2>6. pc' \in InUpdate
    BY <1>3 DEF InUpdate
  <2>7. ~first' => /\ addr' = Start(target') /\ reply' = "none" /\ cur' = 1
                   /\ buf'.hdr # "EOT" /\ pc' = "erase"
    BY <1>1, <1>2, <1>3, InProcess
  <2>. QED  BY <1>1, <2>1, <2>5, <2>6, <2>7 DEF SessionKept
<1>9. StoreKept'
  BY <1>1, <1>3, IntactSame, StoreSame, InProcess DEF LinkInductive
<1>. QED  BY <1>5, <1>6, <1>7, <1>8, <1>9 DEF LinkKept

-----------------------------------------------------------------------------
(* Erasing and programming *)

\* A write inside the bank of the session spares the firmware that boots.
LEMMA WriteSpares ==
  ASSUME LinkInductive, pc \in InPacket, info' = info,
         NEW i \in Start(target)..End(target), NEW c,
         flash' = [flash EXCEPT ![i] = c]
  PROVE  Intact => Intact'
  BY TargetWritten, InProcess DEF LinkInductive

\* The sector of flash_erase is one of the bank.
LEMMA EraseInBank ==
  ASSUME LinkInductive, pc = "erase", erase_addr <= End(target)
  PROVE  erase_addr \in Start(target)..End(target)
  BY Numbers DEF LinkInductive, Inductive, WritesFromStart

\* The remainder is what its name says.
LEMMA Remainder ==
  ASSUME NEW a \in Nat, NEW m \in Nat, m > 1
  PROVE  /\ a = m * (a \div m) + (a % m) /\ a \div m \in Int
         /\ a % m \in Int
  BY SMT

\* Neighbouring numbers have different remainders.
LEMMA Neighbours ==
  ASSUME NEW a \in Nat, NEW m \in Nat, m > 1
  PROVE  a % m # (a + 1) % m
<1>. SUFFICES ASSUME a % m = (a + 1) % m PROVE FALSE
  OBVIOUS
<1>1. /\ a = m * (a \div m) + (a % m) /\ a \div m \in Int
      /\ a % m \in Int
  BY Remainder
<1>2. /\ a + 1 = m * ((a + 1) \div m) + ((a + 1) % m)
      /\ (a + 1) \div m \in Int
  <2>1. a + 1 \in Nat
    OBVIOUS
  <2>. QED  BY <2>1, Remainder
<1>3. PICK q \in Int, p \in Int, r \in Int :
        a = m * q + r /\ a + 1 = m * p + r
  BY <1>1, <1>2, Zenon
<1>4. m * (p - q) = 1 /\ p - q \in Int
  BY <1>3, SMT
<1>5. ASSUME NEW k \in Int, m * k = 1 PROVE FALSE
  <2>1. CASE k <= 0
    BY <1>5, <2>1, SMT
  <2>2. CASE k >= 1
    BY <1>5, <2>2, SMT
  <2>. QED  BY <2>1, <2>2
<1>. QED  BY <1>4, <1>5

\* A packet that is accepted is the one after those in flash, so it fits.
LEMMA NextPacket ==
  ASSUME Orderly, LinkInductive, pc = "program", Acceptable
  PROVE  /\ addr = Start(target) + cur - 1
         /\ addr \in Start(target)..End(target)
         /\ addr \in Addr
<1>. DEFINE stored == addr - Start(target)
<1>1. /\ Stored /\ pkt.num = cur % PktMod /\ cur \in 1..Len(file)
      /\ cur \in Nat /\ Len(file) \in Nat /\ addr \in Nat
      /\ Start(target) \in Nat /\ target \in Banks
  BY InProcess, Numbers DEF InPacket, Matches
<1>2. stored \in {cur - 1, cur}
  BY <1>1 DEF Stored
<1>3. pkt.num = (stored + 1) % PktMod
  BY DEF Acceptable, PacketNumber
<1>4. PktMod \in Nat /\ PktMod > 1
  BY LimitsAssumption DEF Orderly
<1>5. cur % PktMod # (cur + 1) % PktMod
  BY <1>1, <1>4, Neighbours
<1>6. stored = cur - 1
  BY <1>1, <1>2, <1>3, <1>5
<1>7. addr = Start(target) + cur - 1
  BY <1>1, <1>6
<1>8. Len(file) <= End(target) - Start(target) + 1
  <2>1. Len(file) \in 1..CapA /\ CapA <= CapB
    <3>1. file \in Images
      <4>1. file # <<>>
        BY <1>1
      <4>. QED  BY <4>1, Numbers
    <3>. QED  BY <3>1, ImagesAssumption
  <2>. QED  BY <1>1, <2>1, GeometryAssumption DEF Start, End, Banks
<1>9. addr \in Start(target)..End(target)
  <2>1. End(target) \in Nat
    BY Numbers
  <2>. QED  BY <1>1, <1>7, <1>8, <2>1
<1>. QED  BY <1>1, <1>7, <1>9, Geometry

\* One sector of the erase.
LEMMA EraseSectorKept ==
  ASSUME LinkInductive, HostSeesReset, EraseSector
  PROVE  LinkKept'
<1>. USE DEF nvm, choice, session, uart
<1>1. /\ pc = "erase" /\ erase_addr <= End(target)
      /\ flash' = [flash EXCEPT ![erase_addr] = Blank]
      /\ erase_addr' = erase_addr + 1
      /\ UNCHANGED <<info, itcm, pc, target, first, addr, header, pkt, buf,
                     rcvFlag, overrun, reply, committed>>
  BY DEF EraseSector
<1>2. UNCHANGED <<host, file, cur>>
  BY <1>1, HostStays
<1>3. pc \in InPacket /\ pc \in InUpdate
  BY <1>1 DEF InPacket, InUpdate
<1>4. HostKept' /\ AnswerKept' /\ ArrivalKept'
  <2>1. HostKept'
    BY <1>1, <1>2 DEF LinkInductive, HostKept
  <2>2. AnswerKept'
    BY <1>1, <1>2 DEF LinkInductive, AnswerKept
  <2>3. ArrivalKept'
    BY <1>1, <1>2 DEF LinkInductive, ArrivalKept, Matches
  <2>. QED  BY <2>1, <2>2, <2>3
<1>5. SessionKept'
  <2>1. erase_addr \in Start(target)..End(target) /\ erase_addr \in Nat
        /\ Start(target) \in Nat
    BY <1>1, EraseInBank, Numbers
  <2>2. \A i \in Start(target)..(erase_addr - 1) : flash[i] = Blank
    BY <1>1, <1>3, InProcess
  <2>3. flash \in [Addr -> Cells] /\ erase_addr \in Addr
        /\ Start(target)..End(target) \subseteq Addr
    BY <2>1, Geometry, Numbers DEF LinkInductive, Inductive, TypeOK
  <2>4. ASSUME NEW i \in Start(target)..erase_addr PROVE flash'[i] = Blank
    <3>1. i \in Addr
      BY <2>1, <2>3, Numbers
    <3>2. i = erase_addr \/ i \in Start(target)..(erase_addr - 1)
      BY <2>1
    <3>. QED  BY <1>1, <2>2, <2>3, <3>1, <3>2
  <2>5. Start(target') = Start(target) /\ erase_addr' - 1 = erase_addr
    BY <1>1, <2>1
  <2>6. \A i \in Start(target')..(erase_addr' - 1) : flash'[i] = Blank
    BY <2>4, <2>5
  <2>7. ~first
    BY <1>1, <1>3, InProcess
  <2>8. /\ addr' = Start(target') /\ reply' = "none" /\ buf'.hdr # "EOT"
        /\ cur' = 1 /\ pc' = "erase"
    BY <1>1, <1>2, <1>3, <2>5, <2>7, InProcess
  <2>. QED  BY <1>1, <2>6, <2>7, <2>8 DEF SessionKept
<1>6. StoreKept'
  <2>1. Intact => Intact'
    BY <1>1, <1>3, EraseInBank, WriteSpares
  <2>. QED  BY <1>1, <1>3, <2>1, StoreSame, InProcess DEF LinkInductive
<1>. QED  BY <1>4, <1>5, <1>6 DEF LinkKept

\* The bank is blank and the session has received its first packet.
LEMMA EraseDoneKept ==
  ASSUME LinkInductive, HostSeesReset, EraseDone
  PROVE  LinkKept'
<1>. USE DEF nvm, choice, uart
<1>1. /\ pc = "erase" /\ erase_addr > End(target) /\ first' = TRUE
      /\ pc' = "program"
      /\ UNCHANGED <<flash, info, itcm, target, addr, header, pkt, buf,
                     rcvFlag, overrun, reply, committed>>
  BY DEF EraseDone
<1>2. UNCHANGED <<host, file, cur>>
  BY <1>1, HostStays
<1>3. pc \in InPacket /\ pc' \in InPacket
  BY <1>1 DEF InPacket
<1>4. HostKept'
  BY <1>1, <1>2, <1>3, InProcess DEF LinkInductive, HostKept
<1>5. AnswerKept'
  BY <1>1, <1>3, InProcess DEF AnswerKept
<1>6. ArrivalKept'
  <2>1. Matches(pkt)'
    BY <1>1, <1>2, <1>3, InProcess DEF Matches
  <2>2. header' = "SOH" /\ reply' = "none" /\ buf'.hdr \in {"junk", "CAN"}
        /\ (overrun' \/ rcvFlag' =>
              host' = "idle" /\ rcvFlag' /\ buf'.hdr = "CAN")
    BY <1>1, <1>2, <1>3, InProcess
  <2>. QED  BY <1>1, <2>1, <2>2 DEF ArrivalKept, InCommit
<1>7. SessionKept'
  <2>1. /\ addr = Start(target) /\ cur = 1 /\ ~first
        /\ \A i \in Start(target)..(erase_addr - 1) : flash[i] = Blank
    BY <1>1, <1>3, InProcess
  <2>2. \A i \in Start(target)..End(target) : flash[i] = Blank
    BY <1>1, <2>1, Numbers
  <2>3. cur <= Len(file)
    BY <1>3, InProcess, Numbers
  <2>4. Stored
    BY <2>1, <2>2, <2>3, Numbers DEF Stored
  <2>5. Stored'
    BY <1>1, <1>2, <2>4, StoredSame
  <2>. QED  BY <1>1, <2>5 DEF SessionKept, InUpdate, InPacket
<1>8. StoreKept'
  BY <1>1, <1>3, IntactSame, StoreSame, InProcess DEF LinkInductive
<1>. QED  BY <1>4, <1>5, <1>6, <1>7, <1>8 DEF LinkKept

\* Each packet in turn.  A cancel that came into the buffer while the packet
\* was in process ends the session before anything else happens.
LEMMA ProgramPacketKept ==
  ASSUME Orderly, LinkInductive, HostSeesReset, ProgramPacket
  PROVE  LinkKept'
<1>. USE DEF nvm, choice, session, frame, uart
<1>1. /\ pc = "program" /\ Acceptable
      /\ flash' = [flash EXCEPT ![addr] = ToProgram]
      /\ addr' = addr + 1 /\ reply' = "ACK" /\ pc' = "xmodem"
      /\ UNCHANGED <<info, itcm, target, first, rcvFlag, buf, committed>>
  BY DEF ProgramPacket
<1>2. UNCHANGED <<host, file, cur>>
  BY <1>1, HostStays
<1>3. pc \in InPacket /\ first
  BY <1>1, InProcess DEF InPacket
<1>4. /\ addr = Start(target) + cur - 1 /\ addr \in Start(target)..End(target)
      /\ addr \in Addr /\ addr' = Start(target) + cur
  BY <1>1, NextPacket, Numbers
<1>5. rcvFlag \/ overrun => host = "idle" /\ rcvFlag /\ buf.hdr = "CAN"
  BY <1>1, <1>3, InProcess
<1>6. HostKept'
  BY <1>1, <1>2, <1>3, InProcess DEF LinkInductive, HostKept
<1>7. AnswerKept'
  BY <1>1, <1>2, <1>4, <1>5 DEF AnswerKept
<1>8. ArrivalKept'
  BY <1>1, <1>2, <1>5 DEF ArrivalKept, InPacket, InCommit
<1>9. SessionKept'
  <2>1. CASE overrun
    <3>1. Cancelling'
      BY <1>1, <1>2, <1>5, <2>1 DEF Cancelling
    <3>. QED  BY <1>1, <1>3, <3>1 DEF SessionKept, InUpdate
  <2>2. CASE ~overrun
    <3>1. /\ Stored /\ Matches(pkt) /\ cur \in 1..Len(file)
      BY <1>3, InProcess
    <3>2. ToProgram = file[cur]
      BY <2>2, <3>1 DEF ToProgram, Matches
    <3>3. /\ flash \in [Addr -> Cells] /\ target' = target
          /\ Start(target)..End(target) \subseteq Addr
          /\ cur \in Nat /\ Len(file) \in Nat /\ addr \in Nat
          /\ Start(target) \in Nat /\ End(target) \in Nat
      BY <1>1, Numbers, Geometry DEF LinkInductive, Inductive, TypeOK
    <3>4. /\ \A k \in 1..(cur - 1) : flash[Start(target) + k - 1] = file[k]
          /\ \A i \in addr..End(target) : flash[i] = Blank
      <4>1. addr - Start(target) = cur - 1
        BY <1>4, <3>3
      <4>. QED  BY <3>1, <4>1 DEF Stored
    <3>5. ASSUME NEW k \in 1..cur
          PROVE  flash'[Start(target) + k - 1] = file[k]
      <4>1. CASE k = cur
        BY <1>1, <1>4, <3>2, <3>3, <4>1
      <4>2. CASE k # cur
        <5>1. k \in 1..(cur - 1) /\ Start(target) + k - 1 # addr
          BY <1>4, <3>3, <4>2
        <5>2. Start(target) + k - 1 \in Start(target)..End(target)
          BY <1>4, <3>3, <5>1
        <5>. QED  BY <1>1, <3>3, <3>4, <5>1, <5>2
      <4>. QED  BY <4>1, <4>2
    <3>6. ASSUME NEW i \in (addr + 1)..End(target) PROVE flash'[i] = Blank
      <4>1. i \in addr..End(target) /\ i # addr /\ i \in Addr
        BY <1>4, <3>3
      <4>. QED  BY <1>1, <3>3, <3>4, <4>1
    <3>7. addr' - Start(target) = cur /\ cur <= Len(file)
      BY <1>4, <3>1, <3>3
    <3>8. Stored'
      BY <1>1, <1>2, <3>3, <3>5, <3>6, <3>7 DEF Stored
    <3>. QED  BY <1>1, <1>3, <3>8 DEF SessionKept, InUpdate
  <2>. QED  BY <2>1, <2>2
<1>10. StoreKept'
  <2>1. Intact => Intact'
    BY <1>1, <1>3, <1>4, WriteSpares
  <2>. QED  BY <1>1, <1>3, <2>1, StoreSame, InProcess DEF LinkInductive
<1>. QED  BY <1>6, <1>7, <1>8, <1>9, <1>10 DEF LinkKept

\* A flash operation that fails ends the session with CAN CAN.
LEMMA FlashFailedKept ==
  ASSUME LinkInductive, HostSeesReset, pc \in InPacket, FlashFailed,
         UNCHANGED <<info, itcm, committed>>, Intact => Intact'
  PROVE  LinkKept'
<1>1. ReceiverIdle /\ pc' = "main"
  BY DEF FlashFailed, EndSession
<1>2. UNCHANGED <<host, file, cur>>
  BY <1>1, HostStays
<1>3. ~committed /\ itcm = NoImage
  BY InProcess
<1>. QED  BY <1>1, <1>2, <1>3, LeaveKept

\* A wrong, damaged or repeated packet is answered with NAK.
LEMMA RejectPacketKept ==
  ASSUME LinkInductive, HostSeesReset, RejectPacket
  PROVE  LinkKept'
<1>. USE DEF nvm, choice
<1>1. /\ pc = "program"
      /\ UNCHANGED <<flash, info, itcm, target, committed>>
  BY DEF RejectPacket
<1>2. pc \in InPacket /\ first
  BY <1>1, InProcess DEF InPacket
<1>3. CASE error_number + 1 >= MaxErrors
  BY <1>1, <1>2, <1>3, FlashFailedKept, IntactSame DEF RejectPacket
<1>4. CASE ~(error_number + 1 >= MaxErrors)
  <2>1. /\ reply' = "NAK" /\ pc' = "xmodem"
        /\ UNCHANGED <<first, addr, rcvFlag, buf>>
    BY <1>4 DEF RejectPacket
  <2>2. UNCHANGED <<host, file, cur>>
    BY <2>1, HostStays
  <2>3. rcvFlag => host = "idle" /\ buf.hdr = "CAN"
    BY <1>1, <1>2, InProcess
  <2>4. HostKept'
    BY <1>2, <2>1, <2>2, InProcess DEF LinkInductive, HostKept
  <2>5. AnswerKept' /\ ArrivalKept'
    BY <2>1, <2>2, <2>3 DEF AnswerKept, ArrivalKept, InPacket, InCommit
  <2>6. Stored'
    BY <1>1, <1>2, <2>1, <2>2, InProcess, StoredSame
  <2>7. SessionKept'
    BY <1>2, <2>1, <2>6 DEF SessionKept, InUpdate
  <2>8. StoreKept'
    BY <1>1, <1>2, IntactSame, StoreSame, InProcess DEF LinkInductive
  <2>. QED  BY <2>4, <2>5, <2>7, <2>8 DEF LinkKept
<1>. QED  BY <1>3, <1>4

\* An erase or a write that fails.
LEMMA FlashFaultKept ==
  ASSUME Orderly, LinkInductive, HostSeesReset, EraseFails \/ ProgramFails
  PROVE  LinkKept'
<1>. USE DEF choice
<1>1. pc \in InPacket
  BY DEF EraseFails, ProgramFails, InPacket
<1>2. FlashFailed /\ UNCHANGED <<info, itcm, committed>>
  BY DEF EraseFails, ProgramFails
<1>3. CASE UNCHANGED flash
  BY <1>1, <1>2, <1>3, IntactSame, FlashFailedKept
<1>4. CASE ~UNCHANGED flash
  <2>1. \E i \in Start(target)..End(target) :
          flash' = [flash EXCEPT ![i] = Junk]
    BY <1>4, EraseInBank, NextPacket DEF EraseFails, ProgramFails
  <2>. QED  BY <1>1, <1>2, <2>1, WriteSpares, FlashFailedKept
<1>. QED  BY <1>3, <1>4

\* A reset outside the commit; what it cuts short is in the bank of the
\* session.
LEMMA RestartKept ==
  ASSUME Orderly, LinkInductive, HostSeesReset, Restart, pc \notin InCommit
  PROVE  LinkKept'
<1>1. CutShort /\ RamCleared
  BY DEF Restart, PinReset, PowerLoss
<1>2. info' = info
  BY <1>1 DEF CutShort
<1>3. Intact => Intact'
  <2>1. CASE UNCHANGED flash
    BY <1>2, <2>1, IntactSame
  <2>2. CASE ~UNCHANGED flash
    <3>1. pc \in InPacket
      BY <1>1, <2>2 DEF CutShort, InPacket
    <3>2. \E i \in Start(target)..End(target) :
            flash' = [flash EXCEPT ![i] = Junk]
      BY <1>1, <2>2, EraseInBank, NextPacket DEF CutShort
    <3>. QED  BY <1>2, <3>1, <3>2, WriteSpares
  <2>. QED  BY <2>1, <2>2
<1>4. host' = "idle" /\ UNCHANGED <<file, cur>>
  BY <1>1, HostLeaves DEF RamCleared
<1>. QED  BY <1>1, <1>2, <1>3, <1>4, LeaveKept DEF RamCleared

-----------------------------------------------------------------------------
(* The end of a transfer *)

\* A sender that is past its last packet has had all of them stored: the bank
\* holds the file and nothing else.
LEMMA WholeFile ==
  ASSUME LinkInductive, Stored, cur > Len(file), file \in Images
  PROVE  /\ Content(flash, target) = Padded(target, file)
         /\ Content(flash, target) \in Good
         /\ flash[Start(target)] = file[1]
<1>1. /\ cur \in 1..(Len(file) + 1) /\ Len(file) \in Nat /\ addr \in Nat
      /\ Start(target) \in Nat /\ End(target) \in Nat /\ target \in Banks
      /\ Len(file) \in 1..CapA
  <2>1. file # <<>>
    BY FileType
  <2>. QED  BY <2>1, Numbers, FileType
<1>2. cur = Len(file) + 1
  BY <1>1
<1>3. addr - Start(target) = Len(file)
  BY <1>1, <1>2 DEF Stored
<1>4. /\ \A k \in 1..Len(file) : flash[Start(target) + k - 1] = file[k]
      /\ \A i \in addr..End(target) : flash[i] = Blank
  BY <1>3 DEF Stored
<1>5. ASSUME NEW i \in Start(target)..End(target)
      PROVE  flash[i] = IF i - Start(target) < Len(file)
                        THEN file[i - Start(target) + 1] ELSE Blank
  <2>1. CASE i - Start(target) < Len(file)
    <3>. DEFINE k == i - Start(target) + 1
    <3>1. k \in 1..Len(file) /\ Start(target) + k - 1 = i
      BY <1>1, <2>1
    <3>2. flash[Start(target) + k - 1] = file[k]
      BY <1>4, <3>1
    <3>. QED  BY <2>1, <3>1, <3>2
  <2>2. CASE ~(i - Start(target) < Len(file))
    <3>1. i \in addr..End(target)
      BY <1>1, <1>3, <2>2
    <3>. QED  BY <1>4, <2>2, <3>1
  <2>. QED  BY <2>1, <2>2
<1>6. Content(flash, target) = Padded(target, file)
  BY <1>5 DEF Content, Padded
<1>7. flash[Start(target)] = file[1]
  <2>1. 1 \in 1..Len(file) /\ Start(target) + 1 - 1 = Start(target)
    BY <1>1
  <2>. QED  BY <1>4, <2>1
<1>. QED  BY <1>1, <1>6, <1>7 DEF Good

\* So it is wherever an end of transfer is being handled.
LEMMA Finished ==
  ASSUME LinkInductive,
         pc \in InCommit \cup {"jump"} \/ (pc = "dispatch" /\ header = "EOT")
  PROVE  /\ first /\ Stored /\ cur > Len(file) /\ file \in Images
         /\ Content(flash, target) \in Good
         /\ flash[Start(target)] = file[1]
<1>1. pc \in InUpdate /\ pc \notin {"xmodem", "shift", "erase"}
  BY DEF InUpdate, InCommit
<1>2. cur > Len(file)
  BY DEF LinkInductive, ArrivalKept, InCommit
<1>3. first
  <2>1. CASE pc = "dispatch"
    BY <2>1 DEF LinkInductive, ArrivalKept, InCommit
  <2>2. CASE pc # "dispatch"
    BY <1>1, <2>2 DEF LinkInductive, SessionKept
  <2>. QED  BY <2>1, <2>2
<1>4. Stored
  BY <1>1, <1>3 DEF LinkInductive, SessionKept, Cancelling, InCommit
<1>5. file \in Images
  <2>1. ~(file = <<>> /\ cur = 0)
    BY <1>2
  <2>. QED  BY <2>1 DEF LinkInductive, HostKept
<1>. QED  BY <1>2, <1>3, <1>4, <1>5, WholeFile

\* The steps of the commit up to the write of the sector.
LEMMA CommitStepKept ==
  ASSUME LinkInductive, HostSeesReset,
         pc \in InCommit \cup {"jump"} \/ (pc = "dispatch" /\ header = "EOT"),
         pc' \in InCommit \cup {"jump"},
         UNCHANGED <<flash, target, first, addr>>,
         reply' \in {reply, "ACK"}, StoreKept'
  PROVE  LinkKept'
<1>1. pc' # "check_update" /\ pc' \in InUpdate /\ pc \in InUpdate
  BY DEF InUpdate, InCommit
<1>2. UNCHANGED <<host, file, cur>>
  BY <1>1, HostStays
<1>3. pc \notin {"xmodem", "check_update", "key_wait"}
      /\ pc' \notin {"xmodem", "check_update", "key_wait", "dispatch", "erase"}
      /\ pc' \notin InPacket
  BY DEF InCommit, InPacket
<1>4. first /\ Stored /\ cur > Len(file)
  BY Finished
<1>5. host # "send"
  BY <1>1, <1>3 DEF LinkInductive, HostKept
<1>6. HostKept'
  BY <1>2, <1>3, <1>5 DEF LinkInductive, HostKept
<1>7. AnswerKept'
  <2>1. host # "idle" => reply # "CAN" /\ reply # "NAK"
    BY <1>1, <1>3 DEF LinkInductive, AnswerKept
  <2>. QED  BY <1>2, <1>4, <2>1 DEF AnswerKept
<1>8. ArrivalKept'
  BY <1>2, <1>3, <1>4 DEF ArrivalKept
<1>9. SessionKept'
  <2>1. Stored'
    BY <1>2, <1>4, StoredSame
  <2>. QED  BY <1>1, <1>3, <1>4, <2>1 DEF SessionKept
<1>. QED  BY <1>6, <1>7, <1>8, <1>9 DEF LinkKept

\* The commit stores the CRC of the file that was sent, and the bank that
\* holds it boots from then on.
LEMMA CommitKept ==
  ASSUME LinkInductive, HostSeesReset,
         EndOfTransmission \/ CommitErase \/ CommitWrite, Inductive'
  PROVE  LinkKept'
<1>. USE DEF nvm, choice, session
<1>1. ~committed /\ itcm = NoImage
  BY NotCommitted
     DEF EndOfTransmission, CommitErase, CommitWrite, LinkInductive, StoreKept
<1>2. CASE EndOfTransmission
  <2>1. /\ pc = "dispatch" /\ header = "EOT" /\ pc' = "commit_erase"
        /\ reply' = "ACK"
        /\ UNCHANGED <<flash, info, itcm, target, first, addr, committed>>
    BY <1>2 DEF EndOfTransmission
  <2>2. StoreKept'
    BY <1>1, <2>1, IntactSame, StoreSame DEF LinkInductive
  <2>. QED  BY <2>1, <2>2, CommitStepKept DEF InCommit
<1>3. CASE CommitErase
  <2>1. /\ pc = "commit_erase" /\ pc' = "commit_write" /\ info' = ErasedSector
        /\ UNCHANGED <<flash, itcm, target, first, addr, reply, committed>>
    BY <1>3 DEF CommitErase
  <2>2. info'.crc = NoImage
    BY <2>1 DEF ErasedSector
  <2>3. StoreKept'
    BY <1>1, <2>1, <2>2 DEF StoreKept
  <2>. QED  BY <2>1, <2>3, CommitStepKept DEF InCommit
<1>4. CASE CommitWrite
  <2>1. /\ pc = "commit_write" /\ pc' = "jump" /\ info' = backup
        /\ UNCHANGED <<flash, itcm, target, first, addr, reply>>
    BY <1>4 DEF CommitWrite
  <2>2. /\ backup.crc = Content(flash, target)
        /\ BootBank(backup.a, backup.b) = target
    BY <1>1, <2>1 DEF LinkInductive, Inductive, CommitDescribesTarget, InCommit
  <2>3. Content(flash, target) \in Good
    BY <2>1, Finished DEF InCommit
  <2>4. Intact'
    BY <2>1, <2>2 DEF Intact, Fallback
  <2>5. StoreKept'
    <3>1. info'.crc \in Good
      BY <2>1, <2>2, <2>3
    <3>2. Good' = Good
      BY DEF Good, Padded
    <3>. QED  BY <1>1, <2>1, <2>4, <3>1, <3>2 DEF StoreKept
  <2>. QED  BY <2>1, <2>5, CommitStepKept DEF InCommit
<1>. QED  BY <1>2, <1>3, <1>4

\* A file that is an application passes the test of the jump.
LEMMA NoJumpReturns == Orderly /\ LinkInductive => ~JumpReturns
<1>. SUFFICES ASSUME Orderly, LinkInductive, JumpReturns PROVE FALSE
  OBVIOUS
<1>1. pc = "jump" /\ flash[Start(target)] \notin Bootable
  BY DEF JumpReturns
<1>2. flash[Start(target)] = file[1] /\ file \in Images
  BY <1>1, Finished
<1>. QED  BY <1>1, <1>2 DEF Orderly

\* Every step of the device keeps the link's part of the invariant.
LEMMA DeviceKept ==
  ASSUME Orderly, LinkInductive, Device, Inductive'
  PROVE  LinkKept'
<1>1. HostSeesReset
  BY DEF Device
<1>2. CASE CheckFlag \/ (\E pressed \in BOOLEAN : KeyPoll(pressed))
           \/ SelectBank
  BY <1>1, <1>2, StartUpKept
<1>3. CASE DropJunk \/ ReadHeader \/ BeginPacket \/ EndShift
  BY <1>1, <1>3, DropJunkKept, ReadHeaderKept, BeginPacketKept, EndShiftKept
<1>4. CASE FirstPacketTimeout \/ HostCancelled
  BY <1>1, <1>4, ExitKept
<1>5. CASE EraseSector \/ EraseDone \/ ProgramPacket \/ RejectPacket
  BY <1>1, <1>5, EraseSectorKept, EraseDoneKept, ProgramPacketKept,
     RejectPacketKept
<1>6. CASE EndOfTransmission \/ CommitErase \/ CommitWrite
  BY <1>1, <1>6, CommitKept
<1>7. CASE JumpAfterCommit \/ CheckAndBoot
  BY <1>1, <1>7, JumpKept DEF JumpAfterCommit, CheckAndBoot
<1>. QED  BY <1>2, <1>3, <1>4, <1>5, <1>6, <1>7, NoJumpReturns DEF Device

\* A commit that does not get to its end.
CommitCut ==
  /\ CommitMayBeCut /\ pc \in InCommit /\ pc' \in {"halt", "check_update"}
  /\ info' \in HalfDone
  /\ itcm' \in {itcm, NoImage} /\ committed' \in {committed, FALSE}
  /\ UNCHANGED flash

\* CommitFails, and a reset in a commit, are such steps.
LEMMA CommitCuts ==
  ASSUME \/ "commit_flash" \in Faults /\ CommitFails
         \/ Restart /\ pc \in InCommit
  PROVE  CommitCut /\ ReceiverIdle /\ (pc' = "check_update" => reply' = "none")
<1>1. CASE "commit_flash" \in Faults /\ CommitFails
  BY <1>1 DEF CommitFails, CommitCut, CommitMayBeCut
<1>2. CASE Restart /\ pc \in InCommit
  <2>1. /\ "commit_loss" \in Faults /\ CutShort /\ RamCleared
        /\ pc \notin {"erase", "program"}
    BY <1>2 DEF Restart, PinReset, PowerLoss, InCommit
  <2>. QED  BY <1>2, <2>1 DEF CutShort, RamCleared, CommitCut, CommitMayBeCut
<1>. QED  BY <1>1, <1>2

\* What a commit that was cut short leaves in the sector: the CRC of a whole
\* file, if any.
LEMMA CutCrc ==
  ASSUME LinkInductive, CommitCut
  PROVE  /\ info'.crc # NoImage => info'.crc \in Good
         /\ info'.crc # NoImage =>
              \/ info' = info /\ pc = "commit_erase"
              \/ info'.crc = backup.crc /\ pc = "commit_write"
<1>1. backup.crc = Content(flash, target) /\ Content(flash, target) \in Good
  BY Finished
     DEF CommitCut, LinkInductive, Inductive, CommitDescribesTarget
<1>2. CASE pc = "commit_erase"
  BY <1>2 DEF CommitCut, HalfDone, ErasedSector, LinkInductive, StoreKept
<1>3. CASE pc = "commit_write"
  <2>1. [ErasedSector EXCEPT !.crc = backup.crc].crc = backup.crc
        /\ ErasedSector.crc = NoImage
    BY DEF ErasedSector
  <2>. QED  BY <1>1, <1>3, <2>1 DEF CommitCut, HalfDone
<1>. QED  BY <1>2, <1>3 DEF CommitCut, InCommit

\* Such a step keeps the link's part of the invariant.
LEMMA CommitCutKept ==
  ASSUME Orderly, LinkInductive, HostSeesReset,
         \/ "commit_flash" \in Faults /\ CommitFails
         \/ Restart /\ pc \in InCommit
  PROVE  LinkKept'
<1>1. CommitCut /\ ReceiverIdle /\ (pc' = "check_update" => reply' = "none")
  BY CommitCuts
<1>2. /\ host' \in {"idle", host} /\ UNCHANGED <<file, cur>>
      /\ pc' = "check_update" => host' = "idle"
  BY HostStays, HostLeaves DEF HostSeesReset
<1>3. HostKept' /\ AnswerKept' /\ ArrivalKept' /\ SessionKept'
  BY <1>1, <1>2, NoSession DEF CommitCut
<1>4. ~committed /\ itcm = NoImage
  BY <1>1, NotCommitted DEF CommitCut, InCommit, LinkInductive, StoreKept
<1>5. info'.crc # NoImage => info'.crc \in Good
  BY <1>1, CutCrc
<1>6. StoreKept'
  <2>1. Good' = Good
    BY DEF Good, Padded
  <2>2. ~committed' /\ itcm' = NoImage
    <3>1. /\ committed' = committed \/ ~committed'
          /\ itcm' \in {itcm, NoImage}
      BY <1>1 DEF CommitCut
    <3>. QED  BY <1>4, <3>1
  <2>3. CommitMayBeCut' = CommitMayBeCut
    BY DEF CommitMayBeCut
  <2>. QED  BY <1>1, <1>5, <2>1, <2>2, <2>3 DEF StoreKept, CommitCut
<1>. QED  BY <1>3, <1>6 DEF LinkKept

-----------------------------------------------------------------------------
(* The sender *)

\* A step after which the device is as before, but for an answer taken, and
\* the sender neither sends nor moves on.
LEMMA WaitKept ==
  ASSUME LinkInductive,
         UNCHANGED <<flash, info, itcm, pc, target, first, addr, header, pkt,
                     erase_addr, rcvFlag, buf, overrun, committed>>,
         UNCHANGED <<file, cur>>, reply' \in {reply, "none"},
         host' \in {"idle", host} \/ (host = "send" /\ host' = "await")
  PROVE  LinkKept'
<1>1. host' \in {"idle", "await"} \/ host' = host
  OBVIOUS
<1>2. host' # "idle" => host # "idle"
  OBVIOUS
<1>3. HostKept'
  <2>1. /\ host' \in {"idle", "send", "await"}
        /\ \/ host' = "idle" /\ file' = <<>> /\ cur' = 0
           \/ file' \in Images /\ cur' \in 1..(Len(file') + 1)
    BY DEF LinkInductive, HostKept
  <2>2. pc' \in {"check_update", "key_wait"} =>
          host' = "idle" /\ buf'.hdr = "junk" /\ reply' = "none"
    BY DEF LinkInductive, HostKept
  <2>3. pc' \in InUpdate /\ host' = "send" =>
          pc' = "xmodem" /\ reply' = "none" /\ (rcvFlag' => buf'.hdr = "junk")
    BY DEF LinkInductive, HostKept
  <2>. QED  BY <2>1, <2>2, <2>3 DEF HostKept
<1>4. AnswerKept'
  BY <1>2 DEF LinkInductive, AnswerKept
<1>5. ArrivalKept'
  BY <1>2 DEF LinkInductive, ArrivalKept, Matches
<1>6. SessionKept'
  <2>1. Stored => Stored'
    BY StoredSame
  <2>2. Cancelling => Cancelling'
    BY <1>2 DEF Cancelling
  <2>3. Engaged' => Engaged
    BY <1>2 DEF Engaged
  <2>. QED  BY <2>1, <2>2, <2>3 DEF LinkInductive, SessionKept
<1>7. StoreKept'
  BY IntactSame, StoreSame DEF LinkInductive, StoreKept
<1>. QED  BY <1>3, <1>4, <1>5, <1>6, <1>7 DEF LinkKept

\* What the sender sends arrives at a device that waits for it.
LEMMA ArriveKept ==
  ASSUME LinkInductive, host = "send", NEW b \in BatchSet,
         USART1_IRQHandler(b),
         \/ b.hdr = "SOH" /\ Matches(b)
         \/ b.hdr = "EOT" /\ cur > Len(file)
         \/ b.hdr = "junk",
         host' = "await", UNCHANGED <<file, cur>>
  PROVE  LinkKept'
<1>. USE DEF nvm, choice, session, frame
<1>1. /\ pc \in InUpdate \cup {"check_update", "key_wait"}
      /\ buf' = IF b.hdr \in Control THEN [buf EXCEPT !.hdr = b.hdr] ELSE b
      /\ rcvFlag'
      /\ UNCHANGED <<flash, info, itcm, pc, target, first, addr, header, pkt,
                     reply, committed>>
  BY DEF USART1_IRQHandler
<1>2. pc = "xmodem" /\ pc \in InUpdate /\ reply = "none"
  BY <1>1 DEF LinkInductive, HostKept
<1>3. buf'.hdr = b.hdr /\ (b.hdr = "SOH" => buf' = b)
  BY <1>1 DEF Control, LinkInductive, Inductive, TypeOK, BatchSet
<1>4. file \in Images /\ cur \in 1..(Len(file) + 1) /\ Len(file) \in 1..CapA
  BY FileType DEF LinkInductive, HostKept
<1>5. HostKept'
  BY <1>1, <1>2, <1>4 DEF HostKept
<1>6. AnswerKept'
  BY <1>1, <1>2 DEF AnswerKept
<1>7. ArrivalKept'
  BY <1>1, <1>2, <1>3 DEF ArrivalKept, Matches, InPacket, InCommit
<1>8. SessionKept'
  <2>1. CASE first
    <3>1. Stored'
      BY <1>1, <1>2, <2>1, StoredSame DEF LinkInductive, SessionKept, Cancelling
    <3>. QED  BY <1>1, <1>2, <2>1, <3>1 DEF SessionKept
  <2>2. CASE ~first
    <3>1. addr = Start(target) /\ cur = 1
      BY <1>2, <2>2 DEF LinkInductive, SessionKept, Engaged
    <3>2. buf'.hdr # "EOT"
      BY <1>3, <1>4, <3>1
    <3>. QED  BY <1>1, <1>2, <2>2, <3>1, <3>2 DEF SessionKept
  <2>. QED  BY <2>1, <2>2
<1>9. StoreKept'
  BY <1>1, <1>2, IntactSame, StoreSame, NotCommitted
     DEF LinkInductive, StoreKept
<1>. QED  BY <1>5, <1>6, <1>7, <1>8, <1>9 DEF LinkKept

\* A cancel arrives at any time after a packet.
LEMMA CancelKept ==
  ASSUME LinkInductive, host = "await", USART1_IRQHandler(Byte("CAN")),
         host' = "idle", UNCHANGED <<file, cur>>
  PROVE  LinkKept'
<1>. USE DEF nvm, choice, session, frame
<1>1. /\ pc \in InUpdate \cup {"check_update", "key_wait"}
      /\ buf' = [buf EXCEPT !.hdr = "CAN"]
      /\ rcvFlag'
      /\ UNCHANGED <<flash, info, itcm, pc, target, first, addr, header, pkt,
                     erase_addr, reply, committed>>
  BY DEF USART1_IRQHandler, Byte, Control
<1>2. pc \in InUpdate
  BY <1>1 DEF LinkInductive, HostKept
<1>3. buf'.hdr = "CAN" /\ buf'.num = buf.num /\ buf'.data = buf.data
  BY <1>1 DEF LinkInductive, Inductive, TypeOK, BatchSet
<1>4. HostKept'
  BY <1>1, <1>2 DEF LinkInductive, HostKept, InUpdate, InPacket, InCommit
<1>5. AnswerKept'
  BY DEF AnswerKept
<1>6. ArrivalKept'
  BY <1>1, <1>3 DEF LinkInductive, ArrivalKept, Matches
<1>7. SessionKept'
  <2>1. first => Stored'
    BY <1>1, <1>2, StoredSame DEF LinkInductive, SessionKept, Cancelling
  <2>2. Engaged
    BY DEF Engaged
  <2>. QED  BY <1>1, <1>2, <1>3, <2>1, <2>2 DEF LinkInductive, SessionKept
<1>8. StoreKept'
  BY <1>1, IntactSame, StoreSame DEF LinkInductive, StoreKept
<1>. QED  BY <1>4, <1>5, <1>6, <1>7, <1>8 DEF LinkKept

\* So does a command that is typed before a transfer.
LEMMA TypedKept ==
  ASSUME LinkInductive, host = "idle", pc \in {"key_wait", "xmodem"}, ~first,
         USART1_IRQHandler(Byte("junk")), UNCHANGED <<host, file, cur>>
  PROVE  LinkKept'
<1>. USE DEF nvm, choice, session, frame
<1>1. /\ buf' = [buf EXCEPT !.hdr = "junk"]
      /\ rcvFlag'
      /\ UNCHANGED <<flash, info, itcm, pc, target, first, addr, header, pkt,
                     erase_addr, reply, committed>>
  BY DEF USART1_IRQHandler, Byte, Control
<1>2. buf'.hdr = "junk"
  BY <1>1 DEF LinkInductive, Inductive, TypeOK, BatchSet
<1>3. HostKept' /\ AnswerKept' /\ ArrivalKept'
  BY <1>1, <1>2
     DEF LinkInductive, HostKept, AnswerKept, ArrivalKept, InPacket, InCommit
<1>4. SessionKept'
  BY <1>1, <1>2
     DEF LinkInductive, SessionKept, Engaged, InUpdate, InPacket, InCommit
<1>5. StoreKept'
  BY <1>1, IntactSame, StoreSame DEF LinkInductive, StoreKept
<1>. QED  BY <1>3, <1>4, <1>5 DEF LinkKept

\* The device that is told of a file, or is repeated a packet, waits.
LEMMA SendKept ==
  ASSUME LinkInductive, host' = "send", UNCHANGED vars,
         pc \in InUpdate =>
           pc = "xmodem" /\ reply = "none" /\ (rcvFlag => buf.hdr = "junk"),
         \/ host # "idle" /\ UNCHANGED <<file, cur>>
         \/ ~first /\ pc = "xmodem" /\ ~rcvFlag /\ file' \in Images /\ cur' = 1
  PROVE  LinkKept'
<1>. USE DEF vars
<1>1. file' \in Images /\ cur' \in 1..(Len(file') + 1)
  <2>1. CASE UNCHANGED <<file, cur>> /\ host # "idle"
    BY <2>1 DEF LinkInductive, HostKept
  <2>2. CASE file' \in Images /\ cur' = 1
    BY <2>2, FileType
  <2>. QED  BY <2>1, <2>2
<1>2. pc \notin {"check_update", "key_wait"}
  BY DEF LinkInductive, HostKept
<1>3. HostKept'
  BY <1>1, <1>2 DEF HostKept
<1>4. AnswerKept'
  BY DEF AnswerKept
<1>5. ArrivalKept'
  <2>1. CASE pc \in InUpdate
    BY <2>1 DEF ArrivalKept, InPacket, InCommit
  <2>2. CASE pc \notin InUpdate
    BY <2>2 DEF ArrivalKept, InUpdate, InPacket, InCommit
  <2>. QED  BY <2>1, <2>2
<1>6. SessionKept'
  <2>1. CASE UNCHANGED <<file, cur>> /\ host # "idle"
    <3>1. Stored => Stored'
      BY <2>1, StoredSame
    <3>2. ~Cancelling /\ Engaged
      BY <2>1 DEF Cancelling, Engaged
    <3>. QED  BY <3>1, <3>2, <2>1 DEF LinkInductive, SessionKept
  <2>2. CASE ~first /\ pc = "xmodem" /\ cur' = 1
    BY <2>2 DEF LinkInductive, SessionKept, InUpdate
  <2>. QED  BY <2>1, <2>2
<1>7. StoreKept'
  BY IntactSame, StoreSame DEF LinkInductive, StoreKept
<1>. QED  BY <1>3, <1>4, <1>5, <1>6, <1>7 DEF LinkKept

\* The sender reads an answer and goes on with the same or the next packet.
LEMMA HostReadsKept ==
  ASSUME LinkInductive, HostReads
  PROVE  LinkKept'
<1>. USE DEF nvm, choice, session, frame, uart
<1>1. /\ host = "await" /\ reply # "none" /\ reply' = "none" /\ file' = file
      /\ UNCHANGED <<flash, info, itcm, pc, target, first, addr, header, pkt,
                     erase_addr, rcvFlag, buf, overrun, committed>>
  BY DEF HostReads
<1>2. pc \notin {"check_update", "key_wait"} /\ file \in Images
      /\ cur \in 1..(Len(file) + 1) /\ Len(file) \in Nat
  BY <1>1, FileType DEF LinkInductive, HostKept
<1>3. pc \in InUpdate => first
  BY <1>1 DEF LinkInductive, SessionKept
<1>4. CASE host' = "idle" /\ UNCHANGED cur
  BY <1>1, <1>4, WaitKept
<1>5. CASE host' = "send" /\ pc \notin InUpdate /\ cur' \in 1..(Len(file) + 1)
  <2>1. HostKept'
    BY <1>1, <1>2, <1>5 DEF HostKept
  <2>2. AnswerKept' /\ ArrivalKept' /\ SessionKept'
    BY <1>1, <1>5
       DEF LinkInductive, AnswerKept, ArrivalKept, SessionKept, InUpdate,
           InPacket, InCommit
  <2>3. StoreKept'
    BY <1>1, IntactSame, StoreSame DEF LinkInductive, StoreKept
  <2>. QED  BY <2>1, <2>2, <2>3 DEF LinkKept
<1>6. CASE /\ host' = "send" /\ pc \in InUpdate
           /\ \/ reply = "ACK" /\ cur <= Len(file) /\ cur' = cur + 1
              \/ reply = "NAK" /\ UNCHANGED cur
  <2>1. /\ pc = "xmodem" /\ ~rcvFlag
        /\ reply = "ACK" => addr = Start(target) + cur
    BY <1>1, <1>2, <1>6 DEF LinkInductive, AnswerKept
  <2>2. cur' \in 1..(Len(file) + 1)
    BY <1>2, <1>6
  <2>3. HostKept' /\ AnswerKept' /\ ArrivalKept'
    BY <1>1, <1>2, <1>6, <2>1, <2>2
       DEF HostKept, AnswerKept, ArrivalKept, InPacket, InCommit
  <2>4. Stored
    BY <1>1, <1>3, <1>6 DEF LinkInductive, SessionKept, Cancelling
  <2>5. Stored'
    <3>1. CASE reply = "ACK"
      <4>1. addr - Start(target) = cur /\ cur' - 1 = cur /\ cur <= Len(file)
        BY <1>2, <1>6, <2>1, <3>1, Numbers
      <4>2. /\ addr' - Start(target') = addr - Start(target)
            /\ Start(target') = Start(target) /\ End(target') = End(target)
        BY <1>1
      <4>. QED  BY <1>1, <2>4, <4>1, <4>2 DEF Stored
    <3>2. CASE reply = "NAK"
      BY <1>1, <1>6, <2>4, <3>2, StoredSame
    <3>. QED  BY <1>6, <3>1, <3>2
  <2>6. SessionKept'
    BY <1>1, <1>3, <1>6, <2>1, <2>5 DEF SessionKept
  <2>7. StoreKept'
    BY <1>1, IntactSame, StoreSame DEF LinkInductive, StoreKept
  <2>. QED  BY <2>3, <2>6, <2>7 DEF LinkKept
<1>7. reply = "ACK" /\ cur <= Len(file) /\ cur' = cur + 1
        => cur' \in 1..(Len(file) + 1)
  BY <1>2
<1>. QED  BY <1>2, <1>4, <1>5, <1>6, <1>7 DEF HostReads

\* The sender sends the packet it is at, or its end of transfer.
LEMMA HostSendKept ==
  ASSUME Orderly, LinkInductive, HostSend
  PROVE  LinkKept'
<1>. DEFINE sent == IF cur <= Len(file) THEN Packet(cur) ELSE Byte("EOT")
<1>. DEFINE hurt == IF cur <= Len(file) THEN [sent EXCEPT !.ok = FALSE]
                                        ELSE Byte("junk")
<1>. DEFINE OnTheLine(b) == /\ b \in BatchSet
                            /\ \/ b.hdr = "SOH" /\ Matches(b)
                               \/ b.hdr = "EOT" /\ cur > Len(file)
                               \/ b.hdr = "junk"
<1>1. /\ host = "send" /\ host' = "await" /\ UNCHANGED <<file, cur>>
      /\ UNCHANGED vars \/ Deliver(sent) \/ Deliver(hurt)
  BY DEF HostSend, Orderly
<1>2. /\ file \in Images /\ cur \in 1..(Len(file) + 1) /\ Len(file) \in Nat
      /\ HostTyped
  BY <1>1, FileType, HostPlace DEF LinkInductive, HostKept
<1>3. OnTheLine(sent) /\ OnTheLine(hurt)
  <2>1. CASE cur <= Len(file)
    <3>1. /\ Packet(cur) \in BatchSet
          /\ [Packet(cur) EXCEPT !.ok = FALSE] \in BatchSet
      BY <1>1, <1>2, <2>1, PacketsAreBatches
    <3>2. cur \in 1..Len(file)
      BY <1>2, <2>1
    <3>. QED  BY <2>1, <3>1, <3>2 DEF Packet, Matches
  <2>2. CASE ~(cur <= Len(file))
    <3>1. Byte("EOT") \in BatchSet /\ Byte("junk") \in BatchSet
      BY BytesAreBatches DEF Control
    <3>2. cur > Len(file)
      BY <1>2, <2>2
    <3>. QED  BY <2>2, <3>1, <3>2 DEF Byte
  <2>. QED  BY <2>1, <2>2
<1>. HIDE DEF sent, hurt
<1>4. ASSUME NEW b, OnTheLine(b), USART1_IRQHandler(b) PROVE LinkKept'
  BY <1>1, <1>4, ArriveKept
<1>5. UNCHANGED vars => LinkKept'
  BY <1>1, WaitKept DEF vars
<1>. QED  BY <1>1, <1>3, <1>4, <1>5 DEF Deliver

\* Every step of the sender and the line keeps the link's part of the
\* invariant.
LEMMA HostStepKept ==
  ASSUME Orderly, LinkInductive, Host
  PROVE  LinkKept'
<1>1. ASSUME NEW img \in Images, HostStart(img) PROVE LinkKept'
  <2>1. reply = "none"
    BY <1>1 DEF HostStart, LinkInductive, SessionKept, InUpdate
  <2>. QED  BY <1>1, <2>1, SendKept DEF HostStart
<1>2. CASE LoseReply
  <2>1. /\ UNCHANGED <<flash, info, itcm, pc, target, first, addr, header, pkt,
                       erase_addr, rcvFlag, buf, overrun, committed>>
        /\ UNCHANGED <<host, file, cur>> /\ reply' = "none"
    BY <1>2 DEF LoseReply, nvm, choice, session, frame, uart
  <2>. QED  BY <2>1, WaitKept
<1>3. CASE HostTimeout
  <2>1. pc = "xmodem" /\ (rcvFlag => buf.hdr = "junk")
    BY <1>3 DEF HostTimeout, Orderly
  <2>. QED  BY <1>3, <2>1, SendKept DEF HostTimeout
<1>4. CASE HostCancel
  <2>1. host = "await" /\ host' = "idle" /\ UNCHANGED <<file, cur>>
    BY <1>4 DEF HostCancel
  <2>2. UNCHANGED vars => LinkKept'
    BY <2>1, WaitKept DEF vars
  <2>. QED  BY <1>4, <2>1, <2>2, CancelKept DEF HostCancel, Deliver
<1>5. CASE UserTypes
  BY <1>5, TypedKept DEF UserTypes, Deliver
<1>. QED  BY <1>1, <1>2, <1>3, <1>4, <1>5, HostReadsKept, HostSendKept DEF Host

-----------------------------------------------------------------------------
(* The invariant *)

\* A blank device with nobody at the other end.
LEMMA LinkInit_Inductive == LinkInit => LinkInductive
<1>. SUFFICES ASSUME LinkInit PROVE LinkInductive
  OBVIOUS
<1>1. Inductive
  BY InductiveInit DEF LinkInit
<1>2. HostKept
  BY DEF LinkInit, Init, HostKept, Spent, InUpdate, InPacket, InCommit
<1>3. AnswerKept /\ ArrivalKept
  BY DEF LinkInit, Init, AnswerKept, ArrivalKept, InUpdate, InPacket, InCommit
<1>4. SessionKept /\ StoreKept
  BY DEF LinkInit, Init, SessionKept, StoreKept, ErasedSector, InUpdate,
         InPacket, InCommit
<1>. QED  BY <1>1, <1>2, <1>3, <1>4 DEF LinkInductive

\* Every step of device, line and sender keeps the invariant.
LEMMA LinkInductiveStep ==
  Orderly /\ LinkInductive /\ [LinkNext]_linkVars => LinkInductive'
<1>. SUFFICES ASSUME Orderly, LinkInductive, [LinkNext]_linkVars
              PROVE  LinkInductive'
  OBVIOUS
<1>1. Inductive'
  BY LinkKeepsDevice, HostPlace DEF LinkInductive
<1>2. LinkKept'
  <2>1. CASE Device
    BY <1>1, <2>1, DeviceKept
  <2>2. CASE Host
    BY <2>2, HostStepKept
  <2>3. CASE Mishap
    BY <2>3, FlashFaultKept, RestartKept, CommitCutKept DEF Mishap, FlashFault
  <2>4. CASE RequestUpdate /\ HostSeesReset
    BY <2>4, ExitKept
  <2>5. CASE UNCHANGED linkVars
    BY <2>5, WaitKept DEF linkVars, vars
  <2>. QED  BY <2>1, <2>2, <2>3, <2>4, <2>5 DEF LinkNext
<1>. QED  BY <1>1, <1>2 DEF LinkInductive, LinkKept

\* LinkInductive in every reachable state, for files and banks of any size
\* and packet numbers that wrap anywhere past two, as long as the sender
\* waits for its answers and the commit is not disturbed.
THEOREM LinkInductiveHolds == Orderly => (LinkSpec => []LinkInductive)
<1>. SUFFICES ASSUME Orderly PROVE LinkSpec => []LinkInductive
  OBVIOUS
<1>1. LinkInductive /\ [LinkNext]_linkVars => LinkInductive'
  BY LinkInductiveStep
<1>. QED  BY <1>1, LinkInit_Inductive, PTL DEF LinkSpec

\* xmodem_receive and its sender agree on how far the transfer is, whatever
\* was damaged, lost or repeated.
THEOREM TransferStaysInStep == Orderly => (LinkSpec => []TransferInStep)
<1>. SUFFICES ASSUME Orderly PROVE LinkSpec => []TransferInStep
  OBVIOUS
<1>1. LinkInductive => TransferInStep
  <2>. SUFFICES ASSUME LinkInductive, first, host # "idle" PROVE Stored
    BY DEF TransferInStep
  <2>1. pc \in InUpdate
    BY DEF LinkInductive, SessionKept
  <2>. QED  BY <2>1 DEF LinkInductive, SessionKept, Cancelling
<1>. QED  BY <1>1, LinkInductiveHolds, PTL

-----------------------------------------------------------------------------
(* The refinement of FirmwareStore *)

\* A padded file is the content of a bank.
LEMMA PaddedType ==
  ASSUME NEW bk \in Banks, NEW img \in Images
  PROVE  Padded(bk, img) \in Contents
<1>1. /\ Start(bk) \in Nat /\ End(bk) \in Nat /\ Len(img) \in Nat
      /\ \A k \in 1..Len(img) : img[k] \in Data
  BY Geometry, FileType
<1>2. ASSUME NEW i \in Start(bk)..End(bk)
      PROVE  (IF i - Start(bk) < Len(img) THEN img[i - Start(bk) + 1]
                                          ELSE Blank) \in Cells
  <2>1. i - Start(bk) < Len(img) => i - Start(bk) + 1 \in 1..Len(img)
    BY <1>1
  <2>. QED  BY <1>1, <2>1 DEF Cells
<1>3. Padded(bk, img) \in [Start(bk)..End(bk) -> Cells]
  BY <1>2 DEF Padded
<1>. QED  BY <1>3 DEF Contents

\* Nothing is not a file.
LEMMA ImageOfNoImage == ImageOf(NoImage) = NoImage
<1>1. \A bk \in Banks, img \in Images : NoImage # Padded(bk, img)
  BY PaddedType, NoImageAssumption
<1>. QED  BY <1>1 DEF ImageOf

\* A whole file in a bank is one of the files.
LEMMA ImageOfGood ==
  ASSUME NEW c \in Good
  PROVE  ImageOf(c) \in Images /\ ImageOf(c) # NoImage
<1>1. PICK b1 \in Banks, im \in Images : c = Padded(b1, im)
  BY DEF Good
<1>. DEFINE Fits(bk, img) == Len(img) <= End(bk) - Start(bk) + 1
<1>. DEFINE Found == {img \in Images :
                 \E bk \in Banks : Fits(bk, img) /\ c = Padded(bk, img)}
<1>2. Fits(b1, im)
  <2>1. Len(im) \in 1..CapA /\ CapA <= CapB
    BY ImagesAssumption
  <2>. QED  BY <2>1, GeometryAssumption DEF Start, End, Banks
<1>3. im \in Found
  BY <1>1, <1>2
<1>4. (CHOOSE img \in Found : TRUE) \in Found
  BY <1>3
<1>5. ImageOf(c) = CHOOSE img \in Found : TRUE
  BY <1>3 DEF ImageOf
<1>. QED  BY <1>4, <1>5, ImagesAssumption

\* The firmware that may pass the check of main, whatever the place of the
\* device.
Certified ==
  IF \E bk \in Banks : info.crc = Content(flash, bk) THEN ImageOf(info.crc)
                                                     ELSE NoImage

\* Outside of the write of the sector, that is what is installed.
LEMMA InstalledIs == pc # "commit_write" => Installed = Certified
  BY DEF Installed, Certified

\* An erased CRC word certifies nothing.
LEMMA CertifiesNothing ==
  ASSUME TypeOK, info.crc = NoImage
  PROVE  Certified = NoImage
  BY ContentType, NoImageAssumption DEF Certified, TypeOK

\* What is certified is a file, or nothing.
LEMMA CertifiedIsFile ==
  ASSUME LinkInductive
  PROVE  Certified \in Images \cup {NoImage}
<1>1. CASE info.crc = NoImage
  BY <1>1, CertifiesNothing DEF LinkInductive, Inductive
<1>2. CASE info.crc # NoImage
  BY <1>2, ImageOfGood DEF LinkInductive, StoreKept, Certified
<1>. QED  BY <1>1, <1>2

\* The bank that boots certifies what is stored for it.
LEMMA IntactCertifies ==
  ASSUME Intact
  PROVE  Certified = ImageOf(info.crc)
<1>1. Fallback \in Banks
  BY DEF Fallback, BootBank, Banks
<1>. QED  BY <1>1 DEF Intact, Certified

\* Nothing runs but a whole file, so Running never says <<>>.
LEMMA RunningIs ==
  ASSUME LinkInductive
  PROVE  Running = ImageOf(itcm)
<1>. SUFFICES ASSUME itcm # NoImage PROVE ImageOf(itcm) # NoImage
  BY DEF Running
<1>1. itcm = info.crc /\ info.crc \in Good
  BY DEF LinkInductive, StoreKept, Inductive, AppIsCertified
<1>. QED  BY <1>1, ImageOfGood

\* Before and after a step.
LEMMA RunningBoth ==
  ASSUME LinkInductive, LinkInductive'
  PROVE  Running = ImageOf(itcm) /\ Running' = ImageOf(itcm')
<1>1. (LinkInductive => Running = ImageOf(itcm))'
  BY RunningIs, PTL
<1>. QED  BY <1>1, RunningIs

\* Outside of the application nothing runs.
LEMMA NothingRuns ==
  ASSUME LinkInductive, pc # "app"
  PROVE  Running = NoImage
  BY RunningIs, ImageOfNoImage DEF LinkInductive, StoreKept

-----------------------------------------------------------------------------
(* The steps of the link, as the store sees them *)

\* From the end of a transfer to the start of what it brought.
InChange == InCommit \cup {"jump"}

\* A jump starts the stored content.
Jumps == /\ pc \in {"main", "jump"} /\ flash_jump_to_app
         /\ info.crc = Content(flash, target)

\* A session writes one cell of its bank, or leaves it half written.
BankWrite ==
  /\ pc \in InPacket /\ pc' \notin InChange \cup {"app"}
  /\ info' = info
  /\ \E i \in Start(target)..End(target), c \in Cells :
       flash' = [flash EXCEPT ![i] = c]

\* Nothing happens but that what runs may stop.
Unnoticed ==
  /\ UNCHANGED <<flash, info>> /\ itcm' \in {itcm, NoImage}
  /\ UNCHANGED <<pc, backup>> \/ {pc, pc'} \cap InChange = {}

\* A reset between the commit and the jump.
JumpCut ==
  /\ pc = "jump" /\ pc' = "check_update" /\ itcm' = NoImage
  /\ UNCHANGED <<flash, info>>

\* Every step of the device outside of the commit is one of these.
LEMMA SessionSteps ==
  ASSUME Orderly, LinkInductive, EraseSector \/ EraseFails \/ ProgramPacket
                                 \/ ProgramFails \/ RejectPacket \/ EraseDone
                                 \/ (Restart /\ pc \notin InCommit)
  PROVE  Unnoticed \/ BankWrite \/ JumpCut
<1>. USE DEF choice, InChange
<1>1. CASE EraseSector
  <2>1. pc = "erase" /\ pc' = "erase" /\ info' = info
        /\ flash' = [flash EXCEPT ![erase_addr] = Blank]
        /\ erase_addr <= End(target)
    BY <1>1 DEF EraseSector
  <2>2. erase_addr \in Start(target)..End(target) /\ Blank \in Cells
    BY <2>1, EraseInBank DEF Cells
  <2>. QED  BY <2>1, <2>2 DEF BankWrite, InPacket, InCommit
<1>2. CASE ProgramPacket
  <2>1. /\ pc = "program" /\ Acceptable /\ pc' = "xmodem" /\ info' = info
        /\ flash' = [flash EXCEPT ![addr] = ToProgram]
    BY <1>2 DEF ProgramPacket
  <2>2. addr \in Start(target)..End(target)
    BY <2>1, NextPacket
  <2>3. ToProgram \in Cells
    BY DEF LinkInductive, Inductive, TypeOK, ToProgram, BatchSet, Cells
  <2>. QED  BY <2>1, <2>2, <2>3 DEF BankWrite, InPacket, InCommit
<1>3. CASE EraseFails \/ ProgramFails
  <2>1. /\ pc \in {"erase", "program"} /\ pc' = "main"
        /\ UNCHANGED <<info, itcm>>
    BY <1>3 DEF EraseFails, ProgramFails, FlashFailed, EndSession
  <2>2. CASE UNCHANGED flash
    BY <2>1, <2>2 DEF Unnoticed, InCommit
  <2>3. CASE ~UNCHANGED flash
    <3>1. \E i \in Start(target)..End(target) :
            flash' = [flash EXCEPT ![i] = Junk]
      BY <1>3, <2>3, EraseInBank, NextPacket DEF EraseFails, ProgramFails
    <3>2. Junk \in Cells
      BY DEF Cells
    <3>. QED  BY <2>1, <3>1, <3>2 DEF BankWrite, InPacket, InCommit
  <2>. QED  BY <2>2, <2>3
<1>4. CASE Restart /\ pc \notin InCommit
  <2>1. CutShort /\ RamCleared
    BY <1>4 DEF Restart, PinReset, PowerLoss
  <2>2. /\ pc' = "check_update" /\ itcm' = NoImage /\ info' = info
    BY <1>4, <2>1 DEF RamCleared, CutShort
  <2>3. CASE UNCHANGED flash
    BY <1>4, <2>2, <2>3 DEF Unnoticed, JumpCut, InCommit
  <2>4. CASE ~UNCHANGED flash
    <3>1. pc \in InPacket
      BY <2>1, <2>4 DEF CutShort, InPacket
    <3>2. \E i \in Start(target)..End(target) :
            flash' = [flash EXCEPT ![i] = Junk]
      BY <2>1, <2>4, EraseInBank, NextPacket DEF CutShort
    <3>3. Junk \in Cells
      BY DEF Cells
    <3>. QED  BY <2>2, <3>1, <3>2, <3>3 DEF BankWrite, InCommit
  <2>. QED  BY <2>3, <2>4
<1>5. CASE RejectPacket \/ EraseDone
  <2>1. pc \in {"erase", "program"} /\ pc' \in {"main", "xmodem", "program"}
        /\ UNCHANGED <<flash, info, itcm>>
    BY <1>5 DEF RejectPacket, EraseDone, FlashFailed, EndSession, nvm
  <2>. QED  BY <2>1 DEF Unnoticed, InCommit
<1>. QED  BY <1>1, <1>2, <1>3, <1>4, <1>5

\* What a step does to the store.
LEMMA StoreSteps ==
  ASSUME Orderly, LinkInductive, [LinkNext]_linkVars
  PROVE  \/ EndOfTransmission \/ CommitErase \/ CommitWrite \/ CommitCut
         \/ BankWrite \/ Jumps \/ JumpCut \/ Unnoticed
<1>. USE DEF nvm, choice, session, frame, uart, InCommit, InChange, Unnoticed
<1>1. CASE CheckFlag \/ (\E pressed \in BOOLEAN : KeyPoll(pressed))
           \/ SelectBank
  BY <1>1 DEF CheckFlag, KeyPoll, SelectBank
<1>2. CASE DropJunk \/ ReadHeader \/ BeginPacket \/ EndShift
  BY <1>2 DEF DropJunk, ReadHeader, BeginPacket, EndShift
<1>3. CASE FirstPacketTimeout \/ HostCancelled \/ RequestUpdate
  BY <1>3 DEF FirstPacketTimeout, HostCancelled, RequestUpdate, RamCleared,
              EndSession
<1>4. CASE EraseSector \/ EraseDone \/ ProgramPacket \/ RejectPacket
  BY <1>4, SessionSteps
<1>5. CASE JumpAfterCommit \/ CheckAndBoot
  <2>1. Jumps
    BY <1>5 DEF JumpAfterCommit, CheckAndBoot, check_app_crc, Jumps,
                LinkInductive, Inductive, CommitDescribesTarget
  <2>. QED  BY <2>1
<1>6. CASE Mishap
  <2>1. CASE "commit_flash" \in Faults /\ CommitFails
    BY <2>1, CommitCuts
  <2>2. CASE EraseFails \/ ProgramFails
    BY <2>2, SessionSteps
  <2>3. CASE Restart
    BY <2>3, CommitCuts, SessionSteps
  <2>. QED  BY <1>6, <2>1, <2>2, <2>3 DEF Mishap, FlashFault
<1>7. CASE Host
  <2>1. ASSUME NEW b, USART1_IRQHandler(b)
        PROVE  UNCHANGED <<flash, itcm, info, pc, backup>>
    BY <2>1 DEF USART1_IRQHandler
  <2>2. ASSUME NEW b, Deliver(b)
        PROVE  UNCHANGED <<flash, itcm, info, pc, backup>>
    BY <2>1, <2>2 DEF Deliver, vars
  <2>3. UNCHANGED <<flash, itcm, info, pc, backup>>
    BY <1>7, <2>2
       DEF Host, HostStart, HostSend, HostReads, LoseReply, HostTimeout,
           HostCancel, UserTypes, vars
  <2>. QED  BY <2>3
<1>8. CASE UNCHANGED linkVars
  BY <1>8 DEF linkVars, vars
<1>. QED
  BY <1>1, <1>2, <1>3, <1>4, <1>5, <1>6, <1>7, <1>8, NoJumpReturns
     DEF LinkNext, Device

\* The sector that a commit writes names the bank that holds the file.
LEMMA CommitIntact ==
  ASSUME LinkInductive, CommitWrite
  PROVE  Intact' /\ info'.crc = backup.crc
<1>1. /\ pc = "commit_write" /\ info' = backup /\ UNCHANGED <<flash, target>>
  BY DEF CommitWrite, choice
<1>2. ~committed
  BY <1>1, NotCommitted
<1>3. /\ backup.crc = Content(flash, target)
      /\ BootBank(backup.a, backup.b) = target
  BY <1>1, <1>2
     DEF LinkInductive, Inductive, CommitDescribesTarget, InCommit
<1>. QED  BY <1>1, <1>3 DEF Intact, Fallback

\* So what the jump after it starts is what a reset would boot.
JumpIntact == pc = "jump" => Intact

\* It is kept: nothing else leads to the jump, and nothing writes before it.
LEMMA JumpIntactKept ==
  ASSUME Orderly, LinkInductive, JumpIntact, [LinkNext]_linkVars
  PROVE  JumpIntact'
<1>. SUFFICES ASSUME pc' = "jump" PROVE Intact'
  BY DEF JumpIntact
<1>1. CommitWrite \/ Unnoticed
  BY StoreSteps
     DEF EndOfTransmission, CommitErase, CommitCut, BankWrite, InChange, Jumps,
         flash_jump_to_app, JumpCut
<1>2. CASE CommitWrite
  BY <1>2, CommitIntact
<1>3. CASE Unnoticed
  <2>1. pc = "jump" /\ UNCHANGED <<flash, info>>
    BY <1>3 DEF Unnoticed, InChange
  <2>. QED  BY <2>1 DEF JumpIntact, Intact, Fallback
<1>. QED  BY <1>1, <1>2, <1>3

\* The values of the store after a step, in terms of the device.
LEMMA StoreAfter ==
  ASSUME TRUE
  PROVE  /\ pc' # "commit_write" => Installed' = Certified'
         /\ UNCHANGED <<flash, info>> => Certified' = Certified
<1>1. (pc # "commit_write" => Installed = Certified)'
  BY InstalledIs, PTL
<1>2. UNCHANGED <<flash, info>> => Certified' = Certified
  BY DEF Certified
<1>. QED  BY <1>1, <1>2

\* A complete transfer begins to change what is installed.
LEMMA BeginStep ==
  ASSUME LinkInductive, LinkInductive', EndOfTransmission
  PROVE  Store!Begin
<1>1. /\ pc = "dispatch" /\ pc' = "commit_erase"
      /\ UNCHANGED <<flash, info, itcm>>
  BY DEF EndOfTransmission, nvm
<1>2. Installed' = Installed
  BY <1>1, InstalledIs, StoreAfter
<1>3. Phase # "changing" /\ Phase' = "changing"
  BY <1>1 DEF Phase, InCommit
<1>4. Running = NoImage /\ Running' = Running
  BY <1>1, NothingRuns, RunningBoth
<1>. QED  BY <1>2, <1>3, <1>4 DEF Store!Begin

\* The erase of the sector installs the file that was sent.
LEMMA InstallStep ==
  ASSUME LinkInductive, LinkInductive', CommitErase
  PROVE  \E img \in Images : Store!Install(img)
<1>1. /\ pc = "commit_erase" /\ pc' = "commit_write"
      /\ UNCHANGED <<backup, itcm>>
  BY DEF CommitErase
<1>2. backup.crc = Content(flash, target) /\ Content(flash, target) \in Good
  BY <1>1, Finished
     DEF LinkInductive, Inductive, CommitDescribesTarget, InCommit
<1>3. Installed' = ImageOf(backup.crc)
  BY <1>1 DEF Installed
<1>4. Installed' \in Images
  BY <1>2, <1>3, ImageOfGood
<1>5. Phase = "changing" /\ Phase' = "changing"
  BY <1>1 DEF Phase, InCommit
<1>6. Running = NoImage /\ Running' = Running
  BY <1>1, NothingRuns, RunningBoth
<1>7. Store!Install(Installed')
  BY <1>5, <1>6 DEF Store!Install
<1>. QED  BY <1>4, <1>7

\* Writing the sector goes unnoticed: what comes out is the file already.
LEMMA WriteSectorStep ==
  ASSUME LinkInductive, LinkInductive', CommitWrite
  PROVE  UNCHANGED <<Installed, Running, Phase>>
<1>1. /\ pc = "commit_write" /\ pc' = "jump" /\ itcm' = itcm
  BY DEF CommitWrite
<1>2. Intact' /\ info'.crc = backup.crc
  BY CommitIntact
<1>3. Phase = "changing" /\ Phase' = "changing"
  BY <1>1 DEF Phase, InCommit
<1>4. Installed' = Installed
  <2>1. Installed = ImageOf(backup.crc)
    BY <1>1 DEF Installed
  <2>2. (Intact => Certified = ImageOf(info.crc))'
    BY IntactCertifies, PTL
  <2>3. Installed' = ImageOf(info'.crc)
    BY <1>1, <1>2, <2>2, StoreAfter
  <2>. QED  BY <1>2, <2>1, <2>3
<1>. QED  BY <1>1, <1>3, <1>4, RunningBoth

\* A commit that is cut short keeps what was installed or loses it.
LEMMA CutStep ==
  ASSUME LinkInductive, LinkInductive', CommitCut
  PROVE  Store!Cut
<1>1. /\ CommitMayBeCut /\ pc \in InCommit /\ pc' \in {"halt", "check_update"}
      /\ flash' = flash
  BY DEF CommitCut
<1>2. Phase = "changing" /\ Phase' \in {"whole", "torn"}
  BY <1>1 DEF Phase, InCommit
<1>3. Running' = Running
  BY <1>1, RunningBoth DEF LinkInductive, StoreKept, InCommit
<1>4. Installed' = Certified'
  BY <1>1, StoreAfter DEF InCommit
<1>5. CASE info'.crc = NoImage
  <2>1. (TypeOK /\ info.crc = NoImage => Certified = NoImage)'
    BY CertifiesNothing, PTL
  <2>2. Installed' = NoImage
    BY <1>4, <1>5, <2>1 DEF LinkInductive, Inductive
  <2>. QED  BY <1>1, <1>2, <1>3, <2>2 DEF Store!Cut
<1>6. CASE info' = info /\ pc = "commit_erase"
  <2>1. Installed' = Installed
    BY <1>1, <1>4, <1>6, InstalledIs, StoreAfter
  <2>. QED  BY <1>1, <1>2, <1>3, <2>1 DEF Store!Cut
<1>7. CASE info'.crc = backup.crc /\ pc = "commit_write"
  <2>1. backup.crc = Content(flash, target) /\ target \in Banks
    BY <1>1 DEF LinkInductive, Inductive, TypeOK, CommitDescribesTarget
  <2>2. \E bk \in Banks : info'.crc = Content(flash', bk)
    BY <1>1, <1>7, <2>1
  <2>3. Certified' = ImageOf(info'.crc)
    BY <2>2 DEF Certified
  <2>4. Installed = ImageOf(backup.crc)
    BY <1>7 DEF Installed
  <2>5. Installed' = Installed
    BY <1>4, <1>7, <2>3, <2>4
  <2>. QED  BY <1>1, <1>2, <1>3, <2>5 DEF Store!Cut
<1>. QED  BY <1>5, <1>6, <1>7, CutCrc

\* A write of a session touches what is certified only after a commit that was
\* torn.
LEMMA WriteStep ==
  ASSUME LinkInductive, LinkInductive', BankWrite
  PROVE  Store!Overwrite \/ UNCHANGED <<Installed, Running, Phase>>
<1>1. /\ pc \in InPacket /\ pc \notin InChange \cup {"app"}
      /\ pc' \notin InChange \cup {"app"} /\ info' = info
  BY DEF BankWrite, InPacket, InCommit, InChange
<1>2. Running = NoImage /\ Running' = NoImage
  <2>1. (LinkInductive /\ pc # "app" => Running = NoImage)'
    BY NothingRuns, PTL
  <2>. QED  BY <1>1, <2>1, NothingRuns
<1>3. Content(flash', Fallback) = Content(flash, Fallback)
  BY <1>1, NotCommitted, FallbackUntouched
     DEF BankWrite, LinkInductive, InPacket
<1>4. Intact' <=> Intact
  BY <1>1, <1>3 DEF Intact, Fallback
<1>5. Phase' = Phase
  BY <1>1, <1>4 DEF Phase, InChange
<1>6. Installed = Certified /\ Installed' = Certified'
  BY <1>1, InstalledIs, StoreAfter DEF InCommit, InChange
<1>7. CASE info.crc = NoImage
  <2>1. Certified = NoImage
    BY <1>7, CertifiesNothing DEF LinkInductive, Inductive
  <2>2. (TypeOK /\ info.crc = NoImage => Certified = NoImage)'
    BY CertifiesNothing, PTL
  <2>3. Certified' = NoImage
    BY <1>1, <1>7, <2>2 DEF LinkInductive, Inductive
  <2>. QED  BY <1>2, <1>5, <1>6, <2>1, <2>3
<1>8. CASE Intact
  <2>1. (Intact => Certified = ImageOf(info.crc))'
    BY IntactCertifies, PTL
  <2>2. Certified' = ImageOf(info.crc)
    BY <1>1, <1>4, <1>8, <2>1
  <2>. QED  BY <1>2, <1>5, <1>6, <1>8, <2>2, IntactCertifies
<1>9. CASE info.crc # NoImage /\ ~Intact
  <2>1. Phase = "torn"
    BY <1>1, <1>9 DEF Phase, InChange
  <2>2. (LinkInductive => Certified \in Images \cup {NoImage})'
    BY CertifiedIsFile, PTL
  <2>3. Installed' \in Images \cup {NoImage}
    BY <1>6, <2>2
  <2>. QED  BY <1>2, <1>5, <2>1, <2>3 DEF Store!Overwrite
<1>. QED  BY <1>7, <1>8, <1>9

\* A jump starts what is installed; the one after a commit ends the change.
LEMMA StartStep ==
  ASSUME LinkInductive, LinkInductive', JumpIntact, Jumps
  PROVE  Store!Start \/ Store!Finish
<1>1. /\ pc \in {"main", "jump"} /\ pc' = "app" /\ UNCHANGED <<flash, info>>
      /\ itcm' = info.crc /\ info.crc = Content(flash, target)
  BY DEF Jumps, flash_jump_to_app, copy_app_to_itcm, nvm
<1>2. target \in Banks /\ info.crc # NoImage
  BY <1>1, ContentType, NoImageAssumption DEF LinkInductive, Inductive, TypeOK
<1>3. Certified = ImageOf(info.crc)
  BY <1>1, <1>2 DEF Certified
<1>4. Installed = Certified /\ Installed' = Certified
  BY <1>1, InstalledIs, StoreAfter
<1>5. ImageOf(info.crc) # NoImage
  BY <1>2, ImageOfGood DEF LinkInductive, StoreKept
<1>6. Running = NoImage /\ Running' = Installed
  BY <1>1, <1>3, <1>4, NothingRuns, RunningBoth
<1>7. CASE pc = "main"
  <2>1. Phase # "changing" /\ Phase' = Phase
    BY <1>1, <1>7 DEF Phase, InCommit, Intact, Fallback
  <2>. QED  BY <1>3, <1>4, <1>5, <1>6, <2>1 DEF Store!Start
<1>8. CASE pc = "jump"
  <2>1. Intact'
    BY <1>1, <1>8 DEF JumpIntact, Intact, Fallback
  <2>2. Phase = "changing" /\ Phase' = "whole"
    BY <1>1, <1>8, <2>1 DEF Phase, InCommit
  <2>. QED  BY <1>3, <1>4, <1>5, <1>6, <2>2 DEF Store!Finish
<1>. QED  BY <1>1, <1>7, <1>8

\* A reset before that jump ends the change as well: what was installed boots.
LEMMA JumpCutStep ==
  ASSUME LinkInductive, LinkInductive', JumpIntact, JumpCut
  PROVE  Store!Finish
<1>1. /\ pc = "jump" /\ pc' = "check_update" /\ UNCHANGED <<flash, info>>
  BY DEF JumpCut
<1>2. Intact /\ Intact'
  BY <1>1 DEF JumpIntact, Intact, Fallback
<1>3. Phase = "changing" /\ Phase' = "whole"
  BY <1>1, <1>2 DEF Phase, InCommit
<1>4. Installed = ImageOf(info.crc) /\ Installed' = Installed
  BY <1>1, <1>2, InstalledIs, IntactCertifies, StoreAfter
<1>5. info.crc \in Good
  <2>1. info.crc = Content(flash, target) /\ target \in Banks
    BY <1>1 DEF LinkInductive, Inductive, TypeOK, CommitDescribesTarget
  <2>. QED  BY <2>1, ContentType, NoImageAssumption
            DEF LinkInductive, Inductive, TypeOK, StoreKept
<1>6. Running' = NoImage
  <2>1. (LinkInductive /\ pc # "app" => Running = NoImage)'
    BY NothingRuns, PTL
  <2>. QED  BY <1>1, <2>1
<1>. QED  BY <1>3, <1>4, <1>5, <1>6, ImageOfGood DEF Store!Finish

\* Any other step at most stops it.
LEMMA StopStep ==
  ASSUME LinkInductive, LinkInductive', Unnoticed
  PROVE  Store!Stop \/ UNCHANGED <<Installed, Running, Phase>>
<1>1. Installed' = Installed
  <2>1. CASE UNCHANGED <<pc, backup>>
    <3>1. UNCHANGED <<flash, info>>
      BY DEF Unnoticed
    <3>. QED  BY <2>1, <3>1 DEF Installed
  <2>2. CASE {pc, pc'} \cap InChange = {}
    BY <2>2, InstalledIs, StoreAfter DEF Unnoticed, InCommit, InChange
  <2>. QED  BY <2>1, <2>2 DEF Unnoticed
<1>2. Phase' = Phase
  BY DEF Unnoticed, Phase, Intact, Fallback, InChange
<1>3. Running' \in {Running, NoImage}
  BY RunningBoth, ImageOfNoImage DEF Unnoticed
<1>. QED  BY <1>1, <1>2, <1>3 DEF Store!Stop

\* Each step of the link is a step of the store or none.
LEMMA StoreStep ==
  ASSUME Orderly, LinkInductive, LinkInductive', JumpIntact,
         [LinkNext]_linkVars
  PROVE  [Store!Next]_<<Installed, Running, Phase>>
  BY StoreSteps, BeginStep, InstallStep, WriteSectorStep, CutStep, WriteStep,
     StartStep, JumpCutStep, StopStep DEF Store!Next

\* The jump after a commit starts what a reset would boot, always.
LEMMA JumpIntactHolds == Orderly => (LinkSpec => []JumpIntact)
<1>1. LinkInit => JumpIntact
  BY DEF LinkInit, Init, JumpIntact
<1>2. Orderly /\ LinkInductive /\ JumpIntact /\ [LinkNext]_linkVars
        => JumpIntact'
  BY JumpIntactKept
<1>. SUFFICES ASSUME Orderly PROVE LinkSpec => []JumpIntact
  OBVIOUS
<1>. QED  BY <1>1, <1>2, LinkInductiveHolds, PTL DEF LinkSpec

\* Before anything was sent, nothing is installed and nothing runs.
LEMMA StoreInit == LinkInit => Store!Init
<1>. SUFFICES ASSUME LinkInit PROVE Store!Init
  OBVIOUS
<1>1. /\ pc = "check_update" /\ itcm = NoImage /\ info.crc = NoImage
  BY DEF LinkInit, Init, ErasedSector
<1>2. Certified = NoImage
  BY <1>1, LinkInit_Inductive, CertifiesNothing DEF LinkInductive, Inductive
<1>3. Installed = NoImage
  BY <1>1, <1>2, InstalledIs
<1>4. Phase = "whole"
  BY <1>1 DEF Phase, InCommit
<1>. QED  BY <1>1, <1>3, <1>4, ImageOfNoImage DEF Store!Init, Running

\* Device, line and sender implement the firmware store, whatever is damaged,
\* lost, cancelled, cut off or fails: a commit installs the file that was sent,
\* in the one step that erases the old sector; firmware is lost only through a
\* commit that was cut short, so not at all where that cannot happen; and
\* nothing but an installed file ever runs.
THEOREM LinkImplementsStore == Orderly => (LinkSpec => RefinesStore)
<1>. SUFFICES ASSUME Orderly PROVE LinkSpec => RefinesStore
  OBVIOUS
<1>1. LinkInductive /\ LinkInductive' /\ JumpIntact /\ [LinkNext]_linkVars
        => [Store!Next]_<<Installed, Running, Phase>>
  BY StoreStep
<1>. QED  BY <1>1, StoreInit, LinkInductiveHolds, JumpIntactHolds, PTL
          DEF LinkSpec, RefinesStore, Store!Spec

\* What runs is a whole file, and the one that is installed.
RunsInstalled ==
  pc = "app" => ImageOf(itcm) \in Images /\ ImageOf(itcm) = Installed

\* So it is always, also after a commit that left the CRC of one bank beside
\* the counters of the other.
THEOREM WholeFilesRun == Orderly => (LinkSpec => []RunsInstalled)
<1>. SUFFICES ASSUME Orderly PROVE LinkSpec => []RunsInstalled
  OBVIOUS
<1>1. LinkInductive => RunsInstalled
  <2>. SUFFICES ASSUME LinkInductive, pc = "app"
                PROVE  ImageOf(itcm) \in Images /\ ImageOf(itcm) = Installed
    BY DEF RunsInstalled
  <2>1. /\ itcm = Content(flash, target) /\ info.crc = itcm
        /\ target \in Banks
    BY DEF LinkInductive, Inductive, TypeOK, AppIsCertified
  <2>2. itcm # NoImage
    BY <2>1, ContentType, NoImageAssumption
       DEF LinkInductive, Inductive, TypeOK
  <2>3. itcm \in Good
    BY <2>1, <2>2 DEF LinkInductive, StoreKept
  <2>4. Installed = ImageOf(itcm)
    BY <2>1, InstalledIs DEF Certified
  <2>. QED  BY <2>3, <2>4, ImageOfGood
<1>. QED  BY <1>1, LinkInductiveHolds, PTL

\* README, never bricked: that promise is kept by everything but a commit that
\* is cut short.  Once a firmware has run there is always one to boot, through
\* cancelled and damaged transfers, failing erases and writes, and resets and
\* losses of power anywhere outside of the commit.
THEOREM BrickedOnlyByCutCommits ==
  Orderly /\ ~CommitMayBeCut => (LinkSpec => NeverBricked)
<1>. SUFFICES ASSUME Orderly, ~CommitMayBeCut PROVE LinkSpec => NeverBricked
  OBVIOUS
<1>1. LinkInductive => Phase # "torn"
  BY DEF LinkInductive, StoreKept, Phase
<1>2. /\ LinkInductive /\ LinkInductive' /\ JumpIntact /\ [LinkNext]_linkVars
      /\ Installed # NoImage
      => (Installed # NoImage)'
  <2>. SUFFICES ASSUME LinkInductive, LinkInductive', JumpIntact,
                       [LinkNext]_linkVars, Installed # NoImage
                PROVE  Installed' # NoImage
    OBVIOUS
  <2>1. ~Store!Cut /\ ~Store!Overwrite
    BY <1>1 DEF Store!Cut, Store!Overwrite
  <2>2. Installed' \in Images \cup {Installed}
    BY <2>1, StoreStep
       DEF Store!Next, Store!Begin, Store!Install, Store!Finish, Store!Start,
           Store!Stop
  <2>. QED  BY <2>2, ImagesAssumption
<1>3. RunsInstalled => (pc = "app" => Installed # NoImage)
  BY ImagesAssumption DEF RunsInstalled
<1>. QED  BY <1>2, <1>3, WholeFilesRun, LinkInductiveHolds, JumpIntactHolds, PTL
          DEF LinkSpec, NeverBricked
=============================================================================
