-------------------------- MODULE OtaProgressProofs --------------------------
(***************************************************************************)
(* An undisturbed transfer makes progress: without faults, for banks,      *)
(* files and packet numbers of every size, every step of device or sender  *)
(* brings it closer to its end, the new firmware running.  This is the     *)
(* part of TransferCompletes that needs no fairness.                       *)
(***************************************************************************)
EXTENDS OtaLinkProofs

-----------------------------------------------------------------------------
(* Where an undisturbed transfer can be *)

\* The bank is about to take the packet of the sender.
Behind == addr = Start(target) + cur - 1

\* Nothing has been sent but what somebody typed.
Asking ==
  /\ pc = "xmodem" /\ host = "idle" /\ ~first
  /\ rcvFlag => buf.hdr = "junk"

\* The sender's turn.
ToSend == pc = "xmodem" /\ host = "send" /\ ~rcvFlag /\ Behind

\* What the sender sends when nothing damages it.
Whole(b) == b.hdr \in {"SOH", "EOT"} /\ (b.hdr = "SOH" => b.ok)

\* The packet, or the end of transfer, is in the buffer.
Arrived ==
  /\ pc = "xmodem" /\ host = "await" /\ rcvFlag /\ Whole(buf)
  /\ Behind /\ reply = "none"

\* Its header has been read.
Read ==
  /\ pc = "dispatch" /\ host = "await" /\ header = buf.hdr /\ Whole(buf)
  /\ Behind /\ reply = "none"

\* The packet is in process, and the line is silent.
InHand ==
  /\ pc \in InPacket /\ host = "await" /\ pkt.ok /\ ~overrun
  /\ pc # "shift" => ~rcvFlag
  /\ Behind

\* Its acknowledgement is on the line.
Answered ==
  /\ pc = "xmodem" /\ host = "await" /\ ~rcvFlag /\ reply = "ACK"
  /\ cur <= Len(file)

\* The end of transfer is being handled.
Storing ==
  /\ pc \in InCommit \cup {"jump"}
  /\ host = "idle" \/ (host = "await" /\ reply = "ACK")

Undisturbed ==
  pc \in InUpdate =>
    Asking \/ ToSend \/ Arrived \/ Read \/ InHand \/ Answered \/ Storing

-----------------------------------------------------------------------------
(* The steps there are without faults *)

Sender ==
  \/ (\E img \in Images : HostStart(img))
  \/ HostSend \/ HostReads \/ HostTimeout \/ UserTypes

\* The steps of a session, by the place of the device.
SessionStep ==
  \/ pc = "xmodem" /\ (DropJunk \/ ReadHeader \/ FirstPacketTimeout)
  \/ pc = "dispatch" /\ (HostCancelled \/ BeginPacket \/ EndOfTransmission)
  \/ pc = "shift" /\ EndShift
  \/ pc = "erase" /\ (EraseSector \/ EraseDone)
  \/ pc = "program" /\ (ProgramPacket \/ RejectPacket)
  \/ pc = "commit_erase" /\ CommitErase
  \/ pc = "commit_write" /\ CommitWrite
  \/ pc = "jump" /\ (JumpAfterCommit \/ JumpReturns)

\* Nothing else happens in a session.
LEMMA UndisturbedSteps ==
  ASSUME Faults = {}, LinkNext, pc \in InUpdate
  PROVE  Sender \/ (SessionStep /\ HostSeesReset)
<1>1. CASE Host
  BY <1>1 DEF Host, Sender, LoseReply, HostCancel
<1>2. CASE Mishap
  BY <1>2 DEF Mishap, FlashFault, Restart
<1>3. CASE RequestUpdate /\ HostSeesReset
  BY <1>3 DEF RequestUpdate, InUpdate, InPacket, InCommit
<1>4. CASE Device
  <2>1. HostSeesReset
    BY <1>4 DEF Device
  <2>2. CASE CheckFlag \/ (\E pressed \in BOOLEAN : KeyPoll(pressed))
             \/ SelectBank \/ CheckAndBoot
    BY <2>2 DEF CheckFlag, KeyPoll, SelectBank, CheckAndBoot, InUpdate,
                InPacket, InCommit
  <2>3. CASE DropJunk \/ ReadHeader \/ FirstPacketTimeout
    BY <2>1, <2>3 DEF DropJunk, ReadHeader, FirstPacketTimeout, SessionStep
  <2>4. CASE HostCancelled \/ BeginPacket \/ EndOfTransmission
    BY <2>1, <2>4 DEF HostCancelled, BeginPacket, EndOfTransmission, SessionStep
  <2>5. CASE EndShift \/ EraseSector \/ EraseDone
    BY <2>1, <2>5 DEF EndShift, EraseSector, EraseDone, SessionStep
  <2>6. CASE ProgramPacket \/ RejectPacket
    BY <2>1, <2>6 DEF ProgramPacket, RejectPacket, SessionStep
  <2>7. CASE CommitErase \/ CommitWrite \/ JumpAfterCommit \/ JumpReturns
    BY <2>1, <2>7
       DEF CommitErase, CommitWrite, JumpAfterCommit, JumpReturns, SessionStep
  <2>. QED  BY <1>4, <2>2, <2>3, <2>4, <2>5, <2>6, <2>7 DEF Device
<1>. QED  BY <1>1, <1>2, <1>3, <1>4 DEF LinkNext

\* What comes over the line leaves everything but the buffer.
LEMMA Delivered ==
  ASSUME LinkInductive, NEW b, Deliver(b), pc \in InUpdate
  PROVE  /\ rcvFlag' /\ buf'.hdr = b.hdr /\ (b.hdr \notin Control => buf' = b)
         /\ UNCHANGED <<flash, pc, target, first, addr, header, pkt, reply>>
<1>1. USART1_IRQHandler(b)
  BY DEF Deliver, InUpdate, InPacket, InCommit
<1>2. buf \in BatchSet
  BY DEF LinkInductive, Inductive, TypeOK
<1>3. [buf EXCEPT !.hdr = b.hdr].hdr = b.hdr
  BY <1>2 DEF BatchSet
<1>. QED  BY <1>1, <1>3 DEF USART1_IRQHandler, nvm, choice, session, frame

\* The sender's steps leave the device where it is.
LEMMA SenderStays == Sender => pc' = pc
<1>1. \A b : Deliver(b) => pc' = pc
  BY DEF Deliver, USART1_IRQHandler, vars
<1>. QED  BY <1>1 DEF Sender, HostStart, HostSend, HostReads, HostTimeout,
                      UserTypes, vars

\* A session begins with a silent sender.
LEMMA EnterStep ==
  ASSUME Faults = {}, LinkInductive, LinkNext, pc \notin InUpdate
  PROVE  Undisturbed' /\ ~first
<1>1. ~first
  BY DEF LinkInductive, SessionKept
<1>2. ASSUME pc' \in InUpdate PROVE Undisturbed'
  <2>1. ~Host
    <3>1. Host => Sender
      BY DEF Host, Sender, LoseReply, HostCancel
    <3>. QED  BY <1>2, <3>1, SenderStays
  <2>2. HostSeesReset /\ Next
    BY <2>1, DeviceSteps DEF LinkNext, Device, Mishap
  <2>3. SelectBank
    <3>1. pc' # "check_update" /\ pc' # "key_wait" /\ pc' # "main"
          /\ pc' # "app"
      BY <1>2 DEF InUpdate, InPacket, InCommit
    <3>2. ~Mishap /\ ~RequestUpdate
      BY <3>1
         DEF Mishap, FlashFault, Restart, RequestUpdate, RamCleared
    <3>3. Device
      BY <2>1, <3>2 DEF LinkNext
    <3>4. ~(CheckFlag \/ (\E pressed \in BOOLEAN : KeyPoll(pressed))
            \/ CheckAndBoot)
      BY <1>2, <3>1 DEF CheckFlag, KeyPoll, CheckAndBoot, flash_jump_to_app
    <3>5. pc \notin {"xmodem", "dispatch", "shift", "erase", "program",
                     "commit_erase", "commit_write", "jump"}
      BY DEF InUpdate, InPacket, InCommit
    <3>. QED  BY <3>3, <3>4, <3>5
              DEF Device, DropJunk, ReadHeader, FirstPacketTimeout,
                  HostCancelled, BeginPacket, EndShift, EraseSector, EraseDone,
                  ProgramPacket, RejectPacket, EndOfTransmission, CommitErase,
                  CommitWrite, JumpAfterCommit, JumpReturns
  <2>4. /\ pc = "key_wait" /\ pc' = "xmodem"
        /\ UNCHANGED <<first, rcvFlag, buf>>
    BY <1>2, <2>3
       DEF SelectBank, uart, InUpdate, InPacket, InCommit
  <2>5. host' = host
    BY <2>2, <2>4, HostStays
  <2>6. host = "idle" /\ buf.hdr = "junk"
    BY <2>4 DEF LinkInductive, HostKept
  <2>7. Asking'
    BY <1>1, <2>4, <2>5, <2>6 DEF Asking
  <2>. QED  BY <2>7 DEF Undisturbed
<1>. QED  BY <1>1, <1>2 DEF Undisturbed

-----------------------------------------------------------------------------
(* The work that is left *)

Advance == \/ first' /\ WorkLeft' < WorkLeft
           \/ pc' = "app" /\ ImageOf(itcm') = file

\* How far device and sender are, by the place of the device.
StageTable ==
  /\ pc = "xmodem" /\ host = "send" => Stage = 6
  /\ pc = "xmodem" /\ host # "send" /\ rcvFlag => Stage = 5
  /\ pc = "xmodem" /\ host # "send" /\ ~rcvFlag => Stage = 1
  /\ pc = "dispatch" => Stage = 4
  /\ pc \in {"shift", "commit_erase"} => Stage = 3
  /\ pc \in {"program", "commit_write"} => Stage = 2
  /\ pc = "jump" => Stage = 1

LEMMA StageIs == StageTable
  BY DEF Stage, StageTable

LEMMA StageNext == StageTable'
  BY StageIs, PTL

\* A number of steps remains to an unfinished transfer.
LEMMA WorkIsNumber ==
  ASSUME LinkInductive, first
  PROVE  WorkLeft \in Nat /\ Stage \in Nat
<1>1. Stage \in Nat
  <2>1. pc \in InUpdate /\ pc # "erase"
    BY DEF LinkInductive, SessionKept
  <2>. QED  BY <2>1, StageIs DEF StageTable, InUpdate, InPacket, InCommit
<1>2. Len(file) + 1 - cur \in Nat
  <2>1. CASE file = <<>> /\ cur = 0
    BY <2>1
  <2>2. CASE file \in Images /\ cur \in 1..(Len(file) + 1)
    BY <2>2, FileType
  <2>. QED  BY <2>1, <2>2 DEF LinkInductive, HostKept
<1>3. \A n, m \in Nat : 6 * n + m + 0 \in Nat /\ 6 * n + m + 1 \in Nat
  OBVIOUS
<1>. QED  BY <1>1, <1>2, <1>3 DEF WorkLeft

\* The next stage of the same packet.
LEMMA NextStage ==
  ASSUME LinkInductive, LinkInductive', first, first',
         UNCHANGED <<file, cur>>, host # "idle", Stage' < Stage
  PROVE  WorkLeft' < WorkLeft
<1>1. Stage \in Nat
  BY WorkIsNumber
<1>2. Stage' \in Nat
  <2>1. (LinkInductive /\ first => Stage \in Nat)'
    BY WorkIsNumber, PTL
  <2>. QED  BY <2>1
<1>3. 6 * (Len(file) + 1 - cur) \in Int
  BY Numbers
<1>4. \A n \in Int, a, b \in Nat :
        a < b => n + a + 0 < n + b + 1 /\ n + a + 1 < n + b + 1
  OBVIOUS
<1>. QED  BY <1>1, <1>2, <1>3, <1>4 DEF WorkLeft

-----------------------------------------------------------------------------
(* One step from each of the places *)

\* Until the sender has a file, nothing but typed bytes comes and goes.
LEMMA AskingStep ==
  ASSUME Faults = {}, LinkInductive, LinkNext, Asking
  PROVE  Undisturbed' /\ ~first
<1>1. /\ pc = "xmodem" /\ pc \in InUpdate /\ host = "idle" /\ ~first
      /\ rcvFlag => buf.hdr = "junk"
  BY DEF Asking, InUpdate
<1>2. CASE Sender
  <2>1. ASSUME NEW img \in Images, HostStart(img) PROVE ToSend'
    <3>1. /\ host' = "send" /\ cur' = 1 /\ ~rcvFlag
          /\ UNCHANGED <<pc, rcvFlag, addr, target>>
      BY <2>1 DEF HostStart, vars
    <3>2. addr = Start(target)
      BY <1>1 DEF LinkInductive, SessionKept
    <3>3. addr = Start(target) + 1 - 1
      BY <3>2, Numbers
    <3>. QED  BY <1>1, <3>1, <3>3 DEF ToSend, Behind
  <2>2. CASE UserTypes
    <3>1. Deliver(Byte("junk")) /\ host' = host
      BY <2>2 DEF UserTypes
    <3>2. Byte("junk").hdr = "junk"
      BY DEF Byte
    <3>. QED  BY <1>1, <3>1, <3>2, Delivered DEF Asking, Undisturbed
  <2>. QED  BY <1>1, <1>2, <2>1, <2>2
            DEF Sender, HostSend, HostReads, HostTimeout, Undisturbed
<1>3. CASE SessionStep /\ HostSeesReset
  <2>1. DropJunk \/ FirstPacketTimeout
    BY <1>1, <1>3 DEF SessionStep, ReadHeader
  <2>2. CASE DropJunk
    <3>1. pc' = pc /\ ~rcvFlag' /\ first' = first
      BY <2>2 DEF DropJunk, session
    <3>2. host' = host
      BY <1>1, <1>3, <3>1, HostStays
    <3>. QED  BY <1>1, <3>1, <3>2 DEF Asking, Undisturbed
  <2>3. CASE FirstPacketTimeout
    BY <1>1, <2>3 DEF FirstPacketTimeout, RamCleared, Undisturbed, InUpdate,
                      InPacket, InCommit
  <2>. QED  BY <2>1, <2>2, <2>3
<1>. QED  BY <1>1, <1>2, <1>3, UndisturbedSteps

\* The packet, or the end of transfer, arrives undamaged.
LEMMA ToSendStep ==
  ASSUME Faults = {}, LinkInductive, LinkInductive', LinkNext, ToSend
  PROVE  Undisturbed' /\ (first => Advance)
<1>1. /\ pc = "xmodem" /\ pc \in InUpdate /\ host = "send" /\ ~rcvFlag
      /\ Behind /\ reply = "none"
  BY DEF ToSend, InUpdate, LinkInductive, HostKept
<1>2. CASE Sender
  <2>. DEFINE sent == IF cur <= Len(file) THEN Packet(cur) ELSE Byte("EOT")
  <2>1. HostSend
    BY <1>1, <1>2 DEF Sender, HostStart, HostReads, HostTimeout, UserTypes
  <2>2. Deliver(sent) /\ host' = "await" /\ UNCHANGED <<file, cur>>
    BY <2>1 DEF HostSend
  <2>3. Whole(sent) /\ (sent.hdr \in Control => sent.hdr = "EOT")
    BY DEF Whole, Packet, Byte, Control
  <2>4. /\ rcvFlag' /\ Whole(buf')
        /\ UNCHANGED <<pc, target, first, addr, reply>>
    <3>1. sent.hdr \in {"SOH", "EOT"}
      BY <2>3 DEF Whole
    <3>. HIDE DEF sent
    <3>2. /\ rcvFlag' /\ buf'.hdr = sent.hdr
          /\ sent.hdr \notin Control => buf' = sent
          /\ UNCHANGED <<pc, target, first, addr, reply>>
      BY <1>1, <2>2, Delivered
    <3>3. sent.hdr = "SOH" => buf' = sent
      BY <3>2 DEF Control
    <3>. QED  BY <2>3, <3>1, <3>2, <3>3 DEF Whole
  <2>5. Arrived'
    BY <1>1, <2>2, <2>4 DEF Arrived, Behind, Whole
  <2>6. Stage' < Stage
    <3>1. Stage = 6 /\ Stage' = 5
      BY <1>1, <2>2, <2>4, StageIs, StageNext DEF StageTable
    <3>. QED  BY <3>1
  <2>7. first => Advance
    BY <1>1, <2>2, <2>4, <2>6, NextStage DEF Advance
  <2>. QED  BY <2>5, <2>7 DEF Undisturbed
<1>3. CASE SessionStep
  <2>1. FirstPacketTimeout
    BY <1>1, <1>3 DEF SessionStep, DropJunk, ReadHeader
  <2>. QED  BY <2>1 DEF FirstPacketTimeout, RamCleared, Undisturbed, InUpdate,
                        InPacket, InCommit
<1>. QED  BY <1>1, <1>2, <1>3, UndisturbedSteps

\* The device reads its header; the sender waits for longer.
LEMMA ArrivedStep ==
  ASSUME Faults = {}, LinkInductive, LinkInductive', LinkNext, Arrived
  PROVE  Undisturbed' /\ (first => Advance)
<1>1. /\ pc = "xmodem" /\ pc \in InUpdate /\ host = "await" /\ rcvFlag
      /\ Whole(buf) /\ buf.hdr # "junk" /\ Behind /\ reply = "none"
  BY DEF Arrived, InUpdate, Whole
<1>2. ~Sender
  BY <1>1 DEF Sender, HostStart, HostSend, HostReads, HostTimeout, UserTypes
<1>3. HostSeesReset /\ ReadHeader
  BY <1>1, <1>2, UndisturbedSteps
     DEF SessionStep, DropJunk, FirstPacketTimeout
<1>4. /\ header' = buf.hdr /\ pc' = "dispatch"
      /\ UNCHANGED <<first, addr, target, buf, reply>>
  BY <1>3 DEF ReadHeader, session, choice, uart
<1>5. UNCHANGED <<host, file, cur>>
  BY <1>3, <1>4, HostStays
<1>6. Read'
  BY <1>1, <1>4, <1>5 DEF Read, Behind, Whole
<1>7. Stage' < Stage
  <2>1. Stage = 5 /\ Stage' = 4
    BY <1>1, <1>4, StageIs, StageNext DEF StageTable
  <2>. QED  BY <2>1
<1>. QED  BY <1>1, <1>4, <1>5, <1>6, <1>7, NextStage DEF Advance, Undisturbed

\* A packet is taken out of the buffer, an end of transfer begins the commit.
LEMMA ReadStep ==
  ASSUME Faults = {}, LinkInductive, LinkInductive', LinkNext, Read
  PROVE  Undisturbed' /\ (first => Advance)
<1>1. /\ pc = "dispatch" /\ pc \in InUpdate /\ host = "await"
      /\ header = buf.hdr /\ Whole(buf) /\ Behind /\ reply = "none"
  BY DEF Read, InUpdate
<1>2. ~Sender
  BY <1>1 DEF Sender, HostStart, HostSend, HostReads, HostTimeout, UserTypes
<1>3. HostSeesReset /\ (BeginPacket \/ EndOfTransmission)
  BY <1>1, <1>2, UndisturbedSteps DEF SessionStep, HostCancelled, Whole
<1>4. /\ pc' \in {"shift", "commit_erase"}
      /\ UNCHANGED <<first, addr, target>>
  BY <1>3 DEF BeginPacket, EndOfTransmission, session, choice
<1>5. UNCHANGED <<host, file, cur>>
  BY <1>3, <1>4, HostStays
<1>6. InHand' \/ Storing'
  <2>1. CASE BeginPacket
    <3>1. header = "SOH" /\ pkt' = buf /\ ~overrun' /\ pc' = "shift"
      BY <1>1, <2>1 DEF BeginPacket, Whole
    <3>. QED  BY <1>1, <1>4, <1>5, <3>1 DEF InHand, InPacket, Whole, Behind
  <2>2. CASE EndOfTransmission
    BY <1>1, <1>5, <2>2 DEF EndOfTransmission, Storing, InCommit
  <2>. QED  BY <1>3, <2>1, <2>2
<1>7. Stage' < Stage
  <2>1. Stage = 4 /\ Stage' = 3
    BY <1>1, <1>4, StageIs, StageNext DEF StageTable
  <2>. QED  BY <2>1
<1>. QED  BY <1>1, <1>4, <1>5, <1>6, <1>7, NextStage DEF Advance, Undisturbed

\* A packet that is in step is accepted.
LEMMA InStepAccepted ==
  ASSUME LinkInductive, pc = "program", InHand
  PROVE  Acceptable
<1>1. pkt.num = cur % PktMod
  BY InProcess DEF InPacket, Matches
<1>2. addr - Start(target) + 1 = cur
  BY Numbers DEF InHand, Behind
<1>. QED  BY <1>1, <1>2 DEF InHand, Acceptable, PacketNumber

\* Shift, erase and programming of a packet end with its acknowledgement.
LEMMA InHandStep ==
  ASSUME Faults = {}, LinkInductive, LinkInductive', LinkNext, InHand
  PROVE  Undisturbed' /\ (first => Advance)
<1>. USE DEF choice, session
<1>1. /\ pc \in InPacket /\ pc \in InUpdate /\ host = "await" /\ pkt.ok
      /\ ~overrun /\ (pc # "shift" => ~rcvFlag) /\ Behind
  BY DEF InHand, InUpdate
<1>2. /\ header = "SOH" /\ reply = "none" /\ cur \in 1..Len(file)
      /\ pc = "erase" => ~first
  BY <1>1, InProcess
<1>3. ~Sender
  BY <1>1, <1>2
     DEF Sender, HostStart, HostSend, HostReads, HostTimeout, UserTypes,
         InPacket
<1>4. HostSeesReset /\ SessionStep
  BY <1>1, <1>3, UndisturbedSteps
<1>5. CASE EndShift
  <2>1. /\ pc = "shift" /\ ~rcvFlag' /\ ~overrun' /\ pkt'.ok
        /\ pc' = (IF first THEN "program" ELSE "erase")
        /\ UNCHANGED <<first, addr, target>>
    <3>1. pkt \in BatchSet
      BY DEF LinkInductive, Inductive, TypeOK
    <3>. QED  BY <1>1, <1>2, <1>5, <3>1 DEF EndShift, BatchSet
  <2>2. UNCHANGED <<host, file, cur>>
    BY <1>4, <2>1, HostStays
  <2>3. InHand'
    BY <1>1, <2>1, <2>2 DEF InHand, InPacket, Behind
  <2>4. first => Stage' < Stage
    <3>1. first => Stage = 3 /\ Stage' = 2
      BY <2>1, StageIs, StageNext DEF StageTable
    <3>. QED  BY <3>1
  <2>. QED  BY <1>1, <2>1, <2>2, <2>3, <2>4, NextStage DEF Advance, Undisturbed
<1>6. CASE EraseSector \/ EraseDone
  <2>1. /\ ~first /\ pc' \in {"erase", "program"}
        /\ UNCHANGED <<addr, target, pkt, rcvFlag, overrun>>
        /\ pc = "erase"
    BY <1>2, <1>6 DEF EraseSector, EraseDone, uart
  <2>2. UNCHANGED <<host, file, cur>>
    BY <1>4, <2>1, HostStays
  <2>3. InHand'
    BY <1>1, <2>1, <2>2 DEF InHand, InPacket, Behind
  <2>. QED  BY <2>1, <2>3 DEF Undisturbed
<1>7. CASE ProgramPacket
  <2>1. /\ pc = "program" /\ pc' = "xmodem" /\ reply' = "ACK"
        /\ UNCHANGED <<first, rcvFlag>>
    BY <1>7 DEF ProgramPacket
  <2>2. UNCHANGED <<host, file, cur>>
    BY <1>4, <2>1, HostStays
  <2>3. Answered'
    BY <1>1, <1>2, <2>1, <2>2 DEF Answered
  <2>4. Stage' < Stage
    <3>1. Stage = 2 /\ Stage' = 1
      BY <1>1, <2>1, <2>2, StageIs, StageNext DEF StageTable
    <3>. QED  BY <3>1
  <2>. QED  BY <1>1, <2>1, <2>2, <2>3, <2>4, NextStage DEF Advance, Undisturbed
<1>8. ~RejectPacket
  BY InStepAccepted DEF RejectPacket
<1>. QED  BY <1>1, <1>4, <1>5, <1>6, <1>7, <1>8 DEF SessionStep, InPacket

\* The sender goes on to the next packet.
LEMMA AnsweredStep ==
  ASSUME Faults = {}, LinkInductive, LinkInductive', LinkNext, Answered
  PROVE  Undisturbed' /\ (first => Advance)
<1>1. /\ pc = "xmodem" /\ pc \in InUpdate /\ host = "await" /\ ~rcvFlag
      /\ reply = "ACK" /\ cur <= Len(file)
  BY DEF Answered, InUpdate
<1>2. first
  BY <1>1 DEF LinkInductive, SessionKept
<1>3. HostReads
  <2>1. ~SessionStep
    BY <1>1, <1>2 DEF SessionStep, DropJunk, ReadHeader, FirstPacketTimeout
  <2>. QED  BY <1>1, <2>1, UndisturbedSteps
            DEF Sender, HostStart, HostSend, HostTimeout, UserTypes
<1>4. /\ host' = "send" /\ cur' = cur + 1
      /\ UNCHANGED <<file, pc, first, addr, target, rcvFlag>>
  BY <1>1, <1>3, Numbers DEF HostReads, choice, session, uart
<1>5. addr = Start(target) + cur
  <2>1. ~(cur > Len(file))
    BY <1>1, Numbers
  <2>. QED  BY <1>1, <2>1 DEF LinkInductive, AnswerKept
<1>6. ToSend'
  <2>1. addr = Start(target) + (cur + 1) - 1
    BY <1>5, Numbers
  <2>. QED  BY <1>1, <1>4, <2>1 DEF ToSend, Behind
<1>7. WorkLeft' < WorkLeft
  <2>1. Stage = 1 /\ Stage' = 6
    BY <1>1, <1>4, StageIs, StageNext DEF StageTable
  <2>2. WorkLeft = 6 * (Len(file) + 1 - cur) + 1 + 1
    BY <1>1, <2>1 DEF WorkLeft
  <2>3. WorkLeft' = 6 * (Len(file) + 1 - (cur + 1)) + 6 + 1
    BY <1>4, <2>1 DEF WorkLeft
  <2>4. \A l, c \in Nat : 6 * (l + 1 - (c + 1)) + 6 + 1 < 6 * (l + 1 - c) + 1 + 1
    OBVIOUS
  <2>. QED  BY <2>2, <2>3, <2>4, Numbers
<1>. QED  BY <1>2, <1>4, <1>6, <1>7 DEF Advance, Undisturbed

\* A padded file is the file of no other bank, and of no other image.
LEMMA PaddedOnce ==
  ASSUME NEW b1 \in Banks, NEW b2 \in Banks, NEW f1 \in Images,
         NEW f2 \in Images, Padded(b1, f1) = Padded(b2, f2)
  PROVE  f1 = f2
<1>1. /\ Len(f1) \in 1..CapA /\ Len(f2) \in 1..CapA /\ CapA <= CapB
      /\ f1 \in Seq(Data) /\ f2 \in Seq(Data)
      /\ \A k \in 1..Len(f1) : f1[k] \in Data
      /\ \A k \in 1..Len(f2) : f2[k] \in Data
  BY FileType, ImagesAssumption
<1>2. b1 = b2
  <2>1. Start(b1)..End(b1) = Start(b2)..End(b2)
    <3>1. DOMAIN Padded(b1, f1) = Start(b1)..End(b1)
      BY DEF Padded
    <3>2. DOMAIN Padded(b2, f2) = Start(b2)..End(b2)
      BY DEF Padded
    <3>. QED  BY <3>1, <3>2
  <2>2. /\ Start("A")..End("A") = 1..CapA
        /\ Start("B")..End("B") = (CapA + 1)..(CapA + CapB)
    BY DEF Start, End
  <2>3. 1..CapA # (CapA + 1)..(CapA + CapB)
    <3>1. 1 \in 1..CapA /\ 1 \notin (CapA + 1)..(CapA + CapB)
      BY GeometryAssumption
    <3>. QED  BY <3>1, Zenon
  <2>4. Start("A")..End("A") # Start("B")..End("B")
    BY <2>2, <2>3, Zenon
  <2>5. b1 \in {"A", "B"} /\ b2 \in {"A", "B"}
    BY DEF Banks
  <2>6. ~(b1 = "A" /\ b2 = "B")
    <3>. SUFFICES ASSUME b1 = "A", b2 = "B" PROVE FALSE
      OBVIOUS
    <3>. QED  BY <2>1, <2>4, Zenon
  <2>7. ~(b1 = "B" /\ b2 = "A")
    <3>. SUFFICES ASSUME b1 = "B", b2 = "A" PROVE FALSE
      OBVIOUS
    <3>. QED  BY <2>1, <2>4, Zenon
  <2>. QED  BY <2>5, <2>6, <2>7
<1>. DEFINE s == Start(b1)
<1>3. /\ s \in Nat /\ End(b1) \in Nat
      /\ Len(f1) <= End(b1) - s + 1 /\ Len(f2) <= End(b1) - s + 1
  BY <1>1, GeometryAssumption DEF Start, End, Banks
<1>4. ASSUME NEW f \in {f1, f2}, NEW k \in 1..CapA, s + k - 1 \in s..End(b1)
      PROVE  Padded(b1, f)[s + k - 1] =
               IF k <= Len(f) THEN f[k] ELSE Blank
  <2>1. PICK i \in Start(b1)..End(b1) : i = s + k - 1
    BY <1>4
  <2>2. (i - Start(b1) < Len(f) <=> k <= Len(f)) /\ i - Start(b1) + 1 = k
    BY <1>1, <1>3, <2>1, GeometryAssumption
  <2>3. Padded(b1, f)[i] = IF i - Start(b1) < Len(f)
                           THEN f[i - Start(b1) + 1] ELSE Blank
    BY DEF Padded
  <2>4. Padded(b1, f)[i] = IF k <= Len(f) THEN f[k] ELSE Blank
    BY <2>2, <2>3, Zenon
  <2>. QED  BY <2>1, <2>4, Zenon
<1>. HIDE DEF s
<1>5. ASSUME NEW k \in 1..CapA, k <= Len(f1) \/ k <= Len(f2)
      PROVE  k <= Len(f1) /\ k <= Len(f2) /\ f1[k] = f2[k]
  <2>1. s + k - 1 \in s..End(b1)
    BY <1>1, <1>3, <1>5, GeometryAssumption
  <2>2. (IF k <= Len(f1) THEN f1[k] ELSE Blank)
          = (IF k <= Len(f2) THEN f2[k] ELSE Blank)
    <3>1. Padded(b1, f1)[s + k - 1] = IF k <= Len(f1) THEN f1[k] ELSE Blank
      BY <1>4, <2>1
    <3>2. Padded(b1, f2)[s + k - 1] = IF k <= Len(f2) THEN f2[k] ELSE Blank
      BY <1>4, <2>1
    <3>. QED  BY <1>2, <3>1, <3>2
  <2>3. Blank \notin Data
    BY CellsAssumption
  <2>4. /\ k <= Len(f1) => f1[k] \in Data
        /\ k <= Len(f2) => f2[k] \in Data
    BY <1>1, <1>5, GeometryAssumption
  <2>. QED  BY <1>5, <2>2, <2>3, <2>4
<1>6. Len(f1) = Len(f2)
  <2>1. Len(f1) <= Len(f2) /\ Len(f2) <= Len(f1)
    BY <1>1, <1>5
  <2>. QED  BY <1>1, <2>1
<1>7. \A k \in 1..Len(f1) : f1[k] = f2[k]
  BY <1>1, <1>5, GeometryAssumption
<1>. QED  BY <1>1, <1>6, <1>7

\* So the file can be told from the content of the bank.
LEMMA ImageOfPadded ==
  ASSUME NEW bk \in Banks, NEW im \in Images
  PROVE  ImageOf(Padded(bk, im)) = im
<1>. DEFINE c == Padded(bk, im)
<1>. DEFINE Fits(b, img) == Len(img) <= End(b) - Start(b) + 1
<1>. DEFINE Found == {img \in Images :
                 \E b \in Banks : Fits(b, img) /\ c = Padded(b, img)}
<1>1. Fits(bk, im)
  <2>1. Len(im) \in 1..CapA /\ CapA <= CapB
    BY ImagesAssumption
  <2>. QED  BY <2>1, GeometryAssumption DEF Start, End, Banks
<1>2. im \in Found
  BY <1>1
<1>3. (CHOOSE img \in Found : TRUE) \in Found
  BY <1>2
<1>4. \A img \in Found : img = im
  BY PaddedOnce
<1>5. ImageOf(c) = CHOOSE img \in Found : TRUE
  BY <1>2 DEF ImageOf
<1>. QED  BY <1>3, <1>4, <1>5

\* The commit ends with the jump to the new firmware.
LEMMA StoringStep ==
  ASSUME Orderly, Faults = {}, LinkInductive, LinkInductive', LinkNext, Storing
  PROVE  Undisturbed' /\ (first => Advance)
<1>. USE DEF choice, session
<1>1. /\ pc \in InCommit \cup {"jump"} /\ pc \in InUpdate
      /\ pc \notin {"xmodem", "key_wait"}
      /\ host = "idle" \/ (host = "await" /\ reply = "ACK")
  BY DEF Storing, InUpdate, InCommit
<1>2. /\ first /\ Stored /\ cur > Len(file) /\ file \in Images
  BY <1>1, Finished
<1>3. CASE Sender
  <2>1. HostReads
    BY <1>1, <1>3 DEF Sender, HostStart, HostSend, HostTimeout, UserTypes
  <2>2. host = "await" /\ reply = "ACK" /\ ~(cur <= Len(file))
    BY <1>1, <1>2, <2>1, Numbers DEF HostReads
  <2>3. host' = "idle" /\ UNCHANGED <<cur, file, pc, first>>
    BY <2>1, <2>2 DEF HostReads
  <2>4. Stage' = Stage
    BY <1>1, <2>3, StageIs, StageNext DEF StageTable, InCommit
  <2>5. WorkLeft' < WorkLeft
    <3>1. Stage \in Nat /\ 6 * (Len(file) + 1 - cur) \in Int
      BY <1>2, WorkIsNumber, Numbers
    <3>2. /\ WorkLeft = 6 * (Len(file) + 1 - cur) + Stage + 1
          /\ WorkLeft' = 6 * (Len(file) + 1 - cur) + Stage + 0
      BY <2>2, <2>3, <2>4 DEF WorkLeft
    <3>3. \A n \in Int, a \in Nat : n + a + 0 < n + a + 1
      OBVIOUS
    <3>. QED  BY <3>1, <3>2, <3>3
  <2>6. Storing'
    BY <1>1, <2>3 DEF Storing
  <2>. QED  BY <1>2, <2>3, <2>5, <2>6 DEF Advance, Undisturbed
<1>4. CASE SessionStep /\ HostSeesReset
  <2>1. CASE CommitErase \/ CommitWrite
    <3>1. /\ \/ pc = "commit_erase" /\ pc' = "commit_write"
             \/ pc = "commit_write" /\ pc' = "jump"
          /\ UNCHANGED <<first, reply>>
      BY <2>1 DEF CommitErase, CommitWrite
    <3>2. UNCHANGED <<host, file, cur>>
      BY <1>4, <3>1, HostStays
    <3>3. Storing'
      BY <1>1, <3>1, <3>2 DEF Storing, InCommit
    <3>4. Stage' < Stage
      <4>1. Stage \in {2, 3} /\ Stage' = Stage - 1
        BY <3>1, StageIs, StageNext DEF StageTable
      <4>. QED  BY <4>1
    <3>5. WorkLeft' < WorkLeft
      <4>1. Stage \in Nat /\ 6 * (Len(file) + 1 - cur) \in Int
        BY <1>2, WorkIsNumber, Numbers
      <4>2. Stage' \in Nat
        BY <3>1, StageNext DEF StageTable
      <4>3. \A n \in Int, a, b \in Nat :
              a < b => n + a + 0 < n + b + 0 /\ n + a + 1 < n + b + 1
        OBVIOUS
      <4>. QED  BY <3>2, <3>4, <4>1, <4>2, <4>3 DEF WorkLeft
    <3>. QED  BY <1>2, <3>1, <3>3, <3>5 DEF Advance, Undisturbed
  <2>2. CASE JumpAfterCommit
    <3>1. pc' = "app" /\ itcm' = Content(flash, target) /\ target \in Banks
      BY <2>2, Numbers DEF JumpAfterCommit, flash_jump_to_app, copy_app_to_itcm
    <3>2. itcm' = Padded(target, file)
      BY <1>2, <3>1, WholeFile
    <3>3. ImageOf(itcm') = file
      BY <1>2, <3>1, <3>2, ImageOfPadded
    <3>. QED  BY <3>1, <3>3 DEF Advance, Undisturbed, InUpdate, InPacket,
                                InCommit
  <2>. QED  BY <1>1, <1>4, <2>1, <2>2, NoJumpReturns
            DEF SessionStep, InCommit
<1>. QED  BY <1>1, <1>3, <1>4, UndisturbedSteps

-----------------------------------------------------------------------------
(* The theorem *)

\* No step takes an undisturbed transfer anywhere else.
LEMMA UndisturbedStep ==
  ASSUME Orderly, Faults = {}, LinkInductive, LinkInductive', Undisturbed,
         LinkNext
  PROVE  Undisturbed' /\ (first => Advance)
  BY EnterStep, AskingStep, ToSendStep, ArrivedStep, ReadStep, InHandStep,
     AnsweredStep, StoringStep DEF Undisturbed, Asking

\* Once the bank has been erased for the first packet, an undisturbed transfer
\* of any file takes at most WorkLeft more steps of device and sender, each of
\* which brings it closer to its end, the new firmware running: no packet of
\* it is refused, repeated or missed.
THEOREM TransfersAdvance ==
  Orderly /\ Faults = {}
    => (LinkSpec => [](first => WorkLeft \in Nat) /\ TransferAdvances)
<1>. SUFFICES ASSUME Orderly, Faults = {}
              PROVE  LinkSpec => /\ [](first => WorkLeft \in Nat)
                                 /\ TransferAdvances
  OBVIOUS
<1>1. LinkInit => Undisturbed
  BY DEF LinkInit, Init, Undisturbed, InUpdate, InPacket, InCommit
<1>2. LinkInductive /\ LinkInductive' /\ Undisturbed /\ [LinkNext]_linkVars
        => Undisturbed'
  <2>1. Undisturbed /\ UNCHANGED linkVars => Undisturbed'
    BY DEF linkVars, vars, Undisturbed, Asking, ToSend, Arrived, Read, InHand,
           Answered, Storing, Behind, Whole
  <2>. QED  BY <2>1, UndisturbedStep
<1>3. LinkInductive /\ LinkInductive' /\ Undisturbed /\ [LinkNext]_linkVars
        => [first => \/ first' /\ WorkLeft' < WorkLeft
                     \/ pc' = "app" /\ ImageOf(itcm') = file]_linkVars
  BY UndisturbedStep DEF Advance
<1>4. LinkInductive => (first => WorkLeft \in Nat)
  BY WorkIsNumber
<1>. QED  BY <1>1, <1>2, <1>3, <1>4, LinkInductiveHolds, PTL
          DEF LinkSpec, TransferAdvances
=============================================================================
