------------------------------- MODULE OtaLink -------------------------------
(***************************************************************************)
(* The bootloader and the XMODEM sender at the other end of USART1 (Tera   *)
(* Term in the README; external, modelled by the protocol the receiver     *)
(* expects of it), over a line that damages and loses bytes.               *)
(*                                                                         *)
(* Faults names what may go wrong beyond the device's own control:         *)
(*   noise       a packet is damaged (its CRC16 tells) or lost             *)
(*   lost_reply  an ACK or NAK is lost, so the sender repeats a packet     *)
(*   cancel      the sender gives up, or its user cancels                  *)
(*   flash       an erase or a write outside the commit fails              *)
(*   reset       a pin reset or a loss of power outside the commit         *)
(*   commit_flash, commit_loss   the same inside the commit                *)
(*   impatient   the sender repeats a packet before the device answered    *)
(*   bad_header  damage turns the header of a later packet into EOT        *)
(*   stale_host  the sender goes on with its transfer after a reset        *)
(***************************************************************************)
EXTENDS Bootloader, Sequences

CONSTANTS
  Images,      \* the firmware files, sequences of payloads
  Faults

\* README, notes: an application must fit BankA, the smaller of the banks.
ASSUME ImagesAssumption ==
  /\ \A img \in Images : img \in Seq(Data) /\ Len(img) \in 1..CapA /\ CapA <= CapB
  /\ NoImage \notin Images

VARIABLES
  host,        \* "idle", "send" or "await" an answer
  file,        \* the firmware being sent
  cur          \* the next packet of it; Len(file) + 1 is the EOT

linkVars == <<vars, host, file, cur>>

Byte(c) == [hdr |-> c, num |-> 0, data |-> Junk, ok |-> FALSE]

Packet(k) == [hdr |-> "SOH", num |-> k % PktMod, data |-> file[k], ok |-> TRUE]

LinkInit == Init /\ host = "idle" /\ file = <<>> /\ cur = 0

\* Bytes for a device that does not listen are lost.
Deliver(b) ==
  \/ USART1_IRQHandler(b)
  \/ pc \in {"main", "app", "halt"} /\ UNCHANGED vars

\* The user picks a file once the device asks for one.
HostStart(img) ==
  /\ host = "idle" /\ pc = "xmodem" /\ ~rcvFlag /\ ~first
  /\ host' = "send" /\ file' = img /\ cur' = 1
  /\ UNCHANGED vars

\* A packet on the line: intact, damaged, lost, or with a damaged header.
HostSend ==
  /\ host = "send"
  /\ LET sent == IF cur <= Len(file) THEN Packet(cur) ELSE Byte("EOT")
     IN  \/ Deliver(sent)
         \/ /\ "noise" \in Faults
            /\ \/ UNCHANGED vars
               \/ Deliver(IF cur <= Len(file) THEN [sent EXCEPT !.ok = FALSE]
                                              ELSE Byte("junk"))
         \/ "bad_header" \in Faults /\ cur > 1 /\ Deliver(Byte("EOT"))
  /\ host' = "await"
  /\ UNCHANGED <<file, cur>>

\* The sender reads the device's answer to the packet.
HostReads ==
  /\ host = "await" /\ reply # "none"
  /\ reply' = "none"
  /\ \/ reply = "ACK" /\ cur <= Len(file) /\ host' = "send" /\ cur' = cur + 1
     \/ reply = "ACK" /\ cur > Len(file) /\ host' = "idle" /\ UNCHANGED cur
     \/ reply = "NAK" /\ host' = "send" /\ UNCHANGED cur
     \/ reply = "CAN" /\ host' = "idle" /\ UNCHANGED cur
  /\ UNCHANGED <<file, nvm, itcm, pc, choice, session, frame, backup, uart,
                 committed>>

LoseReply ==
  /\ "lost_reply" \in Faults /\ reply # "none"
  /\ reply' = "none"
  /\ UNCHANGED <<host, file, cur, nvm, itcm, pc, choice, session, frame,
                 backup, uart, committed>>

\* No answer: the sender repeats the packet.  A patient one waits longer
\* than the device needs for any packet, the erase of a bank included.
HostTimeout ==
  /\ host = "await" /\ reply = "none"
  /\ \/ "impatient" \in Faults
     \/ pc = "xmodem" /\ (rcvFlag => buf.hdr = "junk")
  /\ host' = "send"
  /\ UNCHANGED <<vars, file, cur>>

\* The user cancels, or the sender has repeated a packet too often.
HostCancel ==
  /\ "cancel" \in Faults /\ host = "await"
  /\ host' = "idle"
  /\ Deliver(Byte("CAN")) \/ UNCHANGED vars
  /\ UNCHANGED <<file, cur>>

\* A command typed by mistake while the device counts down or waits.
UserTypes ==
  /\ host = "idle" /\ pc \in {"key_wait", "xmodem"} /\ ~first
  /\ Deliver(Byte("junk"))
  /\ UNCHANGED <<host, file, cur>>

\* A sender that sees the device restart gives up its transfer.
HostSeesReset ==
  /\ host' = IF pc' = "check_update" /\ "stale_host" \notin Faults
             THEN "idle" ELSE host
  /\ UNCHANGED <<file, cur>>

Restart ==
  /\ PinReset \/ PowerLoss
  /\ IF pc \in InCommit THEN "commit_loss" \in Faults ELSE "reset" \in Faults

FlashFault ==
  \/ "flash" \in Faults /\ (EraseFails \/ ProgramFails)
  \/ "commit_flash" \in Faults /\ CommitFails

\* What the device does when its hardware works.
Device ==
  /\ \/ CheckFlag \/ (\E pressed \in BOOLEAN : KeyPoll(pressed)) \/ SelectBank
     \/ DropJunk \/ ReadHeader \/ FirstPacketTimeout \/ HostCancelled
     \/ BeginPacket \/ EndShift \/ EraseSector \/ EraseDone
     \/ ProgramPacket \/ RejectPacket
     \/ EndOfTransmission \/ CommitErase \/ CommitWrite
     \/ JumpAfterCommit \/ JumpReturns \/ CheckAndBoot
  /\ HostSeesReset

Mishap == (FlashFault \/ Restart) /\ HostSeesReset

Host ==
  \/ (\E img \in Images : HostStart(img))
  \/ HostSend \/ HostReads \/ LoseReply \/ HostTimeout \/ HostCancel
  \/ UserTypes

LinkNext == Device \/ Host \/ Mishap \/ (RequestUpdate /\ HostSeesReset)

LinkSpec == LinkInit /\ [][LinkNext]_linkVars

\* The device keeps running and a sender that has begun goes on.
FairLinkSpec ==
  LinkSpec /\ WF_linkVars(Device) /\ WF_linkVars(HostSend \/ HostReads)

-----------------------------------------------------------------------------
(* Properties *)

\* The file up to the packet before the current one, or up to the current one.
Stored ==
  LET stored == addr - Start(target)
  IN  /\ stored \in {cur - 1, cur} /\ stored <= Len(file)
      /\ \A k \in 1..stored : flash[Start(target) + k - 1] = file[k]
      /\ \A i \in addr..End(target) : flash[i] = Blank

\* Both actors agree on how far the transfer is, whatever was damaged, lost
\* or repeated: the bank holds exactly the packets the sender has had
\* acknowledged, or one more whose ACK it has not read.
TransferInStep == first /\ host # "idle" => Stored

Padded(bk, img) ==
  [i \in Start(bk)..End(bk) |->
     IF i - Start(bk) < Len(img) THEN img[i - Start(bk) + 1] ELSE Blank]

\* The firmware file a bank content is, if it is one.
ImageOf(content) ==
  LET Fits(bk, img) == Len(img) <= End(bk) - Start(bk) + 1
      Found == {img \in Images :
                  \E bk \in Banks : Fits(bk, img) /\ content = Padded(bk, img)}
  IN  IF Found = {} THEN NoImage ELSE CHOOSE img \in Found : TRUE

\* The firmware that may still pass the check of main.  The transfer takes
\* effect when the old sector is erased: from there on only the new one can
\* come out.
Installed ==
  IF pc = "commit_write" THEN ImageOf(backup.crc)
  ELSE IF \E bk \in Banks : info.crc = Content(flash, bk)
       THEN ImageOf(info.crc) ELSE NoImage

\* What runs; <<>> stands for anything that is not a firmware file.
Running ==
  IF itcm # NoImage /\ ImageOf(itcm) = NoImage THEN <<>> ELSE ImageOf(itcm)

\* A commit that was cut between its two words leaves a CRC that does not
\* belong to the bank that boots.
Phase ==
  IF pc \in InCommit \cup {"jump"} THEN "changing"
  ELSE IF info.crc # NoImage /\ ~Intact THEN "torn" ELSE "whole"

CommitMayBeCut == Faults \cap {"commit_flash", "commit_loss"} # {}

Store == INSTANCE FirmwareStore
           WITH installed <- Installed, running <- Running,
                phase <- Phase, MayBeCut <- CommitMayBeCut

\* The bootloader and its link implement the store: firmware changes only by
\* complete transfers, is lost only through a commit that was cut short, and
\* only whole files that are installed ever run.
RefinesStore == Store!Spec

\* A transfer whose first packet has come through ends, when nothing is lost
\* and nobody interferes, with the new firmware running.
TransferCompletes ==
  \A img \in Images :
    (host # "idle" /\ first /\ file = img)
      ~> (pc = "app" /\ ImageOf(itcm) = img)

\* The variant behind it: the packets and the end of transfer still to come,
\* and how far device and sender are with the one between them.
Stage ==
  CASE pc = "xmodem" /\ host = "send"        -> 6
    [] pc = "xmodem" /\ host # "send"        -> IF rcvFlag THEN 5 ELSE 1
    [] pc = "dispatch"                       -> 4
    [] pc \in {"shift", "commit_erase"}      -> 3
    [] pc \in {"program", "commit_write"}    -> 2
    [] pc = "jump"                           -> 1

WorkLeft ==
  6 * (Len(file) + 1 - cur) + Stage + (IF host = "idle" THEN 0 ELSE 1)

\* Without faults every step of device or sender, from the erase of the bank
\* on, brings the transfer closer to its end, which is the new firmware running:
\* no packet is refused or sent twice, no batch is missed, and nothing but the
\* last jump leaves the session.
TransferAdvances ==
  [][first => \/ first' /\ WorkLeft' < WorkLeft
              \/ pc' = "app" /\ ImageOf(itcm') = file]_linkVars

-----------------------------------------------------------------------------
(* The inductive invariant behind TransferInStep and RefinesStore *)

\* What they need: a sender that waits for its answers and for the device,
\* headers that keep their meaning, packet numbers that tell neighbours apart,
\* files that are applications.
Orderly ==
  /\ Faults \cap {"impatient", "bad_header", "stale_host"} = {}
  /\ PktMod > 1
  /\ \A img \in Images : img[1] \in Bootable

\* The packet is the one the sender is at.
Matches(b) ==
  cur \in 1..Len(file) /\ b.num = cur % PktMod /\ b.data = file[cur]

\* The sender sends only to a device that waits.
HostKept ==
  /\ host \in {"idle", "send", "await"}
  /\ \/ host = "idle" /\ file = <<>> /\ cur = 0
     \/ file \in Images /\ cur \in 1..(Len(file) + 1)
  /\ pc \in {"check_update", "key_wait"} =>
       host = "idle" /\ buf.hdr = "junk" /\ reply = "none"
  /\ pc \in InUpdate /\ host = "send" =>
       pc = "xmodem" /\ reply = "none" /\ (rcvFlag => buf.hdr = "junk")

\* An answer belongs to the packet that was sent last.
AnswerKept ==
  pc \in InUpdate /\ host # "idle" =>
    /\ reply # "CAN"
    /\ reply = "NAK" => pc = "xmodem" /\ ~rcvFlag
    /\ reply = "ACK" => \/ cur > Len(file)
                        \/ pc = "xmodem" /\ ~rcvFlag /\ addr = Start(target) + cur

\* Nothing is in the buffer or in process but that packet, and whatever its
\* sender may have sent to cancel it.
ArrivalKept ==
  /\ pc = "xmodem" /\ rcvFlag =>
       \/ buf.hdr = "junk"
       \/ buf.hdr = "SOH" /\ Matches(buf)
       \/ buf.hdr = "EOT" /\ cur > Len(file)
       \/ buf.hdr = "CAN" /\ host = "idle"
  /\ pc = "dispatch" =>
       \/ header = "SOH" /\ Matches(buf)
       \/ header = "EOT" /\ cur > Len(file) /\ first
       \/ header = "CAN" /\ host = "idle"
  /\ pc \in InPacket =>
       /\ header = "SOH" /\ Matches(pkt) /\ reply = "none"
       /\ buf.hdr \in {"junk", "CAN"}
       /\ overrun \/ (rcvFlag /\ pc # "shift") =>
            host = "idle" /\ rcvFlag /\ buf.hdr = "CAN"
  /\ pc \in InCommit \cup {"jump"} => cur > Len(file)

\* The first packet of a session is in the buffer, in process or expected.
Engaged ==
  \/ host # "idle"
  \/ pc = "xmodem" /\ rcvFlag /\ buf.hdr = "SOH"
  \/ pc = "dispatch" /\ header = "SOH"
  \/ pc \in InPacket

\* A cancel that came while a packet was being programmed has spoiled it, and
\* is what the device reads next.
Cancelling ==
  /\ host = "idle" /\ rcvFlag /\ buf.hdr = "CAN"
  /\ pc = "xmodem" \/ (pc = "dispatch" /\ header = "CAN")

SessionKept ==
  /\ pc \notin InUpdate => ~first
  /\ pc \in InUpdate /\ ~first =>
       /\ addr = Start(target) /\ reply = "none" /\ buf.hdr # "EOT"
       /\ pc \in {"xmodem", "dispatch", "shift", "erase"}
       /\ Engaged => cur = 1
  /\ pc = "erase" =>
       ~first /\ \A i \in Start(target)..(erase_addr - 1) : flash[i] = Blank
  /\ pc \in InUpdate /\ first => Stored \/ Cancelling

Good == {Padded(bk, img) : bk \in Banks, img \in Images}

\* The stored CRC is that of a whole file, and of the bank that boots unless
\* a commit was cut short.
StoreKept ==
  /\ pc # "app" => itcm = NoImage
  /\ committed => pc \in {"jump", "app"}
  /\ info.crc # NoImage => info.crc \in Good /\ (Intact \/ CommitMayBeCut)

\* All of it together is kept by every step of device, line and sender.
LinkInductive ==
  /\ Inductive
  /\ HostKept /\ AnswerKept /\ ArrivalKept /\ SessionKept /\ StoreKept

-----------------------------------------------------------------------------
(* What the documentation says and the code does not keep *)

\* README: a power loss during a transfer falls back to the last complete
\* version, the device is never bricked: once a firmware has run, there is
\* always one to boot.
NeverBricked == [](pc = "app" => [](Installed # NoImage))

\* README: every packet is checked with its CRC16.  Then no bank is certified
\* that holds anything but intact packets.
CertifiedPacketsChecked ==
  info.crc # NoImage => \A i \in DOMAIN info.crc : info.crc[i] # Junk
=============================================================================
