----------------------------- MODULE OtaConsole -----------------------------
(***************************************************************************)
(* The bootloader together with the part of the application that asks for  *)
(* an update: the matcher of the console command (App_OTA_Handle.c), the   *)
(* console interrupt that calls it (bsp/src/log.c), and the write of the   *)
(* request word through the data cache before the reset.                   *)
(***************************************************************************)
EXTENDS Bootloader, Sequences

CONSTANTS
  Cmd,         \* OTA_CMD_STRING, a sequence of characters
  LineEnds,    \* CR and LF
  Chars,       \* what a console sends
  MaxHeard     \* bound: characters between two resets

\* The first character of UPDATE occurs once: what lets the matcher go on
\* without ever looking back.
ASSUME CmdAssumption ==
  /\ Cmd \in Seq(Chars) /\ Len(Cmd) > 0
  /\ \A k \in 2..Len(Cmd) : Cmd[k] # Cmd[1]
  /\ \A k \in 1..Len(Cmd) : Cmd[k] \notin LineEnds
  /\ LineEnds \subseteq Chars /\ MaxHeard \in Nat

VARIABLES
  match_idx,   \* of ota_cmd_feed
  step,        \* "listen", or how far ota_request_reset has come
  cached,      \* the data cache holds the request word and memory does not
  heard        \* history: the characters since the application started

console == <<match_idx, step, cached, heard>>
consoleVars == <<vars, console>>

ConsoleIdle == match_idx' = 0 /\ step' = "listen" /\ cached' = FALSE
               /\ heard' = <<>>

ConsoleInit ==
  Init /\ match_idx = 0 /\ step = "listen" /\ cached = FALSE /\ heard = <<>>

-----------------------------------------------------------------------------
(* ota_cmd_feed *)

\* The whole word has been seen and a line end follows.
Matched(ch) == match_idx = Len(Cmd) /\ ch \in LineEnds

\* A character that does not fit is thrown away.
Mutant_NextIdx(ch) ==
  IF match_idx < Len(Cmd) /\ ch = Cmd[match_idx + 1] THEN match_idx + 1 ELSE 0

\* Any character of the word counts.
Mutant_Advance(ch) ==
  IF \E k \in 1..Len(Cmd) : ch = Cmd[k] THEN match_idx + 1 ELSE 0

\* A character that does not fit may still begin the word anew.
NextIdx(ch) ==
  IF match_idx < Len(Cmd) /\ ch = Cmd[match_idx + 1] THEN match_idx + 1
  ELSE IF ch = Cmd[1] THEN 1 ELSE 0

\* The interrupt resets the device by itself: after a match it does not
\* return, and nobody ever sees the flag the 20 ms task looks for.
ConsoleInterrupt(ch) ==
  /\ pc = "app" /\ step = "listen" /\ Len(heard) < MaxHeard
  /\ heard' = Append(heard, ch)
  /\ match_idx' = IF Matched(ch) THEN 0 ELSE NextIdx(ch)
  /\ step' = IF Matched(ch) THEN "matched" ELSE "listen"
  /\ UNCHANGED <<vars, cached>>

-----------------------------------------------------------------------------
(* ota_request_reset *)

\* The store ends up in the data cache.
StoreRequest ==
  /\ step = "matched"
  /\ cached' = TRUE /\ step' = "stored"
  /\ UNCHANGED <<vars, match_idx, heard>>

\* The cache may write the line back whenever it likes.
EvictLine ==
  /\ cached
  /\ otaFlag' = TRUE /\ cached' = FALSE
  /\ UNCHANGED <<flash, info, itcm, pc, choice, session, frame, backup, uart,
                 reply, committed, match_idx, step, heard>>

\* The call is forgotten, as in the code before the sixth fix of the README.
Mutant_SCB_CleanDCache ==
  /\ step = "stored"
  /\ step' = "cleaned"
  /\ UNCHANGED <<vars, match_idx, cached, heard>>

SCB_CleanDCache ==
  /\ step = "stored"
  /\ otaFlag' = (otaFlag \/ cached) /\ cached' = FALSE
  /\ step' = "cleaned"
  /\ UNCHANGED <<flash, info, itcm, pc, choice, session, frame, backup, uart,
                 reply, committed, match_idx, heard>>

\* A jump to the bootloader instead of a reset.
Mutant_NVIC_SystemReset ==
  /\ step = "cleaned"
  /\ pc' = "check_update" /\ ConsoleIdle
  /\ UNCHANGED <<nvm, itcm, choice, session, frame, backup, uart, reply,
                 committed>>

\* SRAM survives, the contents of the cache do not.
NVIC_SystemReset ==
  /\ step = "cleaned"
  /\ RamCleared /\ ConsoleIdle
  /\ UNCHANGED nvm

-----------------------------------------------------------------------------
(* Composition *)

\* A reset from outside, before, during or after a request.
ConsoleRestart == (PinReset \/ PowerLoss) /\ ConsoleIdle

RequestSteps == StoreRequest \/ SCB_CleanDCache \/ NVIC_SystemReset

ConsoleNext ==
  \/ (Cpu \/ Receive) /\ UNCHANGED console
  \/ (\E ch \in Chars : ConsoleInterrupt(ch))
  \/ RequestSteps \/ EvictLine
  \/ ConsoleRestart

ConsoleSpec == ConsoleInit /\ [][ConsoleNext]_consoleVars

-----------------------------------------------------------------------------
(* Properties *)

ConsoleTypeOK ==
  /\ match_idx \in 0..Len(Cmd)
  /\ step \in {"listen", "matched", "stored", "cleaned"}
  /\ cached \in BOOLEAN /\ heard \in Seq(Chars)

\* The last n characters heard are the first n of the command.
EndsWith(n) ==
  /\ n <= Len(heard)
  /\ \A k \in 1..n : heard[Len(heard) - n + k] = Cmd[k]

\* What the command is, by definition: the word and a line end, whatever
\* came before.  (README asks for the whole word; XUPDATE is taken as well.)
CommandHeard ==
  /\ heard # <<>> /\ heard[Len(heard)] \in LineEnds
  /\ Len(heard) > Len(Cmd)
  /\ \A k \in 1..Len(Cmd) : heard[Len(heard) - 1 - Len(Cmd) + k] = Cmd[k]

\* The matcher, which keeps nothing but an index, takes no command that was
\* not sent and misses none that was, whatever half words came before it.
FiresOnCommand == pc = "app" => (step # "listen" <=> CommandHeard)

\* No request word without a command, not even one that lingers in memory
\* after a reset cut a request short.
RequestIsMeant ==
  pc = "app" /\ (otaFlag \/ cached) => step \in {"stored", "cleaned"}

\* The word is in memory when the reset comes, whether the cache has written
\* the line back before or not.
RequestReachesMemory == [][NVIC_SystemReset => otaFlag']_consoleVars

\* Seen from the bootloader the request is one atomic step, so everything
\* shown of Bootloader with RequestUpdate holds with the real application.
Boot == INSTANCE Bootloader WITH otaFlag <- otaFlag /\ pc # "app"

RefinesBootloader == Boot!Spec
=============================================================================
