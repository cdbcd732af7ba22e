-------------------------- MODULE OtaConsoleProofs --------------------------
(***************************************************************************)
(* The UPDATE command for every command word that CmdAssumption allows and *)
(* any length of what is typed, and the request as one atomic step of the  *)
(* bootloader's environment.                                               *)
(***************************************************************************)
EXTENDS OtaConsole, BootloaderProofs

-----------------------------------------------------------------------------
(* The matcher *)

\* match_idx is the longest beginning of the command that was heard last.
Longest ==
  EndsWith(match_idx) /\ \A n \in 1..Len(Cmd) : EndsWith(n) => n <= match_idx

MatcherKept ==
  /\ heard \in Seq(Chars) /\ match_idx \in 0..Len(Cmd)
  /\ step = "listen" => Longest /\ ~CommandHeard
  /\ step # "listen" => CommandHeard

\* What the last n characters are once one more is heard.
LEMMA HeardOneMore ==
  ASSUME heard \in Seq(Chars), NEW ch \in Chars, heard' = Append(heard, ch),
         NEW n \in 1..Len(Cmd)
  PROVE  EndsWith(n)' <=> EndsWith(n - 1) /\ Cmd[n] = ch
<1>. DEFINE L == Len(heard)
<1>1. L \in Nat /\ Len(heard') = L + 1 /\ Len(Cmd) \in Nat
  BY CmdAssumption
<1>2. heard'[L + 1] = ch /\ \A j \in 1..L : heard'[j] = heard[j]
  OBVIOUS
<1>. HIDE DEF L
<1>3. ASSUME EndsWith(n)'
      PROVE  EndsWith(n - 1) /\ Cmd[n] = ch
  <2>1. n <= L + 1 /\ \A k \in 1..n : heard'[L + 1 - n + k] = Cmd[k]
    <3>1. n <= Len(heard') /\ \A k \in 1..n : heard'[Len(heard') - n + k] = Cmd[k]
      BY <1>3 DEF EndsWith
    <3>2. ASSUME NEW k \in 1..n
          PROVE  heard'[L + 1 - n + k] = Cmd[k]
      <4>1. heard'[Len(heard') - n + k] = Cmd[k]
        BY <3>1
      <4>2. Len(heard') - n + k = L + 1 - n + k
        BY <1>1
      <4>. QED  BY <4>1, <4>2, Zenon
    <3>. QED  BY <3>1, <3>2, <1>1
  <2>2. heard'[L + 1 - n + n] = Cmd[n]
    <3>1. n \in 1..n
      BY <1>1
    <3>. QED  BY <2>1, <3>1
  <2>3. Cmd[n] = ch
    BY <2>2, <1>1, <1>2
  <2>4. ASSUME NEW k \in 1..(n - 1)
        PROVE  heard[L - (n - 1) + k] = Cmd[k]
    <3>1. heard'[L + 1 - n + k] = Cmd[k]
      BY <2>1, <1>1
    <3>2. L + 1 - n + k \in 1..L /\ L + 1 - n + k = L - (n - 1) + k
      BY <2>1, <1>1
    <3>. QED  BY <3>1, <3>2, <1>2
  <2>. QED  BY <2>1, <2>3, <2>4, <1>1 DEF EndsWith, L
<1>4. ASSUME EndsWith(n - 1), Cmd[n] = ch
      PROVE  EndsWith(n)'
  <2>1. n - 1 <= L /\ \A k \in 1..(n - 1) : heard[L - (n - 1) + k] = Cmd[k]
    BY <1>4 DEF EndsWith, L
  <2>2. ASSUME NEW k \in 1..n
        PROVE  heard'[L + 1 - n + k] = Cmd[k]
    <3>1. CASE k = n
      <4>1. L + 1 - n + k = L + 1
        BY <3>1, <1>1
      <4>. QED  BY <4>1, <3>1, <1>2, <1>4
    <3>2. CASE k # n
      <4>1. k \in 1..(n - 1) /\ L - (n - 1) + k \in 1..L
            /\ L + 1 - n + k = L - (n - 1) + k
        BY <3>2, <2>1, <1>1
      <4>. QED  BY <4>1, <2>1, <1>2
    <3>. QED  BY <3>1, <3>2
  <2>. QED  BY <2>1, <2>2, <1>1 DEF EndsWith
<1>. QED  BY <1>3, <1>4

\* Of two beginnings of the command that were both heard last, the shorter one
\* is empty: the first character does not come again.
LEMMA OneBeginning ==
  ASSUME heard \in Seq(Chars), NEW m \in 0..Len(Cmd), NEW n \in 0..Len(Cmd),
         EndsWith(m), EndsWith(n), n < m
  PROVE  n = 0
<1>1. Len(heard) \in Nat /\ Len(Cmd) \in Nat
  BY CmdAssumption
<1>. SUFFICES ASSUME n > 0 PROVE FALSE
  BY <1>1
<1>2. heard[Len(heard) - n + 1] = Cmd[1]
  BY <1>1 DEF EndsWith
<1>3. m - n + 1 \in 2..Len(Cmd) /\ m - n + 1 \in 1..m
  BY <1>1
<1>4. heard[Len(heard) - m + (m - n + 1)] = Cmd[m - n + 1]
  BY <1>3 DEF EndsWith
<1>5. Len(heard) - m + (m - n + 1) = Len(heard) - n + 1
  BY <1>1
<1>6. Cmd[m - n + 1] = Cmd[1]
  BY <1>2, <1>4, <1>5
<1>. QED  BY <1>3, <1>6, CmdAssumption

\* What there is to show of the next state.
LEMMA LongestNext ==
  ASSUME NEW m, match_idx' = m, EndsWith(match_idx)',
         \A n \in 1..Len(Cmd) : EndsWith(n)' => n <= m
  PROVE  Longest'
BY DEF Longest

\* NextIdx finds the longest beginning again, though it never looks back.
LEMMA NextIsLongest ==
  ASSUME heard \in Seq(Chars), match_idx \in 0..Len(Cmd), Longest,
         NEW ch \in Chars, heard' = Append(heard, ch), match_idx' = NextIdx(ch)
  PROVE  match_idx' \in 0..Len(Cmd) /\ Longest'
<1>1. Len(Cmd) \in Nat /\ Len(Cmd) > 0
  BY CmdAssumption
<1>2. \A n \in 1..Len(Cmd) : EndsWith(n)' <=> EndsWith(n - 1) /\ Cmd[n] = ch
  BY HeardOneMore
<1>3. EndsWith(match_idx) /\ \A n \in 1..Len(Cmd) : EndsWith(n) => n <= match_idx
  BY DEF Longest
<1>4. EndsWith(0)' /\ EndsWith(0)
  <2>1. Append(heard, ch) \in Seq(Chars)
    OBVIOUS
  <2>. QED  BY <2>1 DEF EndsWith
<1>5. CASE match_idx < Len(Cmd) /\ ch = Cmd[match_idx + 1]
  <2>. PICK m \in 1..Len(Cmd) : m = match_idx + 1
    BY <1>1, <1>5
  <2>1. match_idx' = m
    BY <1>5 DEF NextIdx
  <2>2. EndsWith(m)'
    <3>1. EndsWith(m - 1) /\ Cmd[m] = ch
      <4>1. m - 1 = match_idx
        BY <1>1
      <4>. QED  BY <4>1, <1>3, <1>5
    <3>. QED  BY <3>1, <1>2
  <2>3. ASSUME NEW n \in 1..Len(Cmd), EndsWith(n)'
        PROVE  n <= m
    <3>1. EndsWith(n - 1)
      BY <1>2, <2>3
    <3>. QED  BY <3>1, <1>1, <1>3
  <2>4. EndsWith(match_idx)' <=> EndsWith(m)'
    BY <2>1 DEF EndsWith
  <2>. QED  BY <2>1, <2>2, <2>3, <2>4, LongestNext
<1>6. CASE ~(match_idx < Len(Cmd) /\ ch = Cmd[match_idx + 1])
  <2>1. ASSUME NEW n \in 1..Len(Cmd), EndsWith(n)'
        PROVE  n = 1 /\ ch = Cmd[1]
    <3>1. EndsWith(n - 1) /\ Cmd[n] = ch
      BY <1>2, <2>1
    <3>2. n - 1 \in 0..Len(Cmd) /\ n - 1 <= match_idx /\ n - 1 # match_idx
      BY <3>1, <1>1, <1>3, <1>6
    <3>3. n - 1 = 0
      BY <3>1, <3>2, <1>3, OneBeginning
    <3>. QED  BY <3>1, <3>3, <1>1
  <2>2. CASE ch = Cmd[1]
    <3>1. match_idx' = 1
      BY <1>6, <2>2 DEF NextIdx
    <3>2. EndsWith(1)'
      <4>1. EndsWith(1 - 1)
        BY <1>4
      <4>. QED  BY <4>1, <1>1, <1>2, <2>2
    <3>3. (EndsWith(match_idx))' <=> EndsWith(1)'
      BY <3>1 DEF EndsWith
    <3>4. \A n \in 1..Len(Cmd) : EndsWith(n)' => n <= 1
      BY <2>1
    <3>. QED  BY <3>1, <3>2, <3>3, <3>4, <1>1, LongestNext
  <2>3. CASE ch # Cmd[1]
    <3>1. match_idx' = 0
      BY <1>6, <2>3 DEF NextIdx
    <3>2. (EndsWith(match_idx))' <=> EndsWith(0)'
      BY <3>1 DEF EndsWith
    <3>3. \A n \in 1..Len(Cmd) : EndsWith(n)' => n <= 0
      BY <2>1, <2>3
    <3>. QED  BY <3>1, <3>2, <3>3, <1>1, <1>4, LongestNext
  <2>. QED  BY <2>2, <2>3
<1>. QED  BY <1>5, <1>6

\* A command is heard when and only when the matcher fires.
LEMMA MatchedIsHeard ==
  ASSUME heard \in Seq(Chars), match_idx \in 0..Len(Cmd), Longest,
         NEW ch \in Chars, heard' = Append(heard, ch)
  PROVE  Matched(ch) <=> CommandHeard'
<1>. DEFINE L == Len(heard)
<1>1. L \in Nat /\ Len(heard') = L + 1 /\ Len(Cmd) \in Nat /\ Len(Cmd) > 0
  BY CmdAssumption
<1>2. heard'[L + 1] = ch /\ (\A j \in 1..L : heard'[j] = heard[j]) /\ heard' # <<>>
  OBVIOUS
<1>. HIDE DEF L
<1>3. heard'[Len(heard')] = ch
  BY <1>1, <1>2
<1>4. CommandHeard' <=> /\ ch \in LineEnds /\ L + 1 > Len(Cmd)
                        /\ \A k \in 1..Len(Cmd) : heard'[L - Len(Cmd) + k] = Cmd[k]
  <2>1. \A k \in 1..Len(Cmd) : Len(heard') - 1 - Len(Cmd) + k = L - Len(Cmd) + k
    BY <1>1
  <2>2. CommandHeard' <=>
          /\ ch \in LineEnds /\ Len(heard') > Len(Cmd)
          /\ \A k \in 1..Len(Cmd) : heard'[Len(heard') - 1 - Len(Cmd) + k] = Cmd[k]
    BY <1>2, <1>3 DEF CommandHeard
  <2>3. (\A k \in 1..Len(Cmd) : heard'[Len(heard') - 1 - Len(Cmd) + k] = Cmd[k])
        <=> (\A k \in 1..Len(Cmd) : heard'[L - Len(Cmd) + k] = Cmd[k])
    BY <2>1, Zenon
  <2>. QED  BY <2>2, <2>3, <1>1
<1>5. (L + 1 > Len(Cmd) /\ \A k \in 1..Len(Cmd) : heard'[L - Len(Cmd) + k] = Cmd[k])
      <=> EndsWith(Len(Cmd))
  <2>1. CASE L + 1 > Len(Cmd)
    <3>1. \A k \in 1..Len(Cmd) : heard'[L - Len(Cmd) + k] = heard[L - Len(Cmd) + k]
      <4>1. \A k \in 1..Len(Cmd) : L - Len(Cmd) + k \in 1..L
        BY <1>1, <2>1
      <4>. QED  BY <4>1, <1>2
    <3>. QED  BY <3>1, <2>1, <1>1 DEF EndsWith, L
  <2>2. CASE ~(L + 1 > Len(Cmd))
    BY <2>2, <1>1 DEF EndsWith, L
  <2>. QED  BY <2>1, <2>2
<1>6. EndsWith(Len(Cmd)) <=> match_idx = Len(Cmd)
  <2>1. Len(Cmd) \in 1..Len(Cmd)
    BY <1>1
  <2>2. EndsWith(Len(Cmd)) => Len(Cmd) <= match_idx
    BY <2>1 DEF Longest
  <2>3. match_idx = Len(Cmd) => EndsWith(Len(Cmd))
    BY DEF Longest
  <2>. QED  BY <2>2, <2>3, <1>1
<1>. QED  BY <1>4, <1>5, <1>6 DEF Matched

\* Nothing is heard yet.
LEMMA MatcherIdle ==
  ASSUME heard = <<>>, match_idx = 0, step = "listen"
  PROVE  MatcherKept
<1>1. heard \in Seq(Chars) /\ Len(heard) = 0 /\ match_idx \in 0..Len(Cmd)
  BY CmdAssumption
<1>2. EndsWith(match_idx) /\ \A n \in 1..Len(Cmd) : ~EndsWith(n)
  BY <1>1, CmdAssumption DEF EndsWith
<1>3. ~CommandHeard
  BY DEF CommandHeard
<1>. QED  BY <1>1, <1>2, <1>3 DEF MatcherKept, Longest

\* So it is at the start.
LEMMA MatcherInit == ConsoleInit => MatcherKept
BY MatcherIdle DEF ConsoleInit

\* The same in the next state.
LEMMA MatcherReset ==
  ASSUME ConsoleIdle
  PROVE  MatcherKept'
<1>1. heard' = <<>> /\ match_idx' = 0 /\ step' = "listen"
  BY DEF ConsoleIdle
<1>2. Len(heard') = 0 /\ Len(Cmd) \in Nat
  BY <1>1, CmdAssumption
<1>3. heard' \in Seq(Chars) /\ match_idx' \in 0..Len(Cmd)
  BY <1>1, <1>2
<1>4. EndsWith(0)' /\ \A n \in 1..Len(Cmd) : ~EndsWith(n)'
  BY <1>2 DEF EndsWith
<1>5. Longest'
  <2>1. EndsWith(match_idx)'
    BY <1>1, <1>4 DEF EndsWith
  <2>. QED  BY <1>1, <1>4, <2>1, LongestNext
<1>6. ~CommandHeard'
  BY <1>1 DEF CommandHeard
<1>. QED  BY <1>1, <1>3, <1>5, <1>6 DEF MatcherKept

\* A step that leaves the matcher alone.
LEMMA MatcherRests ==
  ASSUME MatcherKept, UNCHANGED <<heard, match_idx>>,
         step' = "listen" <=> step = "listen"
  PROVE  MatcherKept'
BY DEF MatcherKept, Longest, EndsWith, CommandHeard

\* The matcher's invariant is kept by every step.
LEMMA MatcherStep == MatcherKept /\ [ConsoleNext]_consoleVars => MatcherKept'
<1>. SUFFICES ASSUME MatcherKept, [ConsoleNext]_consoleVars
              PROVE  MatcherKept'
  OBVIOUS
<1>1. CASE UNCHANGED console
  BY <1>1, MatcherRests DEF console
<1>2. ASSUME NEW ch \in Chars, ConsoleInterrupt(ch)
      PROVE  MatcherKept'
  <2>1. /\ heard \in Seq(Chars) /\ match_idx \in 0..Len(Cmd)
        /\ Longest /\ heard' = Append(heard, ch)
    BY <1>2 DEF ConsoleInterrupt, MatcherKept
  <2>2. heard' \in Seq(Chars)
    BY <2>1
  <2>3. Matched(ch) <=> CommandHeard'
    BY <2>1, MatchedIsHeard
  <2>4. CASE Matched(ch)
    <3>1. match_idx' = 0 /\ step' = "matched" /\ match_idx' \in 0..Len(Cmd)
      BY <1>2, <2>4, CmdAssumption DEF ConsoleInterrupt
    <3>. QED  BY <2>2, <2>3, <2>4, <3>1 DEF MatcherKept
  <2>5. CASE ~Matched(ch)
    <3>1. match_idx' = NextIdx(ch) /\ step' = "listen"
      BY <1>2, <2>5 DEF ConsoleInterrupt
    <3>2. match_idx' \in 0..Len(Cmd) /\ Longest'
      BY <2>1, <3>1, NextIsLongest
    <3>. QED  BY <2>2, <2>3, <2>5, <3>1, <3>2 DEF MatcherKept
  <2>. QED  BY <2>4, <2>5
<1>3. CASE StoreRequest \/ SCB_CleanDCache \/ EvictLine
  BY <1>3, MatcherRests DEF StoreRequest, SCB_CleanDCache, EvictLine
<1>4. CASE NVIC_SystemReset \/ ConsoleRestart
  BY <1>4, MatcherReset DEF NVIC_SystemReset, ConsoleRestart
<1>. QED  BY <1>1, <1>2, <1>3, <1>4
          DEF ConsoleNext, RequestSteps, consoleVars, console

\* FiresOnCommand for every command and everything that may be typed: the
\* matcher misses no command and invents none.
THEOREM CommandsAreRecognised == ConsoleSpec => []FiresOnCommand
<1>1. MatcherKept => FiresOnCommand
  BY DEF MatcherKept, FiresOnCommand
<1>. QED  BY <1>1, MatcherInit, MatcherStep, PTL DEF ConsoleSpec

\* Step and cache line stay what they are: an interrupt that goes through the
\* request and a flag.
LEMMA StepTyped ==
  ASSUME ConsoleTypeOK, [ConsoleNext]_consoleVars
  PROVE  /\ step' \in {"listen", "matched", "stored", "cleaned"}
         /\ cached' \in BOOLEAN
<1>1. CASE UNCHANGED console
  BY <1>1 DEF console, ConsoleTypeOK
<1>2. ASSUME NEW ch \in Chars, ConsoleInterrupt(ch)
      PROVE  step' \in {"listen", "matched"} /\ cached' = cached
  BY <1>2 DEF ConsoleInterrupt
<1>3. CASE RequestSteps \/ EvictLine
  BY <1>3 DEF RequestSteps, StoreRequest, SCB_CleanDCache, NVIC_SystemReset,
              EvictLine, ConsoleIdle, ConsoleTypeOK
<1>4. CASE ConsoleRestart
  BY <1>4 DEF ConsoleRestart, ConsoleIdle
<1>. QED  BY <1>1, <1>2, <1>3, <1>4
          DEF ConsoleNext, consoleVars, console, ConsoleTypeOK

\* Type correctness of the console, for commands of every length: ota_cmd_feed
\* never indexes the command past its end.
THEOREM ConsoleTypes == ConsoleSpec => []ConsoleTypeOK
<1>1. ConsoleInit => ConsoleTypeOK
  <2>1. ConsoleInit => match_idx \in 0..Len(Cmd) /\ heard \in Seq(Chars)
    BY MatcherInit DEF MatcherKept
  <2>. QED  BY <2>1 DEF ConsoleInit, ConsoleTypeOK
<1>2. MatcherKept' => match_idx' \in 0..Len(Cmd) /\ heard' \in Seq(Chars)
  BY DEF MatcherKept
<1>3. MatcherKept /\ ConsoleTypeOK /\ [ConsoleNext]_consoleVars
        => ConsoleTypeOK'
  BY <1>2, MatcherStep, StepTyped DEF ConsoleTypeOK
<1>. QED  BY <1>1, <1>3, MatcherInit, MatcherStep, PTL DEF ConsoleSpec

-----------------------------------------------------------------------------
(* The request word *)

\* The word is in the cache or in memory from the store to the reset, and
\* nowhere at any other time but until check_update looks at it.
RequestKept ==
  /\ otaFlag \in BOOLEAN /\ cached \in BOOLEAN
  /\ step \in {"listen", "matched", "stored", "cleaned"}
  /\ step # "listen" => pc = "app"
  /\ cached => step = "stored"
  /\ otaFlag => pc = "check_update" \/ step \in {"stored", "cleaned"}
  /\ step = "stored" => cached \/ otaFlag
  /\ step = "cleaned" => otaFlag

\* No word is stored at the start.
LEMMA RequestInit == ConsoleInit => RequestKept
BY DEF ConsoleInit, Init, RequestKept

\* Of the steps of the bootloader only the first look changes the word.
LEMMA CpuSparesFlag ==
  ASSUME Cpu
  PROVE  /\ pc # "app"
         /\ \/ pc = "check_update" /\ otaFlag' = FALSE
            \/ pc # "check_update" /\ otaFlag' = otaFlag
<1>1. CASE CheckFlag
  BY <1>1 DEF CheckFlag
<1>2. CASE SelectBank \/ \E pressed \in BOOLEAN : KeyPoll(pressed)
  BY <1>2 DEF SelectBank, KeyPoll, nvm
<1>3. CASE CheckAndBoot \/ JumpAfterCommit \/ JumpReturns
  BY <1>3 DEF CheckAndBoot, JumpAfterCommit, JumpReturns, flash_jump_to_app, nvm
<1>4. CASE DropJunk \/ ReadHeader \/ FirstPacketTimeout \/ HostCancelled
           \/ BeginPacket \/ EndShift
  BY <1>4 DEF DropJunk, ReadHeader, FirstPacketTimeout, HostCancelled,
              BeginPacket, EndShift, nvm
<1>5. CASE EraseSector \/ EraseFails \/ EraseDone
           \/ ProgramPacket \/ ProgramFails \/ RejectPacket
  BY <1>5 DEF EraseSector, EraseFails, EraseDone, ProgramPacket, ProgramFails,
              RejectPacket, nvm
<1>6. CASE EndOfTransmission \/ CommitErase \/ CommitWrite \/ CommitFails
  BY <1>6 DEF EndOfTransmission, CommitErase, CommitWrite, CommitFails, InCommit,
              nvm
<1>. QED  BY <1>1, <1>2, <1>3, <1>4, <1>5, <1>6 DEF Cpu, Receiver

\* The request's invariant is kept by every step.
LEMMA RequestStep == RequestKept /\ [ConsoleNext]_consoleVars => RequestKept'
<1>. SUFFICES ASSUME RequestKept, [ConsoleNext]_consoleVars
              PROVE  RequestKept'
  OBVIOUS
<1>1. CASE Cpu /\ UNCHANGED console
  <2>1. step = "listen" /\ ~cached
    BY <1>1, CpuSparesFlag DEF RequestKept
  <2>2. step' = "listen" /\ ~cached' /\ cached' \in BOOLEAN
    BY <1>1, <2>1 DEF RequestKept, console
  <2>3. otaFlag' = FALSE
    BY <1>1, <2>1, CpuSparesFlag DEF RequestKept
  <2>. QED  BY <2>2, <2>3 DEF RequestKept
<1>2. CASE Receive /\ UNCHANGED console
  BY <1>2 DEF Receive, USART1_IRQHandler, RequestKept, console, nvm
<1>3. CASE \E ch \in Chars : ConsoleInterrupt(ch)
  BY <1>3 DEF ConsoleInterrupt, RequestKept, vars
<1>4. CASE StoreRequest \/ SCB_CleanDCache \/ EvictLine
  BY <1>4 DEF StoreRequest, SCB_CleanDCache, EvictLine, RequestKept, vars
<1>5. CASE NVIC_SystemReset \/ ConsoleRestart
  BY <1>5 DEF NVIC_SystemReset, ConsoleRestart, ConsoleIdle, PinReset, PowerLoss,
              RamCleared, RequestKept, nvm
<1>6. CASE UNCHANGED consoleVars
  BY <1>6 DEF consoleVars, vars, console, RequestKept
<1>. QED  BY <1>1, <1>2, <1>3, <1>4, <1>5, <1>6 DEF ConsoleNext, RequestSteps

\* So the invariant holds in every reachable state.
LEMMA RequestAlways == ConsoleSpec => []RequestKept
BY RequestInit, RequestStep, PTL DEF ConsoleSpec

\* RequestIsMeant: no request word without a command, wherever a reset cuts a
\* request short and whenever the cache writes the word back.
THEOREM RequestsAreMeant == ConsoleSpec => []RequestIsMeant
<1>1. RequestKept => RequestIsMeant
  BY DEF RequestKept, RequestIsMeant
<1>. QED  BY <1>1, RequestAlways, PTL

\* RequestReachesMemory: the reset finds the word in memory.
THEOREM RequestsReachMemory == ConsoleSpec => RequestReachesMemory
<1>1. RequestKept /\ [ConsoleNext]_consoleVars => [NVIC_SystemReset => otaFlag']_consoleVars
  BY DEF RequestKept, NVIC_SystemReset, nvm
<1>. QED  BY <1>1, RequestAlways, PTL DEF ConsoleSpec, RequestReachesMemory
-----------------------------------------------------------------------------
(* The request as one step of the bootloader's environment *)

\* The bootloader's view of the word.
Seen == otaFlag /\ pc # "app"

\* Initial states map to initial states.
LEMMA InitMapped == ConsoleInit => Boot!Init
BY DEF ConsoleInit, Init, Boot!Init, Boot!Spent, Spent, Boot!ErasedSector,
       ErasedSector, Boot!Addr, Addr, Boot!Start, Start, Boot!End, End,
       Boot!ErasedCnt, ErasedCnt

\* Steps that leave the word alone are steps of the bootloader as it is.
LEMMA FlagMapped ==
  ASSUME CheckFlag
  PROVE  Boot!CheckFlag
BY DEF CheckFlag, Boot!CheckFlag, choice, Boot!choice, session, Boot!session,
       frame, Boot!frame, uart, Boot!uart

\* Nor does the key window read it.
LEMMA KeyMapped ==
  ASSUME NEW pressed \in BOOLEAN, KeyPoll(pressed), UNCHANGED Seen
  PROVE  Boot!KeyPoll(pressed)
BY DEF KeyPoll, Boot!KeyPoll, Seen, nvm, Boot!nvm, session, Boot!session,
       frame, Boot!frame, uart, Boot!uart

\* The choice of the bank.
LEMMA WindowMapped ==
  ASSUME UNCHANGED Seen
  PROVE  SelectBank => Boot!SelectBank
BY DEF Seen, SelectBank, Boot!SelectBank, UpdateBank, Boot!UpdateBank, Start,
       Boot!Start, BootBank, Boot!BootBank, nvm, Boot!nvm, frame, Boot!frame,
       uart, Boot!uart, ErasedCnt, Boot!ErasedCnt

\* The jumps.
LEMMA JumpMapped ==
  ASSUME UNCHANGED Seen
  PROVE  /\ CheckAndBoot => Boot!CheckAndBoot
         /\ JumpAfterCommit => Boot!JumpAfterCommit
         /\ JumpReturns => Boot!JumpReturns
<1>1. CheckAndBoot => Boot!CheckAndBoot
  BY DEF Seen, CheckAndBoot, Boot!CheckAndBoot, check_app_crc,
         Boot!check_app_crc, flash_jump_to_app, Boot!flash_jump_to_app,
         Content, Boot!Content, Start, Boot!Start, copy_app_to_itcm,
         Boot!copy_app_to_itcm, ReceiverIdle, Boot!ReceiverIdle, nvm,
         Boot!nvm, choice, Boot!choice, End, Boot!End, Spent, Boot!Spent,
         ErasedSector, Boot!ErasedSector, ErasedCnt, Boot!ErasedCnt
<1>2. JumpAfterCommit => Boot!JumpAfterCommit
  BY DEF Seen, JumpAfterCommit, Boot!JumpAfterCommit, flash_jump_to_app,
         Boot!flash_jump_to_app, Start, Boot!Start, copy_app_to_itcm,
         Boot!copy_app_to_itcm, ReceiverIdle, Boot!ReceiverIdle, nvm,
         Boot!nvm, choice, Boot!choice, Content, Boot!Content, Spent,
         Boot!Spent, ErasedSector, Boot!ErasedSector, End, Boot!End,
         ErasedCnt, Boot!ErasedCnt
<1>3. JumpReturns => Boot!JumpReturns
  BY DEF Seen, JumpReturns, Boot!JumpReturns, Start, Boot!Start, ErasedSector,
         Boot!ErasedSector, nvm, Boot!nvm, choice, Boot!choice, session,
         Boot!session, uart, Boot!uart, ErasedCnt, Boot!ErasedCnt
<1>. QED  BY <1>1, <1>2, <1>3

\* The receive loop.
LEMMA HeaderMapped ==
  ASSUME UNCHANGED Seen
  PROVE  /\ DropJunk => Boot!DropJunk
         /\ ReadHeader => Boot!ReadHeader
         /\ FirstPacketTimeout => Boot!FirstPacketTimeout
         /\ HostCancelled => Boot!HostCancelled
<1>1. DropJunk => Boot!DropJunk
  BY DEF Seen, DropJunk, Boot!DropJunk, nvm, Boot!nvm, choice, Boot!choice,
         session, Boot!session, frame, Boot!frame
<1>2. ReadHeader => Boot!ReadHeader
  BY DEF Seen, ReadHeader, Boot!ReadHeader, nvm, Boot!nvm, choice,
         Boot!choice, session, Boot!session, uart, Boot!uart
<1>3. FirstPacketTimeout => Boot!FirstPacketTimeout
  BY DEF Seen, FirstPacketTimeout, Boot!FirstPacketTimeout, RamCleared,
         Boot!RamCleared, nvm, Boot!nvm, ReceiverIdle, Boot!ReceiverIdle,
         Spent, Boot!Spent, ErasedSector, Boot!ErasedSector, ErasedCnt,
         Boot!ErasedCnt
<1>4. HostCancelled => Boot!HostCancelled
  BY DEF Seen, HostCancelled, Boot!HostCancelled, EndSession, Boot!EndSession,
         nvm, Boot!nvm, choice, Boot!choice, ReceiverIdle, Boot!ReceiverIdle,
         Spent, Boot!Spent, ErasedSector, Boot!ErasedSector, ErasedCnt,
         Boot!ErasedCnt
<1>. QED  BY <1>1, <1>2, <1>3, <1>4

\* The two halves of the shift.
LEMMA ShiftMapped ==
  ASSUME UNCHANGED Seen
  PROVE  /\ BeginPacket => Boot!BeginPacket
         /\ EndShift => Boot!EndShift
<1>1. BeginPacket => Boot!BeginPacket
  BY DEF Seen, BeginPacket, Boot!BeginPacket, Spent, Boot!Spent, nvm,
         Boot!nvm, choice, Boot!choice, session, Boot!session
<1>2. EndShift => Boot!EndShift
  BY DEF Seen, EndShift, Boot!EndShift, Start, Boot!Start, nvm, Boot!nvm,
         choice, Boot!choice, session, Boot!session
<1>. QED  BY <1>1, <1>2

\* Erasing the bank.
LEMMA EraseMapped ==
  ASSUME UNCHANGED Seen
  PROVE  /\ EraseSector => Boot!EraseSector
         /\ EraseFails => Boot!EraseFails
         /\ EraseDone => Boot!EraseDone
<1>1. EraseSector => Boot!EraseSector
  BY DEF Seen, EraseSector, Boot!EraseSector, End, Boot!End, choice,
         Boot!choice, session, Boot!session, uart, Boot!uart
<1>2. EraseFails => Boot!EraseFails
  BY DEF Seen, EraseFails, Boot!EraseFails, End, Boot!End, FlashFailed,
         Boot!FlashFailed, choice, Boot!choice, EndSession, Boot!EndSession,
         ReceiverIdle, Boot!ReceiverIdle, Spent, Boot!Spent, ErasedSector,
         Boot!ErasedSector, ErasedCnt, Boot!ErasedCnt
<1>3. EraseDone => Boot!EraseDone
  BY DEF Seen, EraseDone, Boot!EraseDone, End, Boot!End, nvm, Boot!nvm,
         choice, Boot!choice, uart, Boot!uart
<1>. QED  BY <1>1, <1>2, <1>3

\* Programming a packet.
LEMMA ProgramMapped ==
  ASSUME UNCHANGED Seen
  PROVE  /\ ProgramPacket => Boot!ProgramPacket
         /\ ProgramFails => Boot!ProgramFails
         /\ RejectPacket => Boot!RejectPacket
<1>1. ProgramPacket => Boot!ProgramPacket
  BY DEF Seen, ProgramPacket, Boot!ProgramPacket, Acceptable, Boot!Acceptable,
         Addr, Boot!Addr, ToProgram, Boot!ToProgram, Spent, Boot!Spent,
         choice, Boot!choice, PacketNumber, Boot!PacketNumber, Start,
         Boot!Start
<1>2. ProgramFails => Boot!ProgramFails
  BY DEF Seen, ProgramFails, Boot!ProgramFails, Acceptable, Boot!Acceptable,
         Addr, Boot!Addr, FlashFailed, Boot!FlashFailed, choice, Boot!choice,
         PacketNumber, Boot!PacketNumber, EndSession, Boot!EndSession, Start,
         Boot!Start, ReceiverIdle, Boot!ReceiverIdle, Spent, Boot!Spent,
         ErasedSector, Boot!ErasedSector, ErasedCnt, Boot!ErasedCnt
<1>3. RejectPacket => Boot!RejectPacket
  BY DEF Seen, RejectPacket, Boot!RejectPacket, Acceptable, Boot!Acceptable,
         FlashFailed, Boot!FlashFailed, Spent, Boot!Spent, nvm, Boot!nvm,
         choice, Boot!choice, PacketNumber, Boot!PacketNumber, EndSession,
         Boot!EndSession, Start, Boot!Start, ReceiverIdle, Boot!ReceiverIdle,
         ErasedSector, Boot!ErasedSector, ErasedCnt, Boot!ErasedCnt
<1>. QED  BY <1>1, <1>2, <1>3

\* The commit.
LEMMA CommitMapped ==
  ASSUME UNCHANGED Seen
  PROVE  /\ EndOfTransmission => Boot!EndOfTransmission
         /\ CommitErase => Boot!CommitErase
         /\ CommitWrite => Boot!CommitWrite
         /\ CommitFails => Boot!CommitFails
<1>1. EndOfTransmission => Boot!EndOfTransmission
  BY DEF Seen, EndOfTransmission, Boot!EndOfTransmission, BumpedA,
         Boot!BumpedA, BumpedB, Boot!BumpedB, Content, Boot!Content, nvm,
         Boot!nvm, choice, Boot!choice, session, Boot!session, frame,
         Boot!frame, uart, Boot!uart, UpdateBank, Boot!UpdateBank, Incr,
         Boot!Incr, Start, Boot!Start, End, Boot!End, ErasedCnt,
         Boot!ErasedCnt
<1>2. CommitErase => Boot!CommitErase
  BY DEF Seen, CommitErase, Boot!CommitErase, ErasedSector, Boot!ErasedSector,
         choice, Boot!choice, session, Boot!session, frame, Boot!frame, uart,
         Boot!uart, ErasedCnt, Boot!ErasedCnt
<1>3. CommitWrite => Boot!CommitWrite
  BY DEF Seen, CommitWrite, Boot!CommitWrite, choice, Boot!choice, session,
         Boot!session, frame, Boot!frame, uart, Boot!uart
<1>4. CommitFails => Boot!CommitFails
  BY DEF Seen, CommitFails, Boot!CommitFails, InCommit, Boot!InCommit,
         HalfDone, Boot!HalfDone, ReceiverIdle, Boot!ReceiverIdle, choice,
         Boot!choice, ErasedSector, Boot!ErasedSector, Spent, Boot!Spent,
         ErasedCnt, Boot!ErasedCnt
<1>. QED  BY <1>1, <1>2, <1>3, <1>4

\* All other steps of the CPU happen elsewhere.
LEMMA CpuElsewhere == Cpu /\ pc = "check_update" => CheckFlag
BY DEF Cpu, Receiver, SelectBank, KeyPoll, CheckAndBoot, JumpAfterCommit,
       JumpReturns, DropJunk, ReadHeader, FirstPacketTimeout, HostCancelled,
       BeginPacket, EndShift, EraseSector, EraseFails, EraseDone,
       ProgramPacket, ProgramFails, RejectPacket, EndOfTransmission,
       CommitErase, CommitWrite, CommitFails, InCommit

\* A step of the CPU neither shows the bootloader another word nor misses one.
LEMMA CpuMapped ==
  ASSUME RequestKept, Cpu
  PROVE  Boot!Cpu
<1>1. CASE CheckFlag
  BY <1>1, FlagMapped DEF Boot!Cpu
<1>2. CASE ~CheckFlag
  <2>1. pc # "check_update"
    BY <1>2, CpuElsewhere
  <2>2. otaFlag = FALSE /\ otaFlag' = FALSE
    BY <2>1, CpuSparesFlag DEF RequestKept
  <2>3. UNCHANGED Seen
    BY <2>2 DEF Seen
  <2>4. CASE SelectBank
    BY <2>3, <2>4, WindowMapped DEF Boot!Cpu
  <2>5. CASE \E pressed \in BOOLEAN : KeyPoll(pressed)
    BY <2>3, <2>5, KeyMapped DEF Boot!Cpu
  <2>6. CASE CheckAndBoot \/ JumpAfterCommit \/ JumpReturns
    BY <2>3, <2>6, JumpMapped DEF Boot!Cpu, Boot!Receiver
  <2>7. CASE DropJunk \/ ReadHeader \/ FirstPacketTimeout \/ HostCancelled
    BY <2>3, <2>7, HeaderMapped DEF Boot!Cpu, Boot!Receiver
  <2>8. CASE BeginPacket \/ EndShift
    BY <2>3, <2>8, ShiftMapped DEF Boot!Cpu, Boot!Receiver
  <2>9. CASE EraseSector \/ EraseFails \/ EraseDone
    BY <2>3, <2>9, EraseMapped DEF Boot!Cpu, Boot!Receiver
  <2>10. CASE ProgramPacket \/ ProgramFails \/ RejectPacket
    BY <2>3, <2>10, ProgramMapped DEF Boot!Cpu, Boot!Receiver
  <2>11. CASE EndOfTransmission \/ CommitErase \/ CommitWrite \/ CommitFails
    BY <2>3, <2>11, CommitMapped DEF Boot!Cpu, Boot!Receiver
  <2>. QED  BY <1>2, <2>4, <2>5, <2>6, <2>7, <2>8, <2>9, <2>10, <2>11
            DEF Cpu, Receiver
<1>. QED  BY <1>1, <1>2

\* The interrupt does not touch the word.
LEMMA ReceiveMapped ==
  ASSUME Receive
  PROVE  Boot!Receive
BY DEF Receive, Boot!Receive, USART1_IRQHandler, Boot!USART1_IRQHandler,
       InUpdate, Boot!InUpdate, InPacket, Boot!InPacket, InCommit, Boot!InCommit,
       Control, Boot!Control, nvm, Boot!nvm, choice, Boot!choice,
       session, Boot!session, frame, Boot!frame

\* The two views of a reset agree: nothing in RAM depends on the word.
LEMMA RamMapped == RamCleared <=> Boot!RamCleared
BY DEF RamCleared, Boot!RamCleared, ReceiverIdle, Boot!ReceiverIdle,
       ErasedSector, Boot!ErasedSector, ErasedCnt, Boot!ErasedCnt,
       Spent, Boot!Spent

\* Nor does what a reset leaves of a flash operation.
LEMMA CutMapped == CutShort <=> Boot!CutShort
BY DEF CutShort, Boot!CutShort, End, Boot!End, Acceptable, Boot!Acceptable,
       PacketNumber, Boot!PacketNumber, Start, Boot!Start, Addr, Boot!Addr,
       InCommit, Boot!InCommit, HalfDone, Boot!HalfDone,
       ErasedSector, Boot!ErasedSector, ErasedCnt, Boot!ErasedCnt

\* The reset of the request, and a pin reset after the word has reached memory,
\* are both what the bootloader knows as a request.
LEMMA RequestMapped ==
  ASSUME pc = "app", otaFlag', RamCleared, UNCHANGED <<flash, info>>
  PROVE  Boot!RequestUpdate
BY RamMapped DEF Boot!RequestUpdate, RamCleared

\* Every step of the application and the bootloader is one of the bootloader,
\* or one it does not see.
LEMMA StepMapped ==
  RequestKept /\ [ConsoleNext]_consoleVars => [Boot!Next]_(Boot!vars)
<1>. SUFFICES ASSUME RequestKept, [ConsoleNext]_consoleVars
              PROVE  Boot!Next \/ UNCHANGED Boot!vars
  OBVIOUS
<1>1. CASE Cpu
  BY <1>1, CpuMapped DEF Boot!Next
<1>2. CASE Receive
  BY <1>2, ReceiveMapped DEF Boot!Next
<1>3. CASE UNCHANGED vars
  BY <1>3 DEF vars, Boot!vars
<1>4. CASE SCB_CleanDCache \/ EvictLine
  <2>1. step # "listen" /\ UNCHANGED pc
    BY <1>4 DEF SCB_CleanDCache, EvictLine, RequestKept
  <2>2. UNCHANGED Seen
    BY <2>1 DEF Seen, RequestKept
  <2>. QED  BY <1>4, <2>2 DEF Seen, SCB_CleanDCache, EvictLine, Boot!vars,
                              choice, session, frame, uart
<1>5. CASE NVIC_SystemReset
  <2>1. pc = "app" /\ otaFlag
    BY <1>5 DEF NVIC_SystemReset, RequestKept
  <2>. QED  BY <1>5, <2>1, RequestMapped DEF NVIC_SystemReset, nvm, Boot!Next
<1>6. CASE PowerLoss
  BY <1>6, CutMapped, RamMapped DEF PowerLoss, Boot!PowerLoss, Boot!Next
<1>7. CASE PinReset
  <2>1. CutShort /\ RamCleared /\ UNCHANGED otaFlag /\ pc' = "check_update"
    BY <1>7 DEF PinReset, RamCleared
  <2>2. CASE pc = "app" /\ otaFlag
    <3>1. UNCHANGED <<flash, info>>
      BY <2>1, <2>2 DEF CutShort, InCommit
    <3>. QED  BY <2>1, <2>2, <3>1, RequestMapped DEF Boot!Next
  <2>3. CASE ~(pc = "app" /\ otaFlag)
    <3>1. UNCHANGED Seen
      BY <2>1, <2>3 DEF Seen
    <3>. QED  BY <2>1, <3>1, CutMapped, RamMapped
              DEF Seen, Boot!PinReset, Boot!Next
  <2>. QED  BY <2>2, <2>3
<1>. QED  BY <1>1, <1>2, <1>3, <1>4, <1>5, <1>6, <1>7
          DEF ConsoleNext, ConsoleInterrupt, RequestSteps, StoreRequest,
              ConsoleRestart, consoleVars

\* RefinesBootloader: everything shown of Bootloader, whose environment makes a
\* request in one step, holds with the application that makes it in many.
THEOREM RequestsRefine == ConsoleSpec => RefinesBootloader
BY InitMapped, StepMapped, RequestAlways, PTL
   DEF ConsoleSpec, RefinesBootloader, Boot!Spec

-----------------------------------------------------------------------------
(* The safety of the bootloader under the application it really has *)

\* Inductive of module Bootloader without RequestIsOneShot, which does not
\* hold here: the request word lies in memory while the application still runs.
DeviceSafe ==
  /\ TypeOK /\ CountersInLockstep /\ AppIsCertified
  /\ SessionSparesFallback /\ WritesFromStart /\ CommitDescribesTarget

\* Outside of the application nothing is missing.
LEMMA SafeOutside ==
  ASSUME DeviceSafe, RequestKept, pc # "app"
  PROVE  Inductive
<1>1. RequestIsOneShot
  BY DEF RequestIsOneShot, RequestKept
<1>. QED  BY <1>1 DEF Inductive, DeviceSafe

\* A step outside of the application is one of the bootloader; inside of it,
\* no step writes to flash and only a reset moves anything but the word.
LEMMA StepKinds ==
  ASSUME RequestKept, [ConsoleNext]_consoleVars
  PROVE  \/ pc # "app" /\ [Next]_vars
         \/ pc = "app" /\ ~Cpu /\ UNCHANGED <<flash, info>>
            /\ \/ RamCleared /\ otaFlag' \in BOOLEAN
               \/ /\ otaFlag' \in BOOLEAN
                  /\ UNCHANGED <<itcm, pc, choice, session, frame, backup,
                                 uart, reply, committed>>
<1>. USE DEF nvm
<1>1. CASE Cpu
  BY <1>1, CpuSparesFlag DEF Next
<1>2. CASE Receive
  BY <1>2 DEF Receive, USART1_IRQHandler, Next, InUpdate, InPacket, InCommit
<1>3. CASE UNCHANGED vars
  <2>1. pc = "app" => ~Cpu
    BY CpuSparesFlag
  <2>. QED  BY <1>3, <2>1 DEF vars, RequestKept, choice, session, frame, uart
<1>4. CASE SCB_CleanDCache \/ EvictLine
  <2>1. step # "listen" /\ pc = "app" /\ ~Cpu
    BY <1>4, CpuSparesFlag DEF SCB_CleanDCache, EvictLine, RequestKept
  <2>2. UNCHANGED <<flash, info, itcm, pc, choice, session, frame, backup,
                    uart, reply, committed>>
    BY <1>4 DEF SCB_CleanDCache, EvictLine
  <2>3. otaFlag' \in BOOLEAN
    BY <1>4 DEF SCB_CleanDCache, EvictLine, RequestKept
  <2>. QED  BY <2>1, <2>2, <2>3
<1>5. CASE NVIC_SystemReset
  <2>1. pc = "app" /\ ~Cpu
    BY <1>5, CpuSparesFlag DEF NVIC_SystemReset, RequestKept
  <2>. QED  BY <1>5, <2>1 DEF NVIC_SystemReset, RequestKept
<1>6. CASE PinReset \/ PowerLoss
  <2>1. pc = "app" => ~Cpu /\ UNCHANGED <<flash, info>>
    BY <1>6, CpuSparesFlag DEF PinReset, PowerLoss, CutShort, InCommit
  <2>2. RamCleared /\ otaFlag' \in BOOLEAN
    BY <1>6 DEF PinReset, PowerLoss, RequestKept
  <2>. QED  BY <1>6, <2>1, <2>2 DEF Next
<1>. QED  BY <1>1, <1>2, <1>3, <1>4, <1>5, <1>6
          DEF ConsoleNext, ConsoleInterrupt, RequestSteps, StoreRequest,
              ConsoleRestart, consoleVars

\* The device part of the invariant is kept by every step.
LEMMA DeviceStep ==
  DeviceSafe /\ RequestKept /\ [ConsoleNext]_consoleVars => DeviceSafe'
<1>. SUFFICES ASSUME DeviceSafe, RequestKept, [ConsoleNext]_consoleVars
              PROVE  DeviceSafe'
  OBVIOUS
<1>1. CASE pc # "app" /\ [Next]_vars
  <2>1. Inductive'
    BY <1>1, SafeOutside, InductiveStep
  <2>. QED  BY <2>1 DEF Inductive, DeviceSafe
<1>2. CASE pc = "app" /\ UNCHANGED <<flash, info>> /\ RamCleared
           /\ otaFlag' \in BOOLEAN
  <2>1. TypeOK'
    BY <1>2, RamClearedType DEF DeviceSafe, TypeOK
  <2>2. Safe'
    BY <1>2, LeaveSafe DEF RamCleared, DeviceSafe, CountersInLockstep
  <2>. QED  BY <2>1, <2>2 DEF DeviceSafe, Safe
<1>3. CASE /\ pc = "app" /\ UNCHANGED <<flash, info>> /\ otaFlag' \in BOOLEAN
           /\ UNCHANGED <<itcm, pc, choice, session, frame, backup, uart,
                          reply, committed>>
  <2>. USE DEF choice, session, frame, uart
  <2>1. TypeOK'
    BY <1>3 DEF DeviceSafe, TypeOK
  <2>2. CountersInLockstep' /\ AppIsCertified' /\ SessionSparesFallback'
    BY <1>3 DEF DeviceSafe, CountersInLockstep, AppIsCertified,
                SessionSparesFallback, Fallback
  <2>3. WritesFromStart' /\ CommitDescribesTarget'
    BY <1>3 DEF DeviceSafe, WritesFromStart, CommitDescribesTarget
  <2>. QED  BY <2>1, <2>2, <2>3 DEF DeviceSafe
<1>. QED  BY <1>1, <1>2, <1>3, StepKinds

\* So it holds in every reachable state.
LEMMA DeviceAlways == ConsoleSpec => [](DeviceSafe /\ RequestKept)
<1>1. ConsoleInit => DeviceSafe
  BY InductiveInit DEF ConsoleInit, Inductive, DeviceSafe
<1>. QED  BY <1>1, DeviceStep, RequestInit, RequestStep, PTL DEF ConsoleSpec

\* What OtaConsole adds to the bootloader, an application that requests an
\* update in many interruptible steps and a cache that writes the request back
\* when it likes, costs nothing of what the bootloader guarantees: in lockstep
\* the counters, certified what runs, spared the firmware a reset goes back
\* to, installed what is committed, and bounded the way to rest.
THEOREM ConsoleKeepsGuarantees ==
  ConsoleSpec => /\ []CountersInLockstep /\ []AppIsCertified
                 /\ FallbackSurvives /\ CommitInstalls /\ ComesToRest
<1>1. DeviceSafe => CountersInLockstep /\ AppIsCertified
  BY DEF DeviceSafe
<1>2. ASSUME DeviceSafe, RequestKept, [ConsoleNext]_consoleVars
      PROVE  [(Intact /\ ~committed /\ pc \notin InCommit
               /\ addr <= End(target)) => Intact']_vars
  <2>1. CASE pc # "app" /\ [Next]_vars
    BY <1>2, <2>1, SafeOutside, FallbackStep
  <2>2. CASE UNCHANGED <<flash, info>>
    BY <2>2 DEF Intact, Fallback, Content
  <2>. QED  BY <1>2, <2>1, <2>2, StepKinds
<1>3. ASSUME DeviceSafe, RequestKept, [ConsoleNext]_consoleVars
      PROVE  [(pc = "commit_write" /\ pc' = "jump" /\ ~committed)
              => Intact' /\ Fallback' = target]_vars
  BY <1>3, SafeOutside, StepKinds, CommitStep
<1>4. ASSUME DeviceSafe, RequestKept, [ConsoleNext]_consoleVars
      PROVE  [Cpu /\ ~KeyPoll(TRUE) /\ ~JumpReturns
                => StepsLeft' < StepsLeft]_vars
  BY <1>4, SafeOutside, StepKinds, StepsDescend
<1>. QED  BY <1>1, <1>2, <1>3, <1>4, DeviceAlways, PTL
          DEF ConsoleSpec, FallbackSurvives, CommitInstalls, ComesToRest
=============================================================================
