----------------------------- MODULE BankSelect -----------------------------
(***************************************************************************)
(* Which of the two flash banks an update overwrites and which one a reset *)
(* boots (check_bank, BOOTLOADER/Bootloader/upgrade/IAP.c), and how a      *)
(* finished transfer moves the two upgrade counters that decide it         *)
(* (xmodem.c, case X_EOT).  The counters are the two uint16_t words at the *)
(* end of the bootloader's last sector; an erased word reads CntMax.       *)
(***************************************************************************)
EXTENDS Naturals

CONSTANT CntMax         \* the largest value of a counter, 0xFFFF in the code

ASSUME CntMaxAssumption == CntMax \in Nat \ {0}

Banks == {"A", "B"}

Counters == 0..CntMax

\* Operators named Mutant_* are what a plausible mistake would make of the
\* definition below them; the properties are tried against them.

\* NOR flash reads all ones after an erase.
ErasedCnt == CntMax

\* The test for a bank that was never counted is forgotten.
Mutant_UpdateBank(a, b) == IF a > b THEN "B" ELSE "A"

\* check_bank(bank_select >= 4): BankB when it is the one that lags behind
\* BankA or was never counted, BankA when the counters agree or by default.
UpdateBank(a, b) == IF a # b /\ (b = ErasedCnt \/ a > b) THEN "B" ELSE "A"

\* check_bank(bank_select < 4): BankB when the counters agree; BankA in both
\* of the other branches and by default.
BootBank(a, b) == IF a = b THEN "B" ELSE "A"

\* The counter is kept in a wider type.
Mutant_Incr(c) == c + 1

\* uint16_t increment.
Incr(c) == (c + 1) % (CntMax + 1)

\* check_bank is called with the argument of a plain boot.
Mutant_BumpedA(a, b) == IF BootBank(a, b) = "A" THEN Incr(a) ELSE a

\* The counters an end of transfer stores: check_bank(10) names the one that
\* moves, whatever bank the session has been writing.
BumpedA(a, b) == IF UpdateBank(a, b) = "A" THEN Incr(a) ELSE a
BumpedB(a, b) == IF UpdateBank(a, b) = "B" THEN Incr(b) ELSE b

\* BankA and BankB take turns and BankA starts, so its counter is level with
\* BankB's or one ahead, modulo the width of the counters.
InLockstep(a, b) == a = b \/ a = Incr(b)
=============================================================================
