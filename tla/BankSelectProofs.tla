-------------------------- MODULE BankSelectProofs --------------------------
(***************************************************************************)
(* What check_bank and the counter bump guarantee together, for counters   *)
(* of every width.                                                         *)
(***************************************************************************)
EXTENDS BankSelect, TLAPS

\* The uint16_t increment stays in the type and is c + 1 but for the wrap.
LEMMA IncrType ==
  ASSUME NEW c \in Counters
  PROVE  Incr(c) \in Counters /\ (c = CntMax => Incr(c) = 0)
                              /\ (c # CntMax => Incr(c) = c + 1)
  BY CntMaxAssumption, SMT DEF Counters, Incr

\* Counting a finished transfer (xmodem.c, X_EOT) keeps the counters level or
\* BankA one ahead, also over the wrap from 0xFFFF to 0.
LEMMA LockstepKept ==
  ASSUME NEW a \in Counters, NEW b \in Counters, InLockstep(a, b)
  PROVE  /\ BumpedA(a, b) \in Counters
         /\ BumpedB(a, b) \in Counters
         /\ InLockstep(BumpedA(a, b), BumpedB(a, b))
<1>1. CASE a = b
  <2>1. UpdateBank(a, b) = "A"
    BY <1>1 DEF UpdateBank
  <2>2. BumpedA(a, b) = Incr(b) /\ BumpedB(a, b) = b
    BY <1>1, <2>1 DEF BumpedA, BumpedB
  <2>. QED  BY <2>2, IncrType DEF InLockstep
<1>2. CASE a # b
  <2>1. a = Incr(b)
    BY <1>2 DEF InLockstep
  <2>2. UpdateBank(a, b) = "B"
    BY <1>2, <2>1, IncrType, CntMaxAssumption DEF UpdateBank, ErasedCnt, Counters
  <2>3. BumpedA(a, b) = a /\ BumpedB(a, b) = Incr(b)
    BY <2>2 DEF BumpedA, BumpedB
  <2>. QED  BY <2>1, <2>3, IncrType DEF InLockstep
<1>. QED  BY <1>1, <1>2

\* As long as the counters are in lockstep, the bank an update overwrites is
\* never the bank a reset boots (README: the running bank is not touched).
THEOREM UpdateSparesBootBank ==
  ASSUME NEW a \in Counters, NEW b \in Counters, InLockstep(a, b)
  PROVE  UpdateBank(a, b) # BootBank(a, b)
<1>1. CASE a = b
  BY <1>1 DEF UpdateBank, BootBank
<1>2. CASE a # b
  <2>1. a = Incr(b)
    BY <1>2 DEF InLockstep
  <2>2. UpdateBank(a, b) = "B"
    BY <1>2, <2>1, IncrType, CntMaxAssumption DEF UpdateBank, ErasedCnt, Counters
  <2>. QED  BY <1>2, <2>2 DEF BootBank
<1>. QED  BY <1>1, <1>2

\* Once the counters are bumped a reset boots the bank the update has just
\* written: the commit switches banks, and does so at the wrap as well.
THEOREM CommitSwitchesBanks ==
  ASSUME NEW a \in Counters, NEW b \in Counters, InLockstep(a, b)
  PROVE  BootBank(BumpedA(a, b), BumpedB(a, b)) = UpdateBank(a, b)
<1>1. CASE a = b
  <2>1. BumpedA(a, b) = Incr(a) /\ BumpedB(a, b) = b /\ UpdateBank(a, b) = "A"
    BY <1>1 DEF UpdateBank, BumpedA, BumpedB
  <2>2. Incr(a) # b
    BY <1>1, IncrType, CntMaxAssumption DEF Counters
  <2>. QED  BY <2>1, <2>2 DEF BootBank
<1>2. CASE a # b
  <2>1. a = Incr(b)
    BY <1>2 DEF InLockstep
  <2>2. UpdateBank(a, b) = "B"
    BY <1>2, <2>1, IncrType, CntMaxAssumption DEF UpdateBank, ErasedCnt, Counters
  <2>3. BumpedA(a, b) = a /\ BumpedB(a, b) = a
    BY <2>1, <2>2 DEF BumpedA, BumpedB
  <2>. QED  BY <2>2, <2>3 DEF BootBank
<1>. QED  BY <1>1, <1>2
=============================================================================
