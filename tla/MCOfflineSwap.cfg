\* The lockup is funded up to the quote, as a solver that keeps to it does.
SPECIFICATION FairSpec
CONSTANTS
  s1 = s1
  full = full
  half1 = half1
  half2 = half2
  Swaps = {s1}
  Coins = {full, half1, half2}
  LockupOf <- MCLockupOf
  Value <- MCValue
  Expected <- MCExpected
  RefundAfter = 1
  Ttl = 3
  MaxTime = 3
  MaxRestarts = 1
  ExternalClaimer = TRUE
  Overfunds = FALSE
INVARIANTS TypeOK RevealedOnlyIfPaid SettledHasPayout ClaimsPayQuote
PROPERTIES GivesUpOnlyUnpaid PaidIsRevealed ImplementsReceive
\* A row may lapse and the clock is bounded.
CHECK_DEADLOCK FALSE
