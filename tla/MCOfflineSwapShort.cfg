SPECIFICATION Spec
CONSTANTS
  s1 = s1
  full = full
  half1 = half1
  half2 = half2
  Swaps = {s1}
  Coins = {full, half1, half2}
  LockupOf <- MCLockupOf
  Value <- MCValue
  Expected <- MCExpected
  RefundAfter = 1
  Ttl = 3
  MaxTime = 3
  MaxRestarts = 1
  ExternalClaimer = TRUE
  Overfunds = FALSE
INVARIANT RevealPaysQuote
CHECK_DEADLOCK FALSE
