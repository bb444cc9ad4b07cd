\* One payment with a stray output beside it.
SPECIFICATION FairSpec
CONSTANTS
  a = a
  r = r
  u = u
  t1 = t1
  None = None
  Scripts = {a}
  Payments = {r, u}
  Covers = {r}
  Txids = {t1}
  Rank <- MCRank
  ScriptOf <- MCScriptOf
  TxOf <- MCTxOf
  Budget = 1
  MaxRenewals <- MCMaxRenewals
INVARIANTS TypeOK PaidOutIsReceipt
PROPERTIES MoneyIsMoved SettledIsPaidOut
CHECK_DEADLOCK FALSE
