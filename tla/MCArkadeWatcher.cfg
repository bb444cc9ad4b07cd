\* Every order of acceptance, payment, report and answer.
SPECIFICATION FairSpec
CONSTANTS
  a1 = a1
  a2 = a2
  b1 = b1
  A = A
  B = B
  v1 = v1
  v2 = v2
  v3 = v3
  t1 = t1
  t2 = t2
  None = None
  Records = {a1, a2, b1}
  Early = {b1}
  Scripts = {A, B}
  Vtxos = {v1, v2, v3}
  Txids = {t1, t2}
  ScriptOf <- MCScriptOf
  Amount <- MCAmount
  VtxoScript <- MCVtxoScript
  Value <- MCValue
  Rank <- MCRank
  TxOf <- MCTxOf
  Window = 2
  Skew = 1
  Lag = 0
  Chunk = 1
  MaxTime = 2
INVARIANTS TypeOK CreditsAreJust
PROPERTIES OldestFirst TiesWasteNothing PaymentsAreCredited
