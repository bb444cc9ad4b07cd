SPECIFICATION Spec
CONSTANTS
  a = a
  b = b
  v = v
  w = w
  c1 = c1
  c2 = c2
  covenant = covenant
  Names = {a, b}
  Wallets = {v, w}
  Nobody = Nobody
  Codes = {c1, c2}
  NoCode = NoCode
  Rails = {covenant}
  MaxPerSession = 1
  ModeSets <- MCModeSets
SYMMETRY Alike
INVARIANT OneWalletPerHandle
PROPERTIES CodesGrantOnce PolicyIsKept
CHECK_DEADLOCK FALSE
