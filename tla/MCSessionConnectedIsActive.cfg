\* The old stream of a wallet that reconnected closes late.
SPECIFICATION Spec
CONSTANTS
  r1 = r1
  r2 = r2
  w1 = w1
  w2 = w2
  v1 = v1
  u1 = u1
  wallet = wallet
  other = other
  third = third
  home = home
  away = away
  abroad = abroad
  NoConn = NoConn
  NoRequest = NoRequest
  Conns = {w1, w2, v1, u1}
  Ids = {wallet, other, third}
  Ips = {home, away, abroad}
  IdOf <- MCIdOf
  IpOf <- MCIpOf
  Requests = {r1, r2}
  MaxSessions = 2
  MaxPerIp = 1
INVARIANT ConnectedIsActive
\* A stopped server with every stream closed has nothing left to do.
CHECK_DEADLOCK FALSE
