SPECIFICATION FairSpec
CONSTANTS
  k1 = k1
  k2 = k2
  c1 = c1
  c2 = c2
  s1 = s1
  s2 = s2
  Conns = {k1, k2}
  Chars = {c1, c2}
  Scripts = {s1, s2}
  NoConn = NoConn
  NoChar = NoChar
  NoScript = NoScript
  Known = {c1}
  Forgers = {k2}
  Rude = FALSE
INVARIANTS
  TypeOK
  RequestsPaired
  OwnCursor
  OneSession
PROPERTIES
  DroppedLeave
  WaitersFreed
