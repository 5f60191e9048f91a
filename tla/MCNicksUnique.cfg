SPECIFICATION Spec
CONSTANTS
  c1 = c1  c2 = c2  c3 = c3  b1 = b1
  n1 = n1  n2 = n2  x1 = x1  x2 = x2  xb = xb
  None = None
  Clients = {c1, c2}
  Bots = {}
  Sids = {c1, c2}
  Nicks = {n1, n2}
  Cids = {x1, x2, xb}
  Draws <- OwnDraws
  BotCid <- BotCids
  BotNicks = {}
  Registered = {}
  FirstInfs <- AllInfs
  LaterInfs <- AllInfs
INVARIANTS
  NicksUnique
CHECK_DEADLOCK FALSE
