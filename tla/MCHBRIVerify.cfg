SPECIFICATION Spec
CONSTANTS
  c1 = c1  c2 = c2  c3 = c3
  None = None  Claimed = Claimed  Invalid = Invalid
  Clients = {c1, c2}
  Registered = {c2}
  Tokens = {t1, t2}
  Infs <- SomeInfs
PROPERTIES
  Earned
