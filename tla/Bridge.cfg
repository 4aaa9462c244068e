SPECIFICATION Spec
CONSTANTS
  m1 = m1
  m2 = m2
  f1 = f1
  f2 = f2
  s1 = s1
  s2 = s2
  Mailboxes = {m1, m2}
  Frames = {f1, f2}
  Shards = {s1, s2}
  Routers = {r1}
  None = None
  Dest <- DestDef
  Home <- HomeDef
  MaxFailures = 2
INVARIANTS
  TypeOK
  MailKept
  AckedOnce
  AliasesKept
  RouterKept
