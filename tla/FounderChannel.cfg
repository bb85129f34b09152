\* Two Founders; two users and two chats of Telegram.
SPECIFICATION Spec
CONSTANTS
  telegram = telegram
  i1 = i1
  i2 = i2
  c1 = c1
  c2 = c2
  f1 = f1
  f2 = f2
  p1 = p1
  Null = Null
  Founders = {f1, f2}
  Adapters = {telegram}
  Identities = {i1, i2}
  AdapterOf <- OnTelegram
  Chats = {c1, c2}
  ChatAdapter <- InTelegram
  Projects = {p1}
SYMMETRY Symmetric
INVARIANTS
  OutboundReachesWriters
