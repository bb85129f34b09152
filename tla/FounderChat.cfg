\* One chat; the Founder, and a user who is paired with the chat and on no list; two questions.
SPECIFICATION Spec
CONSTANTS
  c1 = c1
  u1 = u1
  u2 = u2
  q1 = q1
  q2 = q2
  Null = Null
  Chats = {c1}
  Users = {u1, u2}
  AllowedChats = {}
  AllowedUsers = {u1}
  Pairing <- PairedSecond
  Questions = {q1, q2}
  Texts <- SomeTexts
  Stamps = {"naive", "aware"}
  MinInterval = 2
  DefaultInterval = 3
  MaxInterval = 4
  MaxFailures = 1
  MaxRestarts = 1
SYMMETRY Symmetric
INVARIANTS
  DecisionsAreWritten
  NoQuestionDropped
PROPERTIES
  ReportsApart
