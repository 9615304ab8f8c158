SPECIFICATION UsersSpec
CONSTANTS
  Addresses = {a1, a2}
  Requests = {r1, r2}
  Users = {u1, u2, u3}
  Mailboxes = {m1}
  Products = {p1}
  RatingInputs = {5, 6}
  StatusInputs = {"approved", "rejected", "spam"}
  Handlers = {h1, h2}
INVARIANTS
  OneDefaultPerPurpose
  TypeOK
  OneAccountPerMailbox
  NobodyLocksOut
  StaleHasCause
PROPERTIES
  PurposeNeverLost
  AloneLeavesOne
  RequestsEnd
