CONSTANTS
  User = {guest, account, stranger}
  Guest = guest
  Account = account
  Consent = {c1}
  Voice = {v1, v2}
  Song = {s1}
  Video = {m1}
  None = None
  Delivery = {d1, d2}
  guest = guest
  account = account
  stranger = stranger
  v1 = v1
  v2 = v2
  s1 = s1
  m1 = m1
  d1 = d1
  d2 = d2
  Workloads <- Loads
SPECIFICATION Spec
CHECK_DEADLOCK FALSE
INVARIANTS LibraryTypeOK SourcesAreOwn ProfileTellsJob DeletedStaysHidden
PROPERTY VoicesSettle
