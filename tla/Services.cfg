SPECIFICATION ServicesSpec
VIEW ServicesView
CONSTANTS
  o1 = o1
  o2 = o2
  o3 = o3
  u1 = u1
  u2 = u2
  k1 = k1
  k2 = k2
  k3 = k3
  k4 = k4
  Everyone = Everyone
  i1 = i1
  i2 = i2
  NoOne = NoOne
  Subscriber = {u1}
  Operation = {o1, o2, o3}
  Owner <- MCOwner
  Units <- MCUnits
  Rerunnable = {o1}
  Admins = {}
  Quota = 40
  MaxConcurrent = 2
  MaxInFlight = 2
  StartUsage = {35, 39}
  MaxMonths = 1
  Media = {g1}
  Instance = {i1, i2}
  Deployments <- MCDeployments
  MAX_ATTEMPTS = 1
  User = {u1}
  Login = {l1}
  Lockout = 2
  MaxEpoch = 2
  MaxHandlers = 2
  MaxEnding = 1
  Save = {s1, s2}
  Text = {a, none}
  Empty = none
  MaxVersions = 2
  Line = {"a", "b", "--x", "++y"}
  Dashed = {"--x"}
  Plussed = {"++y"}
  Texts <- MCTexts
  Contexts = {0, 1, 3}
  MaxDeltas = 2
  Image = {m1, m2}
  Deleting = {q1, q2}
  Restoring = {r1}
  Browser = {b1}
  Documents = {d1}
  MaxLog = 2
  MaxEvents = 4
  MaxRestarts = 1
  Customer = {u1, u2}
  ModelCall = {k1, k2, k3}
  ImageCall = {k4}
  PaidBy <- MCPaidBy
  MaxDays = 2
INVARIANTS
  InFlightBounded
  QuotaRespected
  CompletedHasImage
  AccountCanLogIn
  OldSessionsEnd
  NoChangesMeansAnalysed
  DiffsSound
  ShownOrRestorable
  UsageAccounted
PROPERTIES
  DeletedWhenDue
  EditsKept
  EachEventOnce
CHECK_DEADLOCK FALSE
