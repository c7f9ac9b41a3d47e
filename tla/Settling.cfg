SPECIFICATION SettlingSpec
CONSTANTS
  o1 = o1
  o2 = o2
  o3 = o3
  u1 = u1
  admin = admin
  NoOne = NoOne
  Subscriber = {u1, admin}
  Operation = {o1, o2, o3}
  Owner <- MCOwner
  Units <- MCUnits
  Rerunnable = {o1}
  Admins = {admin}
  Quota = 10
  MaxConcurrent = 2
  MaxInFlight = 4
  StartUsage = {9}
  MaxMonths = 1
  i1 = i1
  i2 = i2
  Media = {m1}
  Instance = {i1, i2}
  Deployments <- MCDeployments
  MAX_ATTEMPTS = 1
PROPERTIES
  ReservationsEnd
  GenerationsSettle
CHECK_DEADLOCK FALSE
