\* Rotation every tick, one client, one call at a time: the absolute cap.
SPECIFICATION Spec
CONSTANTS
  u1 = u1 u2 = u2 s1 = s1 s2 = s2 c1 = c1 c2 = c2 r1 = r1 r2 = r2
  Users = {u1} NoUser = NoUser
  SessionIds = {s1} NoSession = NoSession
  Clients = {c1}
  Requests = {r1}
  Owner <- OneSlot
  Ops = {"login", "request"}
  MFAUsers <- NoMFA
  StaffFlags <- NoStaff
  TTL = 2 RememberMeTTL = 6 RememberThreshold = 4
  IdleTimeout = 0 StaffIdleTimeout = 0 MaxLifetime = 6 RotateInterval = 1
  Faults = {}
  MaxTime = 8 MaxToken = 6
PROPERTIES AbsoluteCap
