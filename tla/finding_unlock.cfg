\* UnlockUser against a status set by the host API.
SPECIFICATION Spec
CONSTANTS
  u1 = u1 u2 = u2 s1 = s1 s2 = s2 c1 = c1 c2 = c2 r1 = r1 r2 = r2
  Users = {u1} NoUser = NoUser
  SessionIds = {s1} NoSession = NoSession
  Clients = {c1}
  Requests = {r1}
  Owner <- OneSlot
  Ops = {"lock", "unlock", "setStatus"}
  MFAUsers <- NoMFA
  StaffFlags <- NoStaff
  TTL = 1 RememberMeTTL = 1 RememberThreshold = 2
  IdleTimeout = 0 StaffIdleTimeout = 0 MaxLifetime = 0 RotateInterval = 0
  Faults = {}
  MaxTime = 0 MaxToken = 1
PROPERTIES UnlockOnlyLocked
