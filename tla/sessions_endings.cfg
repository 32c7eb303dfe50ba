\* Two users and two devices, each making one call at a time; rotation on: every
\* way a caller can end a session, against logins, requests and rotations.
SPECIFICATION Spec
CONSTANTS
  u1 = u1 u2 = u2 s1 = s1 s2 = s2 c1 = c1 c2 = c2 r1 = r1 r2 = r2
  Users = {u1, u2} NoUser = NoUser
  SessionIds = {s1, s2} NoSession = NoSession
  Clients = {c1, c2}
  Requests = {r1, r2}
  Owner <- OneSlotEach
  Ops = {"login", "request", "logout", "logoutAll", "revokeOther", "delete"}
  MFAUsers <- NoMFA
  StaffFlags <- NoStaff
  TTL = 2 RememberMeTTL = 2 RememberThreshold = 3
  IdleTimeout = 0 StaffIdleTimeout = 0 MaxLifetime = 0 RotateInterval = 1
  Faults = {"rotate"}
  MaxTime = 1 MaxToken = 3
SYMMETRY DeviceSymmetry
INVARIANTS EndIsFinal CookieCurrent
PROPERTIES OwnSessionsOnly
