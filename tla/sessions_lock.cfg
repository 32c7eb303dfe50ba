\* Lock and unlock against logins, their challenge and requests in flight, behind
\* requireSession or not; one user with a verified factor, one session.
\* Handlers run fairly; pending marks may fail and responses be lost.
SPECIFICATION FairSpec
CONSTANTS
  u1 = u1 u2 = u2 s1 = s1 s2 = s2 c1 = c1 c2 = c2 r1 = r1 r2 = r2
  Users = {u1} NoUser = NoUser
  SessionIds = {s1} NoSession = NoSession
  Clients = {c1}
  Requests = {r1, r2}
  Owner <- SharedSlots
  Ops = {"login", "request", "direct", "challenge", "lock", "unlock", "setStatus"}
  MFAUsers <- AllMFA
  StaffFlags <- NoStaff
  TTL = 1 RememberMeTTL = 1 RememberThreshold = 2
  IdleTimeout = 0 StaffIdleTimeout = 0 MaxLifetime = 0 RotateInterval = 0
  Faults = {"reply", "pending"}
  MaxTime = 1 MaxToken = 1
INVARIANTS TypeOK EndIsFinal LockedNotServed
PROPERTIES LeftoverRevoked
