\* One user, one session, two parallel requests of one browser; limits on; a use may
\* fail to be written down.
SPECIFICATION Spec
CONSTANTS
  u1 = u1 u2 = u2 s1 = s1 s2 = s2 c1 = c1 c2 = c2 r1 = r1 r2 = r2
  Users = {u1} NoUser = NoUser
  SessionIds = {s1} NoSession = NoSession
  Clients = {c1}
  Requests = {r1, r2}
  Owner <- SharedSlots
  Ops = {"login", "remember", "request"}
  MFAUsers <- NoMFA
  StaffFlags <- AnyStaff
  TTL = 5 RememberMeTTL = 7 RememberThreshold = 6
  IdleTimeout = 2 StaffIdleTimeout = 1 MaxLifetime = 3 RotateInterval = 0
  Faults = {"touch"}
  MaxTime = 7 MaxToken = 1
SYMMETRY Symmetry
PROPERTIES AbsoluteCap IdleCap RememberedStays
