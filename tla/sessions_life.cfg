\* A user with a verified factor and two sessions that may expire: the refinement
\* of SessionLife, with locks, challenges, failing hooks, lost revocations and an
\* unreadable user, and what a session that awaits its challenge may reach.
SPECIFICATION Spec
CONSTANTS
  u1 = u1 u2 = u2 s1 = s1 s2 = s2 c1 = c1 c2 = c2 r1 = r1 r2 = r2
  Users = {u1} NoUser = NoUser
  SessionIds = {s1, s2} NoSession = NoSession
  Clients = {c1}
  Requests = {r1, r2}
  Owner <- SharedSlots
  Ops = {"login", "full", "direct", "challenge", "lock"}
  MFAUsers <- AllMFA
  StaffFlags <- NoStaff
  TTL = 1 RememberMeTTL = 1 RememberThreshold = 2
  IdleTimeout = 0 StaffIdleTimeout = 0 MaxLifetime = 0 RotateInterval = 0
  Faults = {"statusRead", "revoke", "hook"}
  MaxTime = 1 MaxToken = 2
SYMMETRY Symmetry
INVARIANTS MfaProvedBehindGuard
PROPERTIES ImplementsLife
