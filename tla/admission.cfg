\* Two handlers for one or two addresses, in twelve workloads.
SPECIFICATION Spec
CONSTANTS
  a1 = a1 a2 = a2 i1 = i1 t1 = t1
  Addresses = {a1, a2}
  Users = {u1, u2} NoUser = NoUser
  SessionIds = {s1, s2} NoSession = NoSession
  Links = {l1, l2} Codes = {k1} States = {t1, t2} Invites = {i1, i2} NoToken = NoToken
  Tokens <- AllTokens
  Identities = {p1, p2} NoIdentity = NoIdentity
  Requests = {r1, r2}
  Configs <- Workloads
SYMMETRY Symmetry
INVARIANTS TypeOK BarredNotSignedIn SecondFactorAsked OwnIdentity RefusedLeavesNothing
PROPERTIES WipedBeforeVerified LinkIsOneTime StateIsOneTime InviteIsOneTime
CHECK_DEADLOCK FALSE
