\* Two owners of one organization leave it at the same time.
SPECIFICATION Spec
CONSTANTS
  Orgs = {o1, o2} NoOrg = NoOrg o1 = o1 o2 = o2
  Users = {u1, u2, u3} NoUser = NoUser
  Invites = {i1} NoInvite = NoInvite
  Departments = {d1} Levels = {l1} NoUnit = NoUnit
  ExtraRoles = {"support"}
  Requests = {r1, r2}
  Scenes <- TwoOwners
SYMMETRY Symmetry
PROPERTIES LastOwnerStays
CHECK_DEADLOCK FALSE
