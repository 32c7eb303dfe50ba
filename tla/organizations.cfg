\* Thirteen workloads of two concurrent calls on one or two organizations.
SPECIFICATION Spec
CONSTANTS
  Orgs = {o1, o2} NoOrg = NoOrg o1 = o1 o2 = o2
  Users = {u1, u2, u3} NoUser = NoUser
  Invites = {i1} NoInvite = NoInvite
  Departments = {d1} Levels = {l1} NoUnit = NoUnit
  ExtraRoles = {"support"}
  Requests = {r1, r2}
  Scenes <- AllScenes
SYMMETRY Symmetry
INVARIANTS TypeOK UnitsAtHome RolesInCatalog
PROPERTIES AuthorityHeld RankRespected SoleOwnerKept SeatAvailable InvitationIsOneTime
CHECK_DEADLOCK FALSE
