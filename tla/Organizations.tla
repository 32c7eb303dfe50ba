--------------------------- MODULE Organizations ---------------------------
(***************************************************************************)
(* Company tenancy: organizations with their role catalogs, departments    *)
(* and levels, the memberships and invitations that tie users to them, and *)
(* the active organization of a user's session (OrgService, OrgRepo, the   *)
(* organization handlers and the host API over them).                      *)
(*                                                                         *)
(* No operation uses a transaction.  A call is therefore a list of SQL     *)
(* statements, call[r].route, of which it runs call[r].next; every one is  *)
(* a step, the steps of two calls interleave, and what an earlier one read *)
(* is carried in the call.  A call that is answered frees its slot.        *)
(*                                                                         *)
(* An organization is named by its slug, which is unique and never         *)
(* reused; each user has one session.  Requests are those that passed      *)
(* requireSession: its steps are in Sessions.                              *)
(***************************************************************************)
EXTENDS Naturals, FiniteSets, Sequences, TLC

CONSTANTS
    Orgs, NoOrg,            \* slugs
    Users, NoUser,          \* accounts
    Invites, NoInvite,      \* organization_invitations, with their tokens
    Departments, Levels, NoUnit,
    ExtraRoles,             \* Tenancy.OrgRoles beyond the three defaults
    Requests,               \* handler goroutines the server may be running
    Scenes                  \* the workloads of an instance, see SceneAssumption

VARIABLES
    scene,      \* the workload of this behaviour; it never changes
    account,    \* account[u]: "none", "new" until the signup is answered, "live" or "gone"
    orgs,       \* organizations
    details,    \* details[o]: what PATCH edits
    catalog,    \* catalog[o]: organization_roles
    member,     \* member[o][u]: organization_memberships
    home,       \* home[x]: the organization of a department or level
    inv,        \* inv[i]: organization_invitations
    active,     \* active[u]: active_organization_id of u's session
    call,       \* call[r]: the operation running in slot r
    seen,       \* history: what was true while the call in r ran, see View
    answered    \* history: how many accepts of an invitation were answered with success

rows == <<account, orgs, details, catalog, member, home, inv, active>>
vars == <<scene, rows, call, seen, answered>>

-----------------------------------------------------------------------------
DefaultRoles == {"owner", "admin", "member"}
Roles == DefaultRoles \cup ExtraRoles
Managers == {"owner", "admin"}
Units == Departments \cup Levels

ASSUME NullAssumption ==
    /\ NoOrg \notin Orgs /\ NoInvite \notin Invites /\ NoUnit \notin Units
    /\ "gone" \notin Orgs \cup {NoOrg} /\ Departments \cap Levels = {} /\ NoUser \notin Users
ASSUME RolesAssumption == ExtraRoles \cap {"owner", "admin", "member", "none"} = {}

\* ops: the operations in use; slugs, roles, units: what requests name; faults: statements
\* may fail; max: MaxMembershipsPerUser, 0 for no limit; the rest: what is there at first.
ASSUME SceneAssumption ==
    \A s \in Scenes :
        /\ DOMAIN s = {"ops", "slugs", "roles", "units", "faults", "max", "orgs", "home", "users", "account", "ranks"}
        /\ s.slugs \subseteq Orgs /\ s.roles \subseteq Roles /\ s.units \subseteq Units
        /\ s.faults \in BOOLEAN /\ s.max \in Nat
        /\ s.orgs \subseteq Orgs /\ s.users \in Nat /\ s.account \in {"none", "live"}
        /\ s.ranks \subseteq DefaultRoles \cup {"none"}
        /\ s.home \in s.orgs \/ s.ranks \subseteq {"none"}

\* "none" is no row; a removed membership keeps its row.
Membership == [status: {"none", "active", "removed"}, role: Roles,
               dept: Departments \cup {NoUnit}, level: Levels \cup {NoUnit}]
NoMembership == [status |-> "none", role |-> "member", dept |-> NoUnit, level |-> NoUnit]

Invitation == [state: {"none", "open", "lapsed", "accepted", "revoked"},
               org: Orgs \cup {NoOrg}, role: Roles,
               dept: Departments \cup {NoUnit}, level: Levels \cup {NoUnit}]
NoInvitation == [state |-> "none", org |-> NoOrg, role |-> "member",
                 dept |-> NoUnit, level |-> NoUnit]

\* A unit that was deleted is "gone": a new one of its name has a new id.
Homes == Orgs \cup {NoOrg, "gone"}

Details == [name: {0, 1}, image: {0, 1}]

Statements == {"lookup", "member", "admin", "owner", "target", "decide",
               "hasRole", "changeRole", "remove", "existing", "limit",
               "add", "insertOrg", "seed", "extra", "newRole", "invite", "token",
               "department", "level", "accept", "orgOf", "revoke", "switch",
               "enter", "newUnit", "dropUnit", "patch", "read", "deleteAccount"}

Operations == {"Create", "Ensure", "Update", "AddMember", "SetMemberRole", "ChangeMemberRole",
               "RemoveMember", "Invite", "PlatformInvite", "AcceptInvite", "PeekInvitation",
               "RevokeInvite", "ListInvitations", "Switch", "ClearActive", "Get", "ListMembers",
               "ListRoles", "CreateRoleForActor", "CreateRole", "CreateDepartment",
               "CreateLevel", "CreateUnit", "DeleteDepartment", "ListDepartments",
               "DeleteLevel", "ListLevels", "Signup"}

\* actor calls, unless the host does; user is whose membership is read or written; the rest is what the
\* request names or an earlier statement read.
Call == [op: Operations \cup {"none"}, route: Seq(Statements), next: Nat \ {0},
         org: Orgs \cup {NoOrg}, actor: Users \cup {NoUser}, user: Users \cup {NoUser}, role: Roles \cup {"none"},
         inv: Invites \cup {NoInvite}, dept: Departments \cup {NoUnit}, level: Levels \cup {NoUnit},
         unit: Units \cup {NoUnit}, edit: {"none", "name", "image"},
         actorRole: Roles \cup {"none"}, targetRole: Roles \cup {"none"}, details: Details]
Blank == [op |-> "none", route |-> <<>>, next |-> 1, org |-> NoOrg,
          actor |-> NoUser, user |-> NoUser, role |-> "none",
          inv |-> NoInvite, dept |-> NoUnit, level |-> NoUnit, unit |-> NoUnit,
          edit |-> "none", actorRole |-> "none", targetRole |-> "none",
          details |-> [name |-> 0, image |-> 0]]

-----------------------------------------------------------------------------
\* What the statements compute.

IsActive(o, u) == member[o][u].status = "active"

\* CountMemberships.
Seats(u) == {o \in Orgs : IsActive(o, u)}

\* CountActiveRole(owner).
Owners(o) == {u \in Users : IsActive(o, u) /\ member[o][u].role = "owner"}

\* ON CONFLICT DO UPDATE: a unit that is not given keeps the old one.
Upsert(old, role, dept, level) ==
    [status |-> "active", role |-> role,
     dept |-> IF dept = NoUnit THEN old.dept ELSE dept,
     level |-> IF level = NoUnit THEN old.level ELSE level]

\* memberRoleDecision: whether the actor's role may give the target nextRole, which
\* is "none" to remove it.
\* Mutants: an admin may touch the other admins; the last owner is not counted.
AdminsAreEqual(actorRole, targetRole, nextRole, owners) ==
    /\ actorRole \in Managers
    /\ nextRole # "owner"
    /\ ~(targetRole = "owner" /\ owners <= 1)
    /\ ~(actorRole = "admin" /\ (targetRole = "owner" \/ nextRole = "admin"))
OwnersUncounted(actorRole, targetRole, nextRole, owners) ==
    /\ actorRole \in Managers
    /\ nextRole # "owner"
    /\ ~(targetRole = "owner" /\ owners < 1)
    /\ ~(actorRole = "admin" /\ (targetRole \in Managers \/ nextRole = "admin"))
MemberRoleDecision(actorRole, targetRole, nextRole, owners) ==
    /\ actorRole \in Managers
    /\ nextRole # "owner"
    /\ ~(targetRole = "owner" /\ owners <= 1)
    /\ ~(actorRole = "admin" /\ (targetRole \in Managers \/ nextRole = "admin"))

-----------------------------------------------------------------------------
\* How a call moves on.

Now(r, statement) == call[r].op # "none" /\ call[r].route[call[r].next] = statement

\* The next statement is not needed.
Skip(c) == [c EXCEPT !.next = @ + 1]
Become(r, c) == call' = [call EXCEPT ![r] = IF c.next < Len(c.route) THEN Skip(c) ELSE Blank]
Proceed(r) == Become(r, call[r])

\* A signup that cannot join its organization deletes the account it has created.
Withdrawal == <<"deleteAccount">>
Refuse(r) ==
    call' = [call EXCEPT ![r] =
               IF @.op = "Signup" THEN [@ EXCEPT !.route = Withdrawal, !.next = 1] ELSE Blank]

Pass(r, condition) == IF condition THEN Proceed(r) ELSE Refuse(r)

Ask(op, route) == [Blank EXCEPT !.op = op, !.route = route]

Arrive(r, c) ==
    /\ call[r].op = "none" /\ c.op \in scene.ops
    /\ call' = [call EXCEPT ![r] = c]
    /\ UNCHANGED rows

\* requireSession: the actor is signed in.
ByUser(r, u, c) == account[u] = "live" /\ Arrive(r, [c EXCEPT !.actor = u])

\* GetBySlug.  An organization is never deleted, so when it is read does not matter: a
\* slug that is not there is refused at once and changes nothing.
Find(r, u, o, c) == o \in orgs /\ ByUser(r, u, [c EXCEPT !.org = o])

-----------------------------------------------------------------------------
\* The operations of OrgService, as the statements they run.

\* Mutant: the owner joins before the catalog is there.
CreateUnseeded == <<"limit", "insertOrg", "add", "seed", "extra">>
Create == <<"limit", "insertOrg", "seed", "extra", "add">>
Ensure == <<"lookup", "insertOrg", "seed", "extra">>
EnsureOwned == Ensure \o <<"add">>
Update == <<"admin", "patch">>
AddMember == <<"hasRole", "existing", "limit", "add">>
SetMemberRole == <<"target">> \o AddMember
MemberChangeContext == <<"member", "target", "decide">>
ChangeMemberRole == MemberChangeContext \o <<"hasRole", "changeRole">>
RemoveMember == MemberChangeContext \o <<"remove">>
Invite == <<"admin", "hasRole", "invite">>
PlatformInvite == <<"hasRole", "invite">>
AcceptInvite == <<"token", "limit", "department", "level", "add", "accept", "orgOf">>
PeekInvitation == <<"token", "orgOf">>
RevokeInvite == <<"admin", "revoke">>
ListInvitations == <<"admin", "read">>
SwitchActive == <<"member", "switch">>
ClearActive == <<"switch">>
ListMembers == <<"member", "read">>
ListRoles == <<"member", "read">>
CreateRoleForActor == <<"owner", "newRole">>
CreateDepartmentForActor == <<"admin", "newUnit">>
DeleteDepartment == <<"admin", "dropUnit">>
ListDepartments == <<"member", "read">>
CreateLevelForActor == <<"admin", "newUnit">>
DeleteLevel == <<"admin", "dropUnit">>
ListLevels == <<"member", "read">>
CreateOnSignup == Create \o <<"enter", "switch">>
JoinOnSignup == AcceptInvite \o <<"enter", "switch">>

-----------------------------------------------------------------------------
\* History.  A call may act on what it read as long as that was true at some moment
\* of the call, so every property below is about the whole call.

Rank(o, u) == IF IsActive(o, u) THEN member[o][u].role ELSE member[o][u].status

\* The organization whose rows the call touches: RevokeInvite goes by the id of the
\* invitation, which may be of another organization than the slug names.
Subject(c) == IF c.op = "RevokeInvite" THEN inv[c.inv].org ELSE c.org
Foreign(c) == Subject(c) # c.org

\* What the actor may do in that organization.
Authority(c) ==
    {member[o][c.actor].role : o \in {p \in Orgs : p = Subject(c) /\ c.actor # NoUser /\ IsActive(p, c.actor)}}
        \cup (IF c.inv # NoInvite /\ inv[c.inv].state = "open" THEN {"invited"} ELSE {})

\* actor: every authority the actor has had; target: every rank the user has had;
\* sole: the user of a PATCH or DELETE was the only owner all along; room: the user had a
\* free seat once.
Seen == [actor: SUBSET (Roles \cup {"invited"}), target: SUBSET (Roles \cup {"none", "removed"}),
         sole: BOOLEAN, room: BOOLEAN]
NoView == [actor |-> {}, target |-> {}, sole |-> FALSE, room |-> FALSE]
View(c) ==
    LET changing == c.op \in {"ChangeMemberRole", "RemoveMember"}
        adding == c.op \in {"AddMember", "Create", "AcceptInvite", "Signup"}
    IN  [actor |-> Authority(c),
         target |-> IF changing \/ c.op = "AddMember" THEN {Rank(c.org, c.user)} ELSE {},
         sole |-> changing /\ Owners(c.org) = {c.user},
         room |-> adding /\ (scene.max = 0 \/ Cardinality(Seats(c.user)) < scene.max)]

\* The accepts of an invitation that are under way.
InFlight(i) == {r \in Requests : call[r].inv = i /\ call[r].op \in {"AcceptInvite", "Signup"}}

\* An answer that is lost on its way counts as given.
History ==
    /\ seen' = [r \in Requests |->
                  LET v == View(call[r])'
                      w == seen[r]
                  IN  IF call'[r] = Blank THEN NoView
                      ELSE IF call[r] = Blank THEN v
                      ELSE [actor |-> w.actor \cup v.actor, target |-> w.target \cup v.target,
                            sole |-> w.sole /\ v.sole, room |-> w.room \/ v.room]]
    /\ answered' = [i \in Invites |->
                      answered[i] + Cardinality({r \in InFlight(i) :
                          Now(r, "orgOf") /\ call'[r] # call[r] /\ call'[r].route # Withdrawal})]

-----------------------------------------------------------------------------
\* What is there when a behaviour starts: the organizations of the scene with their
\* default roles, and in one of them the memberships of some of their users, of the ranks it allows.

Init ==
    /\ scene \in Scenes
    /\ orgs = scene.orgs
    /\ details = [o \in Orgs |-> [name |-> 0, image |-> 0]]
    /\ catalog = [o \in Orgs |-> IF o \in scene.orgs THEN DefaultRoles ELSE {}]
    /\ \E U \in SUBSET Users :
          /\ Cardinality(U) = scene.users
          /\ account = [u \in Users |-> IF u \in U THEN scene.account ELSE "gone"]
          /\ \E rank \in [U -> scene.ranks] :
                member = [o \in Orgs |-> [u \in Users |->
                            IF o = scene.home /\ u \in U /\ rank[u] # "none"
                            THEN [NoMembership EXCEPT !.status = "active", !.role = rank[u]]
                            ELSE NoMembership]]
    /\ home = [x \in Units |-> NoOrg]
    /\ inv = [i \in Invites |-> NoInvitation]
    /\ active = [u \in Users |-> NoOrg]
    /\ call = [r \in Requests |-> Blank]
    /\ seen = [r \in Requests |-> NoView]
    /\ answered = [i \in Invites |-> 0]

-----------------------------------------------------------------------------
\* The statements.

\* RequireMember of the actor; its role goes into the decision.
\* Mutant: a removed membership still counts.
ReadAnyMember(r) ==
    /\ Now(r, "member")
    /\ LET m == member[call[r].org][call[r].actor]
       IN  IF m.status # "none"
           THEN Become(r, [call[r] EXCEPT !.actorRole = m.role]) ELSE Refuse(r)
    /\ UNCHANGED rows
ReadMember(r) ==
    /\ Now(r, "member")
    /\ LET m == member[call[r].org][call[r].actor]
       IN  IF m.status = "active"
           THEN Become(r, [call[r] EXCEPT !.actorRole = m.role]) ELSE Refuse(r)
    /\ UNCHANGED rows

RequireRole(r, statement, allowed) ==
    /\ Now(r, statement)
    /\ LET m == member[call[r].org][call[r].actor]
       IN  Pass(r, m.status = "active" /\ m.role \in allowed)
    /\ UNCHANGED rows

ReadTarget(r) ==
    /\ Now(r, "target")
    /\ LET m == member[call[r].org][call[r].user]
       IN  IF m.status = "active"
           THEN Become(r, [call[r] EXCEPT !.targetRole = m.role]) ELSE Refuse(r)
    /\ UNCHANGED rows

\* CountActiveRole, and the decision on what was read before it.
Decide(r) ==
    /\ Now(r, "decide")
    /\ LET c == call[r]
       IN  Pass(r, MemberRoleDecision(c.actorRole, c.targetRole, c.role, Cardinality(Owners(c.org))))
    /\ UNCHANGED rows

\* No invitation is written for the owner role.
HasOrgRole(r) ==
    /\ Now(r, "hasRole")
    /\ LET c == call[r]
       IN  Pass(r, c.role \in catalog[c.org] /\ (c.op \in {"Invite", "PlatformInvite"} => c.role # "owner"))
    /\ UNCHANGED rows

\* No row of an active member: nothing is changed and the call succeeds all the same.
UpdateMembershipRole(r) ==
    /\ Now(r, "changeRole")
    /\ LET c == call[r]
       IN  member' = IF IsActive(c.org, c.user)
                     THEN [member EXCEPT ![c.org][c.user].role = c.role] ELSE member
    /\ Proceed(r)
    /\ UNCHANGED <<account, orgs, details, catalog, home, inv, active>>

\* Mutant: the role goes with the status.
RemoveMembershipAndRole(r) ==
    /\ Now(r, "remove")
    /\ LET c == call[r]
       IN  IF IsActive(c.org, c.user)
           THEN /\ member' = [member EXCEPT ![c.org][c.user].status = "removed",
                                           ![c.org][c.user].role = "none"]
                /\ Proceed(r)
           ELSE Refuse(r) /\ UNCHANGED member
    /\ UNCHANGED <<account, orgs, details, catalog, home, inv, active>>
RemoveMembership(r) ==
    /\ Now(r, "remove")
    /\ LET c == call[r]
       IN  IF IsActive(c.org, c.user)
           THEN /\ member' = [member EXCEPT ![c.org][c.user].status = "removed"]
                /\ Proceed(r)
           ELSE Refuse(r) /\ UNCHANGED member
    /\ UNCHANGED <<account, orgs, details, catalog, home, inv, active>>

\* AddMember reads the row it will write back; with one, whatever its status, the
\* limit is not asked.
GetMembership(r) ==
    /\ Now(r, "existing")
    /\ LET c == call[r]
           m == member[c.org][c.user]
       IN  Become(r, IF m.status = "none" THEN c
                     ELSE Skip([c EXCEPT !.dept = m.dept, !.level = m.level]))
    /\ UNCHANGED rows

\* Mutant: one membership too many.
CheckMembershipLimitLate(r) ==
    /\ Now(r, "limit")
    /\ Pass(r, scene.max = 0 \/ Cardinality(Seats(call[r].user)) <= scene.max)
    /\ UNCHANGED rows
CheckMembershipLimit(r) ==
    /\ Now(r, "limit")
    /\ Pass(r, scene.max = 0 \/ Cardinality(Seats(call[r].user)) < scene.max)
    /\ UNCHANGED rows

\* A department or level that was deleted since it was read fails its foreign key.
AddMembership(r) ==
    /\ Now(r, "add")
    /\ LET c == call[r]
       IN  IF \A x \in {c.dept, c.level} \ {NoUnit} : home[x] \in Orgs
           THEN /\ member' = [member EXCEPT ![c.org][c.user] = Upsert(@, c.role, c.dept, c.level)]
                /\ Proceed(r)
           ELSE Refuse(r) /\ UNCHANGED member
    /\ UNCHANGED <<account, orgs, details, catalog, home, inv, active>>

\* Ensure inserts only what it does not find, and goes on when it lost the race.
Lookup(r) ==
    /\ Now(r, "lookup")
    /\ Become(r, IF call[r].org \in orgs THEN Skip(call[r]) ELSE call[r])
    /\ UNCHANGED rows

InsertOrganization(r) ==
    /\ Now(r, "insertOrg")
    /\ Pass(r, call[r].org \notin orgs \/ call[r].op = "Ensure")
    /\ orgs' = orgs \cup {call[r].org}
    /\ UNCHANGED <<account, details, catalog, member, home, inv, active>>

SeedDefaultRoles(r) ==
    /\ Now(r, "seed")
    /\ catalog' = [catalog EXCEPT ![call[r].org] = @ \cup DefaultRoles]
    /\ Proceed(r)
    /\ UNCHANGED <<account, orgs, details, member, home, inv, active>>

SeedExtraRoles(r) ==
    /\ Now(r, "extra")
    /\ catalog' = [catalog EXCEPT ![call[r].org] = @ \cup ExtraRoles]
    /\ Proceed(r)
    /\ UNCHANGED <<account, orgs, details, member, home, inv, active>>

CreateRole(r) ==
    /\ Now(r, "newRole")
    /\ LET c == call[r]
           new == c.role # "owner" /\ c.role \notin catalog[c.org]
       IN  /\ catalog' = IF new THEN [catalog EXCEPT ![c.org] = @ \cup {c.role}] ELSE catalog
           /\ Pass(r, new)
    /\ UNCHANGED <<account, orgs, details, member, home, inv, active>>

\* The host's OrgInvitePolicy may refuse right before it.
CreateInvitation(r) ==
    /\ Now(r, "invite")
    /\ LET c == call[r]
       IN  \/ /\ \E i \in Invites :
                    /\ inv[i].state = "none"
                    /\ inv' = [inv EXCEPT ![i] = [state |-> "open", org |-> c.org, role |-> c.role,
                                                  dept |-> c.dept, level |-> c.level]]
              /\ Proceed(r)
           \/ Refuse(r) /\ UNCHANGED inv
    /\ UNCHANGED <<account, orgs, details, catalog, member, home, active>>

\* GetInvitationByTokenHash: revoked, accepted and expired ones are refused.
ReadInvitation(r) ==
    /\ Now(r, "token")
    /\ Pass(r, inv[call[r].inv].state = "open")
    /\ UNCHANGED rows

\* A unit that is not of this organization is left out.
\* Mutant: a department of any organization will do.
DepartmentExistsAnywhere(r) ==
    /\ Now(r, "department")
    /\ LET c == call[r]
       IN  Become(r, IF c.dept # NoUnit /\ home[c.dept] \notin Orgs
                     THEN [c EXCEPT !.dept = NoUnit] ELSE c)
    /\ UNCHANGED rows
DepartmentExists(r) ==
    /\ Now(r, "department")
    /\ LET c == call[r]
       IN  Become(r, IF c.dept # NoUnit /\ home[c.dept] # c.org
                     THEN [c EXCEPT !.dept = NoUnit] ELSE c)
    /\ UNCHANGED rows

LevelExists(r) ==
    /\ Now(r, "level")
    /\ LET c == call[r]
       IN  Become(r, IF c.level # NoUnit /\ home[c.level] # c.org
                     THEN [c EXCEPT !.level = NoUnit] ELSE c)
    /\ UNCHANGED rows

\* UPDATE ... WHERE accepted_at IS NULL AND revoked_at IS NULL: not the expiry.
\* Mutant: the row count is not looked at.
AcceptInvitationAlways(r) ==
    /\ Now(r, "accept")
    /\ inv' = [inv EXCEPT ![call[r].inv].state = IF @ \in {"open", "lapsed"} THEN "accepted" ELSE @]
    /\ Proceed(r)
    /\ UNCHANGED <<account, orgs, details, catalog, member, home, active>>
AcceptInvitation(r) ==
    /\ Now(r, "accept")
    /\ LET i == call[r].inv
           pending == inv[i].state \in {"open", "lapsed"}
       IN  /\ inv' = IF pending THEN [inv EXCEPT ![i].state = "accepted"] ELSE inv
           /\ Pass(r, pending)
    /\ UNCHANGED <<account, orgs, details, catalog, member, home, active>>

OrganizationOf(r) ==
    /\ Now(r, "orgOf")
    /\ Proceed(r)
    /\ UNCHANGED rows

\* By the id of the invitation alone, whichever organization it is of.
RevokeInvitation(r) ==
    /\ Now(r, "revoke")
    /\ LET i == call[r].inv
       IN  inv' = [inv EXCEPT ![i].state = IF @ \in {"open", "lapsed"} THEN "revoked" ELSE @]
    /\ Proceed(r)
    /\ UNCHANGED <<account, orgs, details, catalog, member, home, active>>

SetActiveOrganization(r) ==
    /\ Now(r, "switch")
    /\ active' = [active EXCEPT ![call[r].actor] = call[r].org]
    /\ account' = [account EXCEPT ![call[r].actor] = "live"]
    /\ Proceed(r)
    /\ UNCHANGED <<orgs, details, catalog, member, home, inv>>

\* SwitchActive of the signup, whose error is ignored.
Enter(r) ==
    /\ Now(r, "enter")
    /\ LET c == call[r]
           may == IsActive(c.org, c.actor)
       IN  /\ Become(r, IF may THEN c ELSE Skip(c))
           /\ account' = IF may THEN account ELSE [account EXCEPT ![c.actor] = "live"]
    /\ UNCHANGED <<orgs, details, catalog, member, home, inv, active>>

\* CreateDepartment and CreateLevel; the name of a unit is unique.
CreateUnit(r) ==
    /\ Now(r, "newUnit")
    /\ LET c == call[r]
           new == home[c.unit] = NoOrg
       IN  /\ home' = IF new THEN [home EXCEPT ![c.unit] = c.org] ELSE home
           /\ Pass(r, new)
    /\ UNCHANGED <<account, orgs, details, catalog, member, inv, active>>

\* DELETE ... WHERE id AND organization_id; ON DELETE SET NULL in the memberships.
DeleteUnit(r) ==
    /\ Now(r, "dropUnit")
    /\ LET c == call[r]
           x == c.unit
           there == home[x] = c.org
           Without(m) == [m EXCEPT !.dept = IF @ = x THEN NoUnit ELSE @,
                                   !.level = IF @ = x THEN NoUnit ELSE @]
       IN  /\ home' = IF there THEN [home EXCEPT ![x] = "gone"] ELSE home
           /\ member' = IF there THEN [o \in Orgs |-> [u \in Users |-> Without(member[o][u])]]
                        ELSE member
           /\ Pass(r, there)
    /\ UNCHANGED <<account, orgs, details, catalog, inv, active>>

\* All columns are written: what the caller left out, as it was read by GetBySlug.
UpdateDetails(r) ==
    /\ Now(r, "patch")
    /\ LET c == call[r]
       IN  details' = [details EXCEPT ![c.org] =
                         IF c.edit = "name" THEN [c.details EXCEPT !.name = 1]
                         ELSE [c.details EXCEPT !.image = 1]]
    /\ Proceed(r)
    /\ UNCHANGED <<account, orgs, catalog, member, home, inv, active>>

\* The statement that reads what a list answers.
ReadList(r) ==
    /\ Now(r, "read")
    /\ Proceed(r)
    /\ UNCHANGED rows

\* DeleteAccount revokes the sessions and anonymizes the row; the memberships are in
\* the other database and stay.  Its error is ignored.
DeleteAccount(r) ==
    /\ Now(r, "deleteAccount")
    /\ LET u == call[r].actor
       IN  \E fails \in {FALSE, scene.faults} :
             account' = [account EXCEPT ![u] = IF fails THEN "live" ELSE "gone"]
    /\ call' = [call EXCEPT ![r] = Blank]
    /\ UNCHANGED <<orgs, details, catalog, member, home, inv, active>>

\* The database fails a statement, or the process stops: what ran before it stays.
Fail(r) ==
    /\ scene.faults /\ call[r].op # "none"
    /\ ~Now(r, "deleteAccount") /\ ~(call[r].op = "Signup" /\ (Now(r, "enter") \/ Now(r, "switch")))
    /\ Refuse(r)
    /\ UNCHANGED rows

-----------------------------------------------------------------------------
\* The handlers, one per route, with what a request may name.

OnCreate(r, u, o) ==
    ByUser(r, u, [Ask("Create", Create) EXCEPT !.user = u, !.org = o, !.role = "owner"])
OnGet(r, u, o) == Find(r, u, o, Ask("Get", <<"member", "read">>))
OnPatch(r, u, o, field) ==
    Find(r, u, o, [Ask("Update", Update) EXCEPT !.edit = field, !.details = details[o]])
OnMembers(r, u, o) == Find(r, u, o, Ask("ListMembers", ListMembers))
OnPatchMember(r, u, o, t, role) ==
    Find(r, u, o, [Ask("ChangeMemberRole", ChangeMemberRole) EXCEPT !.user = t, !.role = role])
OnDeleteMember(r, u, o, t) == Find(r, u, o, [Ask("RemoveMember", RemoveMember) EXCEPT !.user = t])
OnInvite(r, u, o, role, dept, level) ==
    Find(r, u, o, [Ask("Invite", Invite) EXCEPT !.role = role, !.dept = dept, !.level = level])
OnRevokeInvite(r, u, o, i) ==
    inv[i].state # "none" /\ Find(r, u, o, [Ask("RevokeInvite", RevokeInvite) EXCEPT !.inv = i])
\* The row of the invitation never changes but for its state.
Terms(c, i) == [c EXCEPT !.inv = i, !.org = inv[i].org, !.role = inv[i].role,
                         !.dept = inv[i].dept, !.level = inv[i].level]
OnAcceptInvite(r, u, i) ==
    /\ inv[i].state # "none"
    /\ ByUser(r, u, [Terms(Ask("AcceptInvite", AcceptInvite), i) EXCEPT !.user = u])
OnSwitch(r, u, o) ==
    \/ ByUser(r, u, [Ask("Switch", SwitchActive) EXCEPT !.org = o])
    \/ ByUser(r, u, Ask("ClearActive", ClearActive))
OnListRoles(r, u, o) == Find(r, u, o, Ask("ListRoles", ListRoles))
OnCreateRole(r, u, o, role) ==
    Find(r, u, o, [Ask("CreateRoleForActor", CreateRoleForActor) EXCEPT !.role = role])
OnListDepartments(r, u, o) == Find(r, u, o, Ask("ListDepartments", ListDepartments))
OnCreateDepartment(r, u, o, x) ==
    Find(r, u, o, [Ask("CreateDepartment", CreateDepartmentForActor) EXCEPT !.unit = x])
OnDeleteDepartment(r, u, o, x) ==
    Find(r, u, o, [Ask("DeleteDepartment", DeleteDepartment) EXCEPT !.unit = x])
OnListLevels(r, u, o) == Find(r, u, o, Ask("ListLevels", ListLevels))
OnCreateLevel(r, u, o, x) ==
    Find(r, u, o, [Ask("CreateLevel", CreateLevelForActor) EXCEPT !.unit = x])
OnDeleteLevel(r, u, o, x) == Find(r, u, o, [Ask("DeleteLevel", DeleteLevel) EXCEPT !.unit = x])
OnListInvitations(r, u, o) == Find(r, u, o, Ask("ListInvitations", ListInvitations))
OnValidateInvite(r, i) ==
    /\ inv[i].state # "none"
    /\ Arrive(r, [Ask("PeekInvitation", PeekInvitation) EXCEPT !.inv = i, !.org = inv[i].org])

\* The account is there; its organization is made or joined before it is answered.
OnSignup(r, u) ==
    /\ account[u] = "none" /\ account' = [account EXCEPT ![u] = "new"]
    /\ call[r].op = "none" /\ "Signup" \in scene.ops
    /\ \E c \in {Terms(Ask("Signup", JoinOnSignup), i) : i \in {j \in Invites : inv[j].state # "none"}}
                \cup {[Ask("Signup", CreateOnSignup) EXCEPT !.org = o, !.role = "owner"] : o \in scene.slugs}
                \cup {Ask("Signup", Withdrawal)} :
          call' = [call EXCEPT ![r] = [c EXCEPT !.actor = u, !.user = u]]
    /\ UNCHANGED <<orgs, details, catalog, member, home, inv, active>>

\* The host calls the service itself, and answers for who may.
HostEnsure(r, o, u) ==
    /\ account[u] = "live"
    /\ \E route \in {Ensure, EnsureOwned} :
          Arrive(r, [Ask("Ensure", route) EXCEPT !.org = o, !.user = u, !.role = "owner"])
HostAddMember(r, o, u, role) ==
    /\ o \in orgs /\ account[u] = "live"
    /\ Arrive(r, [Ask("AddMember", AddMember) EXCEPT !.org = o, !.user = u, !.role = role])
HostSetRole(r, o, u, role) ==
    /\ o \in orgs
    /\ Arrive(r, [Ask("SetMemberRole", SetMemberRole) EXCEPT !.org = o, !.user = u, !.role = role])
HostPlatformInvite(r, o, role, dept, level) ==
    Arrive(r, [Ask("PlatformInvite", PlatformInvite) EXCEPT
                 !.org = o, !.role = role, !.dept = dept, !.level = level])
HostCreateRole(r, o, role) ==
    o \in orgs /\ Arrive(r, [Ask("CreateRole", <<"newRole">>) EXCEPT !.org = o, !.role = role])
HostCreateUnit(r, o, x) ==
    o \in orgs /\ Arrive(r, [Ask("CreateUnit", <<"newUnit">>) EXCEPT !.org = o, !.unit = x])

Lapse(i) ==
    /\ "lapse" \in scene.ops /\ inv[i].state = "open"
    /\ inv' = [inv EXCEPT ![i].state = "lapsed"]
    /\ UNCHANGED <<account, orgs, details, catalog, member, home, active, call>>

-----------------------------------------------------------------------------
\* The department_id and level_id a payload may carry.
PayloadDepartments == (Departments \cap scene.units) \cup {NoUnit}
PayloadLevels == (Levels \cap scene.units) \cup {NoUnit}

Request(r) ==
    /\ call[r].op = "none"
    /\ \/ \E u \in Users, o \in scene.slugs :
             \/ OnCreate(r, u, o) \/ OnGet(r, u, o) \/ OnMembers(r, u, o)
             \/ OnListRoles(r, u, o) \/ OnListDepartments(r, u, o) \/ OnListLevels(r, u, o)
             \/ OnListInvitations(r, u, o) \/ OnSwitch(r, u, o)
             \/ \E field \in {"name", "image"} : OnPatch(r, u, o, field)
             \/ \E t \in Users : OnDeleteMember(r, u, o, t)
             \/ \E t \in Users, role \in scene.roles : OnPatchMember(r, u, o, t, role)
             \/ \E role \in scene.roles : OnCreateRole(r, u, o, role)
             \/ \E role \in scene.roles, d \in PayloadDepartments, l \in PayloadLevels : OnInvite(r, u, o, role, d, l)
             \/ \E i \in Invites : OnRevokeInvite(r, u, o, i)
             \/ \E d \in Departments \cap scene.units : OnCreateDepartment(r, u, o, d) \/ OnDeleteDepartment(r, u, o, d)
             \/ \E l \in Levels \cap scene.units : OnCreateLevel(r, u, o, l) \/ OnDeleteLevel(r, u, o, l)
       \/ \E u \in Users, i \in Invites : OnAcceptInvite(r, u, i)
       \/ \E i \in Invites : OnValidateInvite(r, i)
       \/ \E u \in Users : OnSignup(r, u)
       \/ \E o \in scene.slugs, u \in Users : HostEnsure(r, o, u)
       \/ \E o \in scene.slugs, u \in Users, role \in scene.roles : HostAddMember(r, o, u, role) \/ HostSetRole(r, o, u, role)
       \/ \E o \in scene.slugs, role \in scene.roles : HostCreateRole(r, o, role)
       \/ \E o \in scene.slugs, role \in scene.roles, d \in PayloadDepartments, l \in PayloadLevels :
             HostPlatformInvite(r, o, role, d, l)
       \/ \E o \in scene.slugs, x \in scene.units : HostCreateUnit(r, o, x)

Statement(r) ==
    \/ ReadMember(r)
    \/ RequireRole(r, "admin", Managers) \/ RequireRole(r, "owner", {"owner"})
    \/ ReadTarget(r) \/ Decide(r) \/ HasOrgRole(r)
    \/ UpdateMembershipRole(r) \/ RemoveMembership(r) \/ GetMembership(r)
    \/ CheckMembershipLimit(r) \/ AddMembership(r)
    \/ Lookup(r) \/ InsertOrganization(r) \/ SeedDefaultRoles(r) \/ SeedExtraRoles(r)
    \/ CreateRole(r) \/ CreateInvitation(r) \/ ReadInvitation(r)
    \/ DepartmentExists(r) \/ LevelExists(r) \/ AcceptInvitation(r) \/ OrganizationOf(r)
    \/ RevokeInvitation(r) \/ SetActiveOrganization(r) \/ Enter(r)
    \/ CreateUnit(r) \/ DeleteUnit(r) \/ UpdateDetails(r) \/ ReadList(r)
    \/ DeleteAccount(r) \/ Fail(r)

Step == (\E r \in Requests : Request(r) \/ Statement(r)) \/ (\E i \in Invites : Lapse(i))
Next == UNCHANGED scene /\ Step /\ History
Spec == Init /\ [][Next]_vars

-----------------------------------------------------------------------------
\* Properties.

\* Type invariant: one line per variable.
TypeOK ==
    /\ scene \in Scenes
    /\ account \in [Users -> {"none", "new", "live", "gone"}]
    /\ orgs \subseteq Orgs
    /\ details \in [Orgs -> Details]
    /\ catalog \in [Orgs -> SUBSET Roles]
    /\ member \in [Orgs -> [Users -> Membership]]
    /\ home \in [Units -> Homes]
    /\ inv \in [Invites -> Invitation]
    /\ active \in [Users -> Orgs \cup {NoOrg}]
    /\ call \in [Requests -> Call]
    /\ seen \in [Requests -> Seen]
    /\ answered \in [Invites -> Nat]

\* The authority an operation of a user asks for, in the organization it names; the
\* others are the host's, a signup's, or touch nothing of an organization.
ByManagers == {"Update", "Invite", "RevokeInvite", "ListInvitations", "CreateDepartment",
               "DeleteDepartment", "CreateLevel", "DeleteLevel", "ChangeMemberRole", "RemoveMember"}
ByMembers == {"Get", "ListMembers", "ListRoles", "ListDepartments", "ListLevels", "Switch"}
ByInvited == {"AcceptInvite", "PeekInvitation"}
Guarded == {"CreateRoleForActor"} \cup ByManagers \cup ByMembers \cup ByInvited
Needs(op) ==
    IF op \in ByManagers THEN Managers
    ELSE IF op \in ByMembers THEN Roles
    ELSE IF op \in ByInvited THEN {"invited"} ELSE {"owner"}

\* The call in r writes a row, or answers with rows it has read.
Acts(r) ==
    /\ call'[r] # call[r]
    /\ \/ <<details, catalog, member, home, inv, active>>' # <<details, catalog, member, home, inv, active>>
       \/ Now(r, "read") \/ Now(r, "orgOf")

\* A user's call changes or shows the organization it names only if, at some moment
\* of the call, its caller held there the role the operation asks for, or the
\* invitation it presents was open: whatever other calls did between its check and
\* its write.  A call that revokes the invitation of an organization it does not
\* name is not judged here: its authority is asked for in another organization.
AuthorityHeld ==
    [][\A r \in Requests :
          Acts(r) /\ call[r].op \in Guarded /\ ~Foreign(call[r]) =>
              seen[r].actor \cap Needs(call[r].op) # {}]_vars

Changes(r) == (Now(r, "changeRole") \/ Now(r, "remove")) /\ call'[r] # call[r] /\ member' # member

\* A caller who was never an owner during the call does not change or remove somebody
\* who was owner or admin all along, and makes nobody an admin; nobody is made owner.
RankRespected ==
    [][\A r \in Requests :
          Changes(r) =>
              /\ call[r].role # "owner"
              /\ "owner" \notin seen[r].actor =>
                    /\ ~(seen[r].target \subseteq Managers)
                    /\ call[r].role # "admin"]_vars

\* Somebody who was the only owner from the start of a PATCH or DELETE of a member to
\* its write is neither demoted nor removed by it.  The other ways an owner may go:
\* two owners who leave at once, see LastOwnerStays; an owner who accepts an invitation
\* and takes its role; a host that sets roles itself, which is documented.
SoleOwnerKept ==
    [][\A r \in Requests : Changes(r) => ~seen[r].sole]_vars

\* Who makes or joins an organization, or is added to one never seen before, had a
\* free seat at some moment of the call.
SeatAvailable ==
    [][\A r \in Requests :
          LET c == call[r]
          IN  /\ Now(r, "add") /\ call'[r] # c /\ member' # member
              /\ \/ c.op \in {"Create", "AcceptInvite", "Signup"}
                 \/ c.op = "AddMember" /\ seen[r].target = {"none"}
              => seen[r].room]_vars

\* A membership points at a department and a level of its own organization, whatever
\* is deleted while an invitation that names them is being accepted.
UnitsAtHome ==
    \A o \in Orgs, u \in Users :
        LET m == member[o][u]
        IN  \A x \in {m.dept, m.level} \ {NoUnit} : home[x] = o

\* The role of a membership or invitation is in the catalog of its organization,
\* also of one whose creation stopped half-way.
RolesInCatalog ==
    /\ \A o \in Orgs, u \in Users : member[o][u].status # "none" => member[o][u].role \in catalog[o]
    /\ \A i \in Invites : inv[i].state # "none" => inv[i].role \in catalog[inv[i].org]

\* What docs/tenancy.md says of the last owner, of member changes alone.
LastOwnerStays == [][\A o \in Orgs : Owners(o) # {} => Owners(o)' # {}]_vars

-----------------------------------------------------------------------------
\* An invitation is a one-time grant whose fruit is a successful answer.  It may be
\* taken after its expiry by a call that read it before.

\* The accept of the invitation is between two of its statements.
Reading(i) == \E r \in InFlight(i) :
    \E statement \in {"limit", "department", "level", "add", "accept"} : Now(r, statement)
Joining(i) == \E r \in InFlight(i) : Now(r, "orgOf")

grantOf == [i \in Invites |->
    IF inv[i].state \in {"none", "open"} THEN inv[i].state
    ELSE IF answered[i] > 0 THEN "done"
    ELSE IF inv[i].state = "lapsed" /\ Reading(i) THEN "open"
    ELSE IF inv[i].state = "accepted" /\ Joining(i) THEN "held"
    ELSE "dead"]

Grant == INSTANCE OneTimeGrant WITH Grants <- Invites, grant <- grantOf, fruits <- answered

\* However often an invitation is presented, one caller at most is told that it
\* joined, and none once it was revoked or found expired.
InvitationIsOneTime == Grant!Spec
=============================================================================
