--------------------------- MODULE MCOrganizations ---------------------------
\* Small instances of Organizations for TLC.
EXTENDS Organizations

CONSTANTS o1, o2

\* Users of one organization who start with any of the ranks.
Scene(ops, users, ranks) ==
    [ops |-> ops, slugs |-> {o1}, roles |-> {"member"}, units |-> {}, faults |-> FALSE, max |-> 0, orgs |-> {o1},
     home |-> o1, users |-> users, account |-> "live", ranks |-> ranks]

\* Members of every rank promote and demote each other; three managers also remove.
Ranks == [Scene({"ChangeMemberRole"}, 2, DefaultRoles) EXCEPT !.roles = {"owner", "admin"}]
Managing == Scene({"ChangeMemberRole", "RemoveMember"}, 3, Managers)

\* A limit of one seat, invitations that lapse, a host that adds members.
Seating == [Scene({"PlatformInvite", "AcceptInvite", "AddMember", "lapse"}, 2, {"none"})
              EXCEPT !.max = 1, !.orgs = {o1, o2}, !.slugs = {o1, o2}]

\* Invitations by members, revoked and looked at, beside the removal of who may.
Inviting == Scene({"Invite", "AcceptInvite", "RevokeInvite", "PeekInvitation", "RemoveMember"},
                  2, {"owner", "none"})

\* An owner of one organization beside the invitations of two.
Meddling == [Scene({"PlatformInvite", "RevokeInvite", "RemoveMember"}, 2, {"owner", "none"})
               EXCEPT !.orgs = {o1, o2}, !.slugs = {o1, o2}]

\* Departments and levels come and go under invitations that name them.
Structure(present, units) ==
    [Scene({"PlatformInvite", "AcceptInvite", "CreateUnit", "DeleteDepartment", "DeleteLevel", "AddMember"},
           1, {"owner"}) EXCEPT !.orgs = present, !.slugs = present, !.units = units]

\* Organizations are founded, by users and by signups, or joined by signups, and
\* statements fail.
Founding == [Scene({"Create", "Ensure", "Signup"}, 2, {"none"})
               EXCEPT !.faults = TRUE, !.account = "none", !.orgs = {}]
Crowding == [Scene({"Create"}, 1, {"none"}) EXCEPT !.max = 1, !.orgs = {}, !.slugs = {o1, o2}]
Enlisting == [Founding EXCEPT !.ops = {"Signup", "PlatformInvite", "lapse"}, !.orgs = {o1}]

\* Everything a member reads or edits, while members are removed and set again.
Browsing == Scene({"Get", "ListMembers", "ListRoles", "ListDepartments", "ListLevels", "ListInvitations",
                  "RemoveMember", "SetMemberRole"}, 2, {"owner", "member"})
Switching == Scene({"Switch", "ClearActive", "Update", "RemoveMember"}, 2, {"owner"})
Editing == [Scene({"CreateRoleForActor", "CreateRole", "CreateDepartment", "CreateLevel", "RemoveMember"},
                  2, {"owner", "admin"}) EXCEPT !.roles = {"owner", "support"}, !.units = Units]

AllScenes == {Ranks, Managing, Seating, Inviting, Meddling, Structure({o1, o2}, Departments),
              Structure({o1}, Levels), Founding, Crowding, Enlisting, Browsing, Switching, Editing}
TwoOwners == {Scene({"RemoveMember"}, 2, {"owner"})}

Symmetry == Permutations(Users) \cup Permutations(Requests) \cup Permutations(Invites)
=============================================================================
