------------------------- MODULE OrganizationsProofs -------------------------
(***************************************************************************)
(* Proofs about Organizations, for every instance: type correctness, the   *)
(* two invariants of the tables, what a call may do on what it has read,   *)
(* and that an invitation is a one-time grant.                             *)
(***************************************************************************)
EXTENDS Organizations, FiniteSetTheorems, SequenceTheorems, TLAPS

Changing == {"ChangeMemberRole", "RemoveMember"}
HostAdding == {"AddMember", "SetMemberRole"}

\* The calls that make an organization, and those that join one on an invitation.
Founds(c) == c.op \in {"Create", "Ensure"} \/ (c.op = "Signup" /\ c.inv = NoInvite)
Joins(c) == c.op = "AcceptInvite" \/ (c.op = "Signup" /\ c.inv # NoInvite)

\* Each operation has its route.
OnRoute(c) ==
    /\ c.op = "Create" => c.route = Create
    /\ c.op = "Ensure" => c.route = EnsureOwned \/ c.route = Ensure
    /\ c.op = "Update" => c.route = Update
    /\ c.op = "AddMember" => c.route = AddMember
    /\ c.op = "SetMemberRole" => c.route = SetMemberRole
    /\ c.op = "ChangeMemberRole" => c.route = ChangeMemberRole
    /\ c.op = "RemoveMember" => c.route = RemoveMember
    /\ c.op = "Invite" => c.route = Invite
    /\ c.op = "PlatformInvite" => c.route = PlatformInvite
    /\ c.op = "AcceptInvite" => c.route = AcceptInvite
    /\ c.op = "PeekInvitation" => c.route = PeekInvitation
    /\ c.op = "RevokeInvite" => c.route = RevokeInvite
    /\ c.op = "ListInvitations" => c.route = ListInvitations
    /\ c.op = "ClearActive" => c.route = ClearActive
    /\ c.op = "Switch" => c.route = SwitchActive
    /\ c.op = "CreateRoleForActor" => c.route = CreateRoleForActor
    /\ c.op = "CreateRole" => c.route = <<"newRole">>
    /\ c.op = "CreateUnit" => c.route = <<"newUnit">>
    /\ c.op \in {"Get", "ListMembers", "ListRoles", "ListDepartments", "ListLevels"}
          => c.route = <<"member", "read">>
    /\ c.op \in {"CreateDepartment", "CreateLevel"} => c.route = CreateDepartmentForActor
    /\ c.op \in {"DeleteDepartment", "DeleteLevel"} => c.route = DeleteDepartment
    /\ c.op = "Signup" =>
          \/ c.route = Withdrawal
          \/ IF c.inv = NoInvite THEN c.route = CreateOnSignup ELSE c.route = JoinOnSignup

\* What the statements of an operation need to know of its request.
Needed(c) ==
    /\ c.op \in (Guarded \ {"PeekInvitation"}) \cup {"ClearActive", "Signup"} => c.actor \in Users
    /\ c.op \in Changing \cup HostAdding \cup {"Create", "Ensure", "AcceptInvite", "Signup"} => c.user \in Users
    /\ c.op # "ClearActive" /\ c.route # Withdrawal => c.org \in Orgs
    /\ c.op \in HostAdding \cup {"ChangeMemberRole", "Invite", "PlatformInvite", "CreateRole",
                                 "CreateRoleForActor"} => c.role \in Roles
    /\ c.op \in {"CreateDepartment", "CreateLevel", "CreateUnit", "DeleteDepartment", "DeleteLevel"}
          => c.unit \in Units
    /\ c.op \in {"PeekInvitation", "RevokeInvite"} \/ Joins(c) => c.inv \in Invites
    /\ Founds(c) /\ c.route # Withdrawal => c.role = "owner" /\ c.dept = NoUnit /\ c.level = NoUnit

\* A call is idle, or between two statements of its operation.
Flow(c) ==
    \/ c = Blank
    \/ /\ c.op # "none" /\ OnRoute(c) /\ c.next \in 1..Len(c.route) /\ Needed(c)

\* An invitation is of an organization; who revokes it names one that is there, and who
\* accepts it has its terms.
InvitedOK ==
    /\ \A i \in Invites : inv[i].state # "none" => inv[i].org \in Orgs
    /\ \A r \in Requests : call[r].op = "RevokeInvite" => inv[call[r].inv].state # "none"
    /\ \A r \in Requests :
          LET c == call[r]
          IN  Joins(c) /\ c.route # Withdrawal =>
                 inv[c.inv].state # "none" /\ c.org = inv[c.inv].org /\ c.role = inv[c.inv].role

Inv == TypeOK /\ InvitedOK /\ \A r \in Requests : Flow(call[r])

\* The unit a call will write is of its organization, or was and is deleted.
Homely(c, x) == x = NoUnit \/ home[x] \in {c.org, "gone"}
UnitFacts(c) ==
    /\ c.op \in HostAdding => Homely(c, c.dept) /\ Homely(c, c.level)
    /\ Joins(c) /\ c.next > 3 => Homely(c, c.dept)
    /\ Joins(c) /\ c.next > 4 => Homely(c, c.level)
Housed == Inv /\ UnitsAtHome /\ \A r \in Requests : UnitFacts(call[r])

\* The role a call will write is in the catalog.
RoleFacts(c) ==
    \/ c.op \in {"AddMember", "PlatformInvite"} /\ c.next > 1
    \/ c.op \in {"SetMemberRole", "Invite"} /\ c.next > 2
    \/ Founds(c) /\ c.next > 3
    \/ c.op = "ChangeMemberRole" /\ c.next > 4
    => c.role \in catalog[c.org]
Listed == Inv /\ RolesInCatalog /\ \A r \in Requests : RoleFacts(call[r])

\* The history has what is true now.
Current(c, w) ==
    LET v == View(c)
    IN  /\ v.actor \subseteq w.actor /\ v.target \subseteq w.target
        /\ (w.sole => v.sole) /\ (v.room => w.room)

\* What a call has been shown by the checks behind it.
Shown(c, w) ==
    /\ c.op \in Guarded \ Changing /\ c.next > 1 => w.actor \cap Needs(c.op) # {} \/ Foreign(c)
    /\ c.op \in Changing =>
          /\ c.next > 1 => c.actorRole \in w.actor
          /\ c.next > 2 => c.targetRole \in w.target /\ (w.sole => c.targetRole = "owner")
          /\ c.next > 3 => /\ c.actorRole \in Managers /\ c.role # "owner" /\ ~w.sole
                           /\ c.actorRole = "admin" => c.targetRole \notin Managers /\ c.role # "admin"
    /\ c.op = "Create" /\ c.next > 1 => w.room
    /\ c.op = "Signup" /\ c.inv = NoInvite /\ c.next > 1 => w.room
    /\ Joins(c) /\ c.next > 2 => w.room
    /\ c.op = "AddMember" /\ c.next > 3 => w.room \/ w.target # {"none"}
Known == Inv /\ \A r \in Requests : call[r] # Blank => Current(call[r], seen[r]) /\ Shown(call[r], seen[r])

\* An accept is under way between its first statement and its answer: it may still take
\* the invitation, or has taken it and is about to be told of its success.
Half(c, i) == Joins(c) /\ c.inv = i /\ c.next \in 2..6
Last(c, i) == Joins(c) /\ c.inv = i /\ c.next = 7
GrantOK(i) ==
    /\ inv[i].state # "accepted" => answered[i] = 0 /\ \A r \in Requests : ~Last(call[r], i)
    /\ \A r \in Requests : Last(call[r], i) => answered[i] = 0
    /\ \A r, q \in Requests : Last(call[r], i) /\ Last(call[q], i) => r = q
Granted == Inv /\ \A i \in Invites : GrantOK(i)
-----------------------------------------------------------------------------
\* The statements of the composed routes.
LEMMA Joined ==
    ASSUME NEW s \in Seq(Statements), NEW t \in Seq(Statements)
    PROVE  /\ s \o t \in Seq(Statements) /\ Len(s \o t) = Len(s) + Len(t)
           /\ \A n \in 1..Len(s) : (s \o t)[n] = s[n]
           /\ \A n \in 1..Len(t) : (s \o t)[Len(s) + n] = t[n]
<1>1. Len(s) \in Nat /\ Len(t) \in Nat OBVIOUS
<1>2. \A n \in 1..Len(s) : n \in 1..(Len(s) + Len(t)) /\ n <= Len(s) BY <1>1
<1>3. \A n \in 1..Len(t) :
         /\ Len(s) + n \in 1..(Len(s) + Len(t)) /\ ~(Len(s) + n <= Len(s))
         /\ (Len(s) + n) - Len(s) = n
  BY <1>1
<1> QED BY <1>2, <1>3, ConcatProperties

\* Which route an operation takes, statement by statement: R is the list s.
Reads(R, s) == R \in Seq(Statements) /\ Len(R) = Len(s) /\ \A n \in 1..Len(s) : R[n] = s[n]

LEMMA SetMemberRoleIs == Reads(SetMemberRole, <<"target", "hasRole", "existing", "limit", "add">>)
<1>1. <<"target">> \in Seq(Statements) /\ AddMember \in Seq(Statements) BY DEF AddMember, Statements
<1>2. Reads(<<"target">> \o AddMember, <<"target", "hasRole", "existing", "limit", "add">>)
  BY <1>1, Joined DEF Reads, AddMember
<1> QED BY <1>2 DEF SetMemberRole

LEMMA EnsureIs == Reads(EnsureOwned, <<"lookup", "insertOrg", "seed", "extra", "add">>)
<1>1. Ensure \in Seq(Statements) /\ <<"add">> \in Seq(Statements) BY DEF Ensure, Statements
<1>2. Reads(Ensure \o <<"add">>, <<"lookup", "insertOrg", "seed", "extra", "add">>)
  BY <1>1, Joined DEF Reads, Ensure
<1> QED BY <1>2 DEF EnsureOwned

LEMMA ChangesAre ==
    /\ Reads(ChangeMemberRole, <<"member", "target", "decide", "hasRole", "changeRole">>)
    /\ Reads(RemoveMember, <<"member", "target", "decide", "remove">>)
<1>1. /\ MemberChangeContext \in Seq(Statements) /\ <<"hasRole", "changeRole">> \in Seq(Statements)
      /\ <<"remove">> \in Seq(Statements)
  BY DEF MemberChangeContext, Statements
<1>2. Reads(MemberChangeContext \o <<"hasRole", "changeRole">>,
            <<"member", "target", "decide", "hasRole", "changeRole">>)
  BY <1>1, Joined DEF Reads, MemberChangeContext
<1>3. Reads(MemberChangeContext \o <<"remove">>, <<"member", "target", "decide", "remove">>)
  BY <1>1, Joined DEF Reads, MemberChangeContext
<1> QED BY <1>2, <1>3 DEF ChangeMemberRole, RemoveMember

LEMMA SignupIs ==
    /\ Reads(JoinOnSignup, <<"token", "limit", "department", "level", "add", "accept",
                                       "orgOf", "enter", "switch">>)
    /\ Reads(CreateOnSignup, <<"limit", "insertOrg", "seed", "extra", "add", "enter", "switch">>)
<1>1. AcceptInvite \in Seq(Statements) /\ Create \in Seq(Statements) /\ <<"enter", "switch">> \in Seq(Statements)
  BY DEF AcceptInvite, Create, Statements
<1>2. Reads(AcceptInvite \o <<"enter", "switch">>,
            <<"token", "limit", "department", "level", "add", "accept", "orgOf", "enter", "switch">>)
  BY <1>1, Joined DEF Reads, AcceptInvite
<1>3. Reads(Create \o <<"enter", "switch">>,
            <<"limit", "insertOrg", "seed", "extra", "add", "enter", "switch">>)
  BY <1>1, Joined DEF Reads, Create
<1> QED BY <1>2, <1>3 DEF JoinOnSignup, CreateOnSignup

\* The statement at which a call is, and the one it has come to.
On(c, n, statement) == c.next = n /\ c.route[c.next] = statement
Station(c) ==
    /\ c.op = "Create" =>
          \/ On(c, 1, "limit") \/ On(c, 2, "insertOrg") \/ On(c, 3, "seed")
          \/ On(c, 4, "extra") \/ On(c, 5, "add")
    /\ c.op = "Ensure" =>
          \/ On(c, 1, "lookup") \/ On(c, 2, "insertOrg") \/ On(c, 3, "seed")
          \/ On(c, 4, "extra") \/ On(c, 5, "add")
    /\ c.op = "Update" =>
          \/ On(c, 1, "admin") \/ On(c, 2, "patch")
    /\ c.op = "AddMember" =>
          \/ On(c, 1, "hasRole") \/ On(c, 2, "existing") \/ On(c, 3, "limit")
          \/ On(c, 4, "add")
    /\ c.op = "SetMemberRole" =>
          \/ On(c, 1, "target") \/ On(c, 2, "hasRole") \/ On(c, 3, "existing")
          \/ On(c, 4, "limit") \/ On(c, 5, "add")
    /\ c.op = "ChangeMemberRole" =>
          \/ On(c, 1, "member") \/ On(c, 2, "target") \/ On(c, 3, "decide")
          \/ On(c, 4, "hasRole") \/ On(c, 5, "changeRole")
    /\ c.op = "RemoveMember" =>
          \/ On(c, 1, "member") \/ On(c, 2, "target") \/ On(c, 3, "decide")
          \/ On(c, 4, "remove")
    /\ c.op = "Invite" =>
          \/ On(c, 1, "admin") \/ On(c, 2, "hasRole") \/ On(c, 3, "invite")
    /\ c.op = "PlatformInvite" =>
          \/ On(c, 1, "hasRole") \/ On(c, 2, "invite")
    /\ c.op = "AcceptInvite" =>
          \/ On(c, 1, "token") \/ On(c, 2, "limit") \/ On(c, 3, "department")
          \/ On(c, 4, "level") \/ On(c, 5, "add") \/ On(c, 6, "accept")
          \/ On(c, 7, "orgOf")
    /\ c.op = "PeekInvitation" =>
          \/ On(c, 1, "token") \/ On(c, 2, "orgOf")
    /\ c.op = "RevokeInvite" =>
          \/ On(c, 1, "admin") \/ On(c, 2, "revoke")
    /\ c.op = "ListInvitations" =>
          \/ On(c, 1, "admin") \/ On(c, 2, "read")
    /\ c.op = "ClearActive" =>
          \/ On(c, 1, "switch")
    /\ c.op = "Switch" =>
          \/ On(c, 1, "member") \/ On(c, 2, "switch")
    /\ c.op = "CreateRoleForActor" =>
          \/ On(c, 1, "owner") \/ On(c, 2, "newRole")
    /\ c.op = "CreateRole" =>
          \/ On(c, 1, "newRole")
    /\ c.op = "CreateUnit" =>
          \/ On(c, 1, "newUnit")
    /\ c.op \in {"Get", "ListMembers", "ListRoles", "ListDepartments", "ListLevels"} =>
          \/ On(c, 1, "member") \/ On(c, 2, "read")
    /\ c.op \in {"CreateDepartment", "CreateLevel"} =>
          \/ On(c, 1, "admin") \/ On(c, 2, "newUnit")
    /\ c.op \in {"DeleteDepartment", "DeleteLevel"} =>
          \/ On(c, 1, "admin") \/ On(c, 2, "dropUnit")
    /\ c.op = "Signup" /\ c.inv = NoInvite =>
          \/ On(c, 1, "limit") \/ On(c, 2, "insertOrg") \/ On(c, 3, "seed")
          \/ On(c, 4, "extra") \/ On(c, 5, "add") \/ On(c, 6, "enter")
          \/ On(c, 7, "switch") \/ On(c, 1, "deleteAccount")
    /\ c.op = "Signup" /\ c.inv # NoInvite =>
          \/ On(c, 1, "token") \/ On(c, 2, "limit") \/ On(c, 3, "department")
          \/ On(c, 4, "level") \/ On(c, 5, "add") \/ On(c, 6, "accept")
          \/ On(c, 7, "orgOf") \/ On(c, 8, "enter") \/ On(c, 9, "switch")
          \/ On(c, 1, "deleteAccount")
    /\ c.route = Withdrawal => On(c, 1, "deleteAccount")

LEMMA Stations == ASSUME NEW c, Flow(c), c.op # "none" PROVE Station(c)
<1>1. OnRoute(c) /\ c.next \in 1..Len(c.route) BY DEF Flow, Blank
<1>2. ASSUME c.op = "Create"
      PROVE  \/ On(c, 1, "limit") \/ On(c, 2, "insertOrg") \/ On(c, 3, "seed")
             \/ On(c, 4, "extra") \/ On(c, 5, "add")
  <2>1. c.route = Create BY <1>1, <1>2 DEF OnRoute
  <2> QED BY <1>1, <2>1 DEF On, Create
<1>3. ASSUME c.op = "Ensure"
      PROVE  \/ On(c, 1, "lookup") \/ On(c, 2, "insertOrg") \/ On(c, 3, "seed")
             \/ On(c, 4, "extra") \/ On(c, 5, "add")
  <2>1. c.route = EnsureOwned \/ c.route = Ensure BY <1>1, <1>3 DEF OnRoute
  <2>2. /\ Len(EnsureOwned) = 5 /\ EnsureOwned[1] = "lookup"
        /\ EnsureOwned[2] = "insertOrg" /\ EnsureOwned[3] = "seed"
        /\ EnsureOwned[4] = "extra" /\ EnsureOwned[5] = "add"
    BY EnsureIs DEF Reads
  <2> QED BY <1>1, <2>1, <2>2 DEF On, Ensure
<1>4. ASSUME c.op = "Update"
      PROVE  \/ On(c, 1, "admin") \/ On(c, 2, "patch")
  <2>1. c.route = Update BY <1>1, <1>4 DEF OnRoute
  <2> QED BY <1>1, <2>1 DEF On, Update
<1>5. ASSUME c.op = "AddMember"
      PROVE  \/ On(c, 1, "hasRole") \/ On(c, 2, "existing") \/ On(c, 3, "limit")
             \/ On(c, 4, "add")
  <2>1. c.route = AddMember BY <1>1, <1>5 DEF OnRoute
  <2> QED BY <1>1, <2>1 DEF On, AddMember
<1>6. ASSUME c.op = "SetMemberRole"
      PROVE  \/ On(c, 1, "target") \/ On(c, 2, "hasRole") \/ On(c, 3, "existing")
             \/ On(c, 4, "limit") \/ On(c, 5, "add")
  <2>1. c.route = SetMemberRole BY <1>1, <1>6 DEF OnRoute
  <2> QED BY <1>1, <2>1, SetMemberRoleIs DEF Reads, On
<1>7. ASSUME c.op = "ChangeMemberRole"
      PROVE  \/ On(c, 1, "member") \/ On(c, 2, "target") \/ On(c, 3, "decide")
             \/ On(c, 4, "hasRole") \/ On(c, 5, "changeRole")
  <2>1. c.route = ChangeMemberRole BY <1>1, <1>7 DEF OnRoute
  <2> QED BY <1>1, <2>1, ChangesAre DEF Reads, On
<1>8. ASSUME c.op = "RemoveMember"
      PROVE  \/ On(c, 1, "member") \/ On(c, 2, "target") \/ On(c, 3, "decide")
             \/ On(c, 4, "remove")
  <2>1. c.route = RemoveMember BY <1>1, <1>8 DEF OnRoute
  <2> QED BY <1>1, <2>1, ChangesAre DEF Reads, On
<1>9. ASSUME c.op = "Invite"
      PROVE  \/ On(c, 1, "admin") \/ On(c, 2, "hasRole") \/ On(c, 3, "invite")
  <2>1. c.route = Invite BY <1>1, <1>9 DEF OnRoute
  <2> QED BY <1>1, <2>1 DEF On, Invite
<1>10. ASSUME c.op = "PlatformInvite"
      PROVE  \/ On(c, 1, "hasRole") \/ On(c, 2, "invite")
  <2>1. c.route = PlatformInvite BY <1>1, <1>10 DEF OnRoute
  <2> QED BY <1>1, <2>1 DEF On, PlatformInvite
<1>11. ASSUME c.op = "AcceptInvite"
      PROVE  \/ On(c, 1, "token") \/ On(c, 2, "limit") \/ On(c, 3, "department")
             \/ On(c, 4, "level") \/ On(c, 5, "add") \/ On(c, 6, "accept")
             \/ On(c, 7, "orgOf")
  <2>1. c.route = AcceptInvite BY <1>1, <1>11 DEF OnRoute
  <2> QED BY <1>1, <2>1 DEF On, AcceptInvite
<1>12. ASSUME c.op = "PeekInvitation"
      PROVE  \/ On(c, 1, "token") \/ On(c, 2, "orgOf")
  <2>1. c.route = PeekInvitation BY <1>1, <1>12 DEF OnRoute
  <2> QED BY <1>1, <2>1 DEF On, PeekInvitation
<1>13. ASSUME c.op = "RevokeInvite"
      PROVE  \/ On(c, 1, "admin") \/ On(c, 2, "revoke")
  <2>1. c.route = RevokeInvite BY <1>1, <1>13 DEF OnRoute
  <2> QED BY <1>1, <2>1 DEF On, RevokeInvite
<1>14. ASSUME c.op = "ListInvitations"
      PROVE  \/ On(c, 1, "admin") \/ On(c, 2, "read")
  <2>1. c.route = ListInvitations BY <1>1, <1>14 DEF OnRoute
  <2> QED BY <1>1, <2>1 DEF On, ListInvitations
<1>15. ASSUME c.op = "ClearActive"
      PROVE  \/ On(c, 1, "switch")
  <2>1. c.route = ClearActive BY <1>1, <1>15 DEF OnRoute
  <2> QED BY <1>1, <2>1 DEF On, ClearActive
<1>16. ASSUME c.op = "Switch"
      PROVE  \/ On(c, 1, "member") \/ On(c, 2, "switch")
  <2>1. c.route = SwitchActive BY <1>1, <1>16 DEF OnRoute
  <2> QED BY <1>1, <2>1 DEF On, SwitchActive
<1>17. ASSUME c.op = "CreateRoleForActor"
      PROVE  \/ On(c, 1, "owner") \/ On(c, 2, "newRole")
  <2>1. c.route = CreateRoleForActor BY <1>1, <1>17 DEF OnRoute
  <2> QED BY <1>1, <2>1 DEF On, CreateRoleForActor
<1>18. ASSUME c.op = "CreateRole"
      PROVE  \/ On(c, 1, "newRole")
  <2>1. c.route = <<"newRole">> BY <1>1, <1>18 DEF OnRoute
  <2> QED BY <1>1, <2>1 DEF On
<1>19. ASSUME c.op = "CreateUnit"
      PROVE  \/ On(c, 1, "newUnit")
  <2>1. c.route = <<"newUnit">> BY <1>1, <1>19 DEF OnRoute
  <2> QED BY <1>1, <2>1 DEF On
<1>20. ASSUME c.op \in {"Get", "ListMembers", "ListRoles", "ListDepartments", "ListLevels"}
      PROVE  \/ On(c, 1, "member") \/ On(c, 2, "read")
  <2>1. c.route = <<"member", "read">> BY <1>1, <1>20 DEF OnRoute
  <2> QED BY <1>1, <2>1 DEF On
<1>21. ASSUME c.op \in {"CreateDepartment", "CreateLevel"}
      PROVE  \/ On(c, 1, "admin") \/ On(c, 2, "newUnit")
  <2>1. c.route = CreateDepartmentForActor BY <1>1, <1>21 DEF OnRoute
  <2> QED BY <1>1, <2>1 DEF On, CreateDepartmentForActor
<1>22. ASSUME c.op \in {"DeleteDepartment", "DeleteLevel"}
      PROVE  \/ On(c, 1, "admin") \/ On(c, 2, "dropUnit")
  <2>1. c.route = DeleteDepartment BY <1>1, <1>22 DEF OnRoute
  <2> QED BY <1>1, <2>1 DEF On, DeleteDepartment
<1>23. c.route = Withdrawal => On(c, 1, "deleteAccount") BY <1>1 DEF On, Withdrawal
<1>24. ASSUME c.op = "Signup", c.inv = NoInvite, c.route # Withdrawal
       PROVE  \/ On(c, 1, "limit") \/ On(c, 2, "insertOrg") \/ On(c, 3, "seed")
              \/ On(c, 4, "extra") \/ On(c, 5, "add") \/ On(c, 6, "enter") \/ On(c, 7, "switch")
  <2>1. c.route = CreateOnSignup BY <1>1, <1>24 DEF OnRoute
  <2>2. /\ Len(CreateOnSignup) = 7 /\ CreateOnSignup[1] = "limit"
        /\ CreateOnSignup[2] = "insertOrg"
        /\ CreateOnSignup[3] = "seed"
        /\ CreateOnSignup[4] = "extra"
        /\ CreateOnSignup[5] = "add"
        /\ CreateOnSignup[6] = "enter"
        /\ CreateOnSignup[7] = "switch"
    BY SignupIs DEF Reads
  <2> QED BY <1>1, <2>1, <2>2 DEF On
<1>25. ASSUME c.op = "Signup", c.inv # NoInvite, c.route # Withdrawal
       PROVE  \/ On(c, 1, "token") \/ On(c, 2, "limit") \/ On(c, 3, "department")
              \/ On(c, 4, "level") \/ On(c, 5, "add") \/ On(c, 6, "accept")
              \/ On(c, 7, "orgOf") \/ On(c, 8, "enter") \/ On(c, 9, "switch")
  <2>1. c.route = JoinOnSignup BY <1>1, <1>25 DEF OnRoute
  <2>2. /\ Len(JoinOnSignup) = 9 /\ JoinOnSignup[1] = "token"
        /\ JoinOnSignup[2] = "limit"
        /\ JoinOnSignup[3] = "department"
        /\ JoinOnSignup[4] = "level" /\ JoinOnSignup[5] = "add"
        /\ JoinOnSignup[6] = "accept"
        /\ JoinOnSignup[7] = "orgOf"
        /\ JoinOnSignup[8] = "enter"
        /\ JoinOnSignup[9] = "switch"
    BY SignupIs DEF Reads
  <2> QED BY <1>1, <2>1, <2>2 DEF On
<1> QED
  BY <1>2, <1>3, <1>4, <1>5, <1>6, <1>7, <1>8, <1>9, <1>10, <1>11, <1>12, <1>13, <1>14, <1>15, <1>16, <1>17, <1>18, <1>19, <1>20, <1>21, <1>22, <1>23, <1>24, <1>25 DEF Station

\* What a statement tells of the call that is at it.
At(c, statement) == c.route[c.next] = statement
LEMMA Where ==
    ASSUME NEW c \in Call, Flow(c), c.op # "none"
    PROVE  /\ c.route = Withdrawal => At(c, "deleteAccount")
           /\ At(c, "member") => c.op \in ByMembers \cup Changing /\ c.next = 1
           /\ At(c, "admin") => c.op \in ByManagers \ Changing /\ c.next = 1
           /\ At(c, "owner") => c.op = "CreateRoleForActor" /\ c.next = 1
           /\ At(c, "target") => \/ c.op = "SetMemberRole" /\ c.next = 1
                                 \/ c.op \in Changing /\ c.next = 2
           /\ At(c, "decide") => c.op \in Changing /\ c.next = 3
           /\ At(c, "hasRole") => \/ c.op \in {"AddMember", "PlatformInvite"} /\ c.next = 1
                                  \/ c.op \in {"SetMemberRole", "Invite"} /\ c.next = 2
                                  \/ c.op = "ChangeMemberRole" /\ c.next = 4
           /\ At(c, "changeRole") => c.op = "ChangeMemberRole" /\ c.next = 5
           /\ At(c, "remove") => c.op = "RemoveMember" /\ c.next = 4
           /\ At(c, "existing") => \/ c.op = "AddMember" /\ c.next = 2
                                   \/ c.op = "SetMemberRole" /\ c.next = 3
           /\ At(c, "limit") => \/ c.op = "AddMember" /\ c.next = 3
                                \/ c.op = "SetMemberRole" /\ c.next = 4
                                \/ Founds(c) /\ c.op # "Ensure" /\ c.next = 1
                                \/ Joins(c) /\ c.next = 2
           /\ At(c, "add") => \/ c.op = "AddMember" /\ c.next = 4
                              \/ c.op = "SetMemberRole" /\ c.next = 5
                              \/ Founds(c) /\ c.next = 5
                              \/ Joins(c) /\ c.next = 5
           /\ At(c, "lookup") => c.op = "Ensure" /\ c.next = 1
           /\ At(c, "insertOrg") => Founds(c) /\ c.next = 2
           /\ At(c, "seed") => Founds(c) /\ c.next = 3
           /\ At(c, "extra") => Founds(c) /\ c.next = 4
           /\ At(c, "newRole") => \/ c.op = "CreateRoleForActor" /\ c.next = 2
                                  \/ c.op = "CreateRole" /\ c.next = 1
           /\ At(c, "invite") => \/ c.op = "Invite" /\ c.next = 3
                                 \/ c.op = "PlatformInvite" /\ c.next = 2
           /\ At(c, "token") => (Joins(c) \/ c.op = "PeekInvitation") /\ c.next = 1
           /\ At(c, "department") => Joins(c) /\ c.next = 3
           /\ At(c, "level") => Joins(c) /\ c.next = 4
           /\ At(c, "accept") => Joins(c) /\ c.next = 6
           /\ At(c, "orgOf") => \/ Joins(c) /\ c.next = 7
                                \/ c.op = "PeekInvitation" /\ c.next = 2
           /\ At(c, "revoke") => c.op = "RevokeInvite" /\ c.next = 2
           /\ At(c, "switch") => \/ c.op = "Switch" /\ c.next = 2
                                 \/ c.op = "ClearActive" /\ c.next = 1
                                 \/ c.op = "Signup" /\ c.next > 6
           /\ At(c, "enter") => c.op = "Signup" /\ c.next > 5
           /\ At(c, "newUnit") => \/ c.op \in {"CreateDepartment", "CreateLevel"} /\ c.next = 2
                                  \/ c.op = "CreateUnit" /\ c.next = 1
           /\ At(c, "dropUnit") => c.op \in {"DeleteDepartment", "DeleteLevel"} /\ c.next = 2
           /\ At(c, "patch") => c.op = "Update" /\ c.next = 2
           /\ At(c, "read") => c.op \in (ByMembers \ {"Switch"}) \cup {"ListInvitations"} /\ c.next = 2
           /\ At(c, "deleteAccount") => c.op = "Signup" /\ c.next = 1
<1>1. Station(c) /\ c.op \in Operations BY Stations DEF Call
<1> USE <1>1 DEF Station, On, Operations, At
<1>0. c.route = Withdrawal => At(c, "deleteAccount") OBVIOUS
<1>2. At(c, "member") => c.op \in ByMembers \cup Changing /\ c.next = 1
  BY DEF ByMembers, Changing
<1>3. At(c, "admin") => c.op \in ByManagers \ Changing /\ c.next = 1
  BY DEF ByManagers, Changing
<1>4. At(c, "owner") => c.op = "CreateRoleForActor" /\ c.next = 1 OBVIOUS
<1>5. At(c, "target") => \/ c.op = "SetMemberRole" /\ c.next = 1
                         \/ c.op \in Changing /\ c.next = 2
  BY DEF Changing
<1>6. At(c, "decide") => c.op \in Changing /\ c.next = 3
  BY DEF Changing
<1>7. At(c, "hasRole") => \/ c.op \in {"AddMember", "PlatformInvite"} /\ c.next = 1
                          \/ c.op \in {"SetMemberRole", "Invite"} /\ c.next = 2
                          \/ c.op = "ChangeMemberRole" /\ c.next = 4
  OBVIOUS
<1>8. At(c, "changeRole") => c.op = "ChangeMemberRole" /\ c.next = 5 OBVIOUS
<1>9. At(c, "remove") => c.op = "RemoveMember" /\ c.next = 4 OBVIOUS
<1>10. At(c, "existing") => \/ c.op = "AddMember" /\ c.next = 2
                            \/ c.op = "SetMemberRole" /\ c.next = 3
  OBVIOUS
<1>11. At(c, "limit") => \/ c.op = "AddMember" /\ c.next = 3
                         \/ c.op = "SetMemberRole" /\ c.next = 4
                         \/ Founds(c) /\ c.op # "Ensure" /\ c.next = 1
                         \/ Joins(c) /\ c.next = 2
  BY DEF Founds, Joins
<1>12. At(c, "add") => \/ c.op = "AddMember" /\ c.next = 4
                       \/ c.op = "SetMemberRole" /\ c.next = 5
                       \/ Founds(c) /\ c.next = 5
                       \/ Joins(c) /\ c.next = 5
  BY DEF Founds, Joins
<1>13. At(c, "lookup") => c.op = "Ensure" /\ c.next = 1 OBVIOUS
<1>14. At(c, "insertOrg") => Founds(c) /\ c.next = 2
  BY DEF Founds
<1>15. At(c, "seed") => Founds(c) /\ c.next = 3
  BY DEF Founds
<1>16. At(c, "extra") => Founds(c) /\ c.next = 4
  BY DEF Founds
<1>17. At(c, "newRole") => \/ c.op = "CreateRoleForActor" /\ c.next = 2
                           \/ c.op = "CreateRole" /\ c.next = 1
  OBVIOUS
<1>18. At(c, "invite") => \/ c.op = "Invite" /\ c.next = 3
                          \/ c.op = "PlatformInvite" /\ c.next = 2
  OBVIOUS
<1>19. At(c, "token") => (Joins(c) \/ c.op = "PeekInvitation") /\ c.next = 1
  BY DEF Joins
<1>20. At(c, "department") => Joins(c) /\ c.next = 3
  BY DEF Joins
<1>21. At(c, "level") => Joins(c) /\ c.next = 4
  BY DEF Joins
<1>22. At(c, "accept") => Joins(c) /\ c.next = 6
  BY DEF Joins
<1>23. At(c, "orgOf") => \/ Joins(c) /\ c.next = 7
                         \/ c.op = "PeekInvitation" /\ c.next = 2
  BY DEF Joins
<1>24. At(c, "revoke") => c.op = "RevokeInvite" /\ c.next = 2 OBVIOUS
<1>25. At(c, "switch") => \/ c.op = "Switch" /\ c.next = 2
                          \/ c.op = "ClearActive" /\ c.next = 1
                          \/ c.op = "Signup" /\ c.next > 6
  OBVIOUS
<1>26. At(c, "enter") => c.op = "Signup" /\ c.next > 5 OBVIOUS
<1>27. At(c, "newUnit") => \/ c.op \in {"CreateDepartment", "CreateLevel"} /\ c.next = 2
                           \/ c.op = "CreateUnit" /\ c.next = 1
  OBVIOUS
<1>28. At(c, "dropUnit") => c.op \in {"DeleteDepartment", "DeleteLevel"} /\ c.next = 2 OBVIOUS
<1>29. At(c, "patch") => c.op = "Update" /\ c.next = 2 OBVIOUS
<1>30. At(c, "read") => c.op \in (ByMembers \ {"Switch"}) \cup {"ListInvitations"} /\ c.next = 2
  BY DEF ByMembers
<1>31. At(c, "deleteAccount") => c.op = "Signup" /\ c.next = 1 OBVIOUS
<1> HIDE DEF At
<1> QED BY <1>0, <1>2, <1>3, <1>4, <1>5, <1>6, <1>7, <1>8, <1>9, <1>10, <1>11, <1>12, <1>13, <1>14, <1>15, <1>16, <1>17, <1>18, <1>19, <1>20, <1>21, <1>22, <1>23, <1>24, <1>25, <1>26, <1>27, <1>28, <1>29, <1>30, <1>31

-----------------------------------------------------------------------------
\* How a call moves on: it is answered, withdraws, or comes to a later statement with
\* what it was asked for; only who is added gets other units than it came with.
Same(c, d) ==
    /\ d.op = c.op /\ d.route = c.route /\ d.org = c.org /\ d.actor = c.actor
    /\ d.user = c.user /\ d.role = c.role /\ d.inv = c.inv /\ d.unit = c.unit
UnitsKept(c, d) == (d.dept = c.dept /\ d.level = c.level) \/ c.op \in HostAdding \/ Joins(c)
Withdrawn(c) == [c EXCEPT !.route = Withdrawal, !.next = 1]
Further(c, d) ==
    d \in Call /\ Same(c, d) /\ UnitsKept(c, d) /\ d.next > c.next /\ d.next \in 1..Len(c.route)
Follows(c, d) == d = Blank \/ (c.op = "Signup" /\ d = Withdrawn(c)) \/ Further(c, d)
Moves(r) ==
    /\ call' = [call EXCEPT ![r] = call'[r]] /\ Follows(call[r], call'[r])
    /\ call[r] # Blank /\ \A q \in Requests \ {r} : call'[q] = call[q]

LEMMA BlankOK == Blank \in Call /\ Flow(Blank)
<1>1. <<>> \in Seq(Statements) /\ 1 \in Nat \ {0} OBVIOUS
<1>2. [name |-> 0, image |-> 0] \in Details BY DEF Details
<1> QED BY <1>1, <1>2 DEF Blank, Call, Flow

LEMMA CallIs ==
    ASSUME Inv, NEW r \in Requests
    PROVE  call[r] \in Call /\ Flow(call[r]) /\ (call[r].op = "none" <=> call[r] = Blank)
BY DEF Inv, TypeOK, Flow, Blank

LEMMA BecomeMoves ==
    ASSUME Inv, NEW r \in Requests, call[r].op # "none",
           NEW e \in Call, Same(call[r], e), UnitsKept(call[r], e), e.next >= call[r].next,
           Become(r, e)
    PROVE  Moves(r)
<1>1. call \in [Requests -> Call] BY DEF Inv, TypeOK
<1>2. call'[r] = IF e.next < Len(e.route) THEN Skip(e) ELSE Blank
  BY <1>1 DEF Become
<1>3. CASE e.next < Len(e.route)
  <2>1. call'[r] = Skip(e) BY <1>2, <1>3
  <2>2. /\ e.next \in Nat /\ e.next + 1 \in Nat \ {0} /\ Len(e.route) \in Nat
        /\ call[r].next \in Nat
    BY <1>1 DEF Call
  <2>3. call'[r] \in Call BY <2>1, <2>2 DEF Call, Skip
  <2>4. Same(call[r], call'[r]) BY <2>1 DEF Same, Call, Skip
  <2>5. UnitsKept(call[r], call'[r]) BY <2>1 DEF UnitsKept, Call, Skip
  <2>6. call'[r].next = e.next + 1 BY <2>1 DEF Call, Skip
  <2>7. e.route = call[r].route BY DEF Same
  <2>8. call'[r].next > call[r].next /\ call'[r].next \in 1..Len(call[r].route)
    BY <1>3, <2>2, <2>6, <2>7
  <2>9. Further(call[r], call'[r]) BY <2>3, <2>4, <2>5, <2>8 DEF Further
  <2> QED BY <1>1, <2>9, CallIs DEF Moves, Follows, Become
<1>4. CASE ~(e.next < Len(e.route)) BY <1>1, <1>2, <1>4, CallIs DEF Moves, Follows, Become
<1> QED BY <1>3, <1>4

LEMMA ProceedMoves ==
    ASSUME Inv, NEW r \in Requests, call[r].op # "none", Proceed(r) PROVE Moves(r)
<1>1. call[r] \in Call /\ call[r].next \in Nat BY CallIs DEF Call
<1>2. Same(call[r], call[r]) /\ UnitsKept(call[r], call[r]) BY DEF Same, UnitsKept
<1> QED BY <1>1, <1>2, BecomeMoves DEF Proceed

LEMMA RefuseMoves ==
    ASSUME Inv, NEW r \in Requests, call[r].op # "none", Refuse(r) PROVE Moves(r)
<1>1. call \in [Requests -> Call] BY DEF Inv, TypeOK
<1> QED BY <1>1, CallIs DEF Refuse, Moves, Follows, Withdrawn

LEMMA PassMoves ==
    ASSUME Inv, NEW r \in Requests, call[r].op # "none", NEW p, Pass(r, p) PROVE Moves(r)
BY ProceedMoves, RefuseMoves DEF Pass

LEMMA FollowsOK ==
    ASSUME NEW c \in Call, Flow(c), c # Blank, NEW d, Follows(c, d)
    PROVE  d \in Call /\ Flow(d)
<1>1. CASE d = Blank BY <1>1, BlankOK
<1>2. CASE c.op = "Signup" /\ d = Withdrawn(c)
  <2>1. Withdrawal \in Seq(Statements) /\ Len(Withdrawal) = 1 /\ 1 \in 1..1 /\ 1 \in Nat \ {0}
    BY DEF Withdrawal, Statements
  <2>2. d \in Call BY <1>2, <2>1 DEF Withdrawn, Call
  <2>3. /\ d.op = "Signup" /\ d.route = Withdrawal /\ d.next = 1 /\ d.inv = c.inv
        /\ d.actor = c.actor /\ d.user = c.user
    BY <1>2 DEF Withdrawn, Call
  <2>4. Needed(c) BY <1>2 DEF Flow
  <2>5. Needed(d) BY <1>2, <2>3, <2>4 DEF Needed, Changing, HostAdding, Founds, Joins, Guarded, ByManagers, ByMembers, ByInvited
  <2> QED BY <2>1, <2>2, <2>3, <2>5 DEF Flow, OnRoute
<1>3. CASE Further(c, d)
  <2>1. OnRoute(c) /\ Needed(c) /\ c.op # "none" BY DEF Flow
  <2>2. OnRoute(d) BY <1>3, <2>1 DEF Further, Same, OnRoute
  <2>3. Needed(d) BY <1>3, <2>1 DEF Further, Same, UnitsKept, Needed, Founds, Joins, HostAdding
  <2> QED BY <1>3, <2>1, <2>2, <2>3 DEF Further, Same, Flow
<1> QED BY <1>1, <1>2, <1>3 DEF Follows

\* What the call knows that is at a statement.
Knows(c) ==
    /\ (\E s \in Statements \ {"switch", "deleteAccount"} : At(c, s)) => c.org \in Orgs
    /\ (\E s \in {"member", "admin", "owner", "switch", "enter", "deleteAccount"} : At(c, s)) => c.actor \in Users
    /\ (\E s \in {"target", "decide", "changeRole", "remove", "existing", "limit", "add"} : At(c, s)) => c.user \in Users
    /\ (\E s \in {"hasRole", "changeRole", "newRole", "add", "invite"} : At(c, s)) => c.role \in Roles
    /\ (\E s \in {"newUnit", "dropUnit"} : At(c, s)) => c.unit \in Units
    /\ (\E s \in {"token", "accept", "orgOf", "revoke"} : At(c, s)) => c.inv \in Invites

LEMMA CallKnows == ASSUME Inv, NEW r \in Requests, call[r].op # "none" PROVE Knows(call[r])
<1> DEFINE c == call[r]
<1>1. c \in Call /\ Flow(c) /\ Needed(c) BY CallIs DEF Flow, Blank
<1>2. Joins(c) /\ c.route # Withdrawal => c.role \in Roles
  <2>1. Joins(c) => c.inv \in Invites BY <1>1 DEF Needed
  <2> QED BY <2>1 DEF Inv, InvitedOK, TypeOK, Invitation
<1>3. "owner" \in Roles BY DEF Roles, DefaultRoles
<1> HIDE DEF c
<1>4. c.op # "none" BY DEF c
<1>5. ASSUME NEW s \in Statements \ {"switch", "deleteAccount"}, At(c, s) PROVE c.org \in Orgs
  <2>1. c.route # Withdrawal BY <1>1, <1>4, <1>5, Where DEF At
  <2>2. c.op # "ClearActive" BY <1>1, <1>4, <1>5, Stations DEF Station, On, At
  <2> QED BY <1>1, <2>1, <2>2 DEF Needed
<1>6. ASSUME NEW s \in {"member", "admin", "owner", "switch", "enter", "deleteAccount"}, At(c, s)
      PROVE  c.actor \in Users
  BY <1>1, <1>4, <1>6, Where DEF Needed, Guarded, ByManagers, ByMembers, ByInvited, Changing
<1>7. ASSUME NEW s \in {"target", "decide", "changeRole", "remove", "existing", "limit", "add"}, At(c, s)
      PROVE  c.user \in Users
  BY <1>1, <1>4, <1>7, Where DEF Needed, Changing, HostAdding, Founds, Joins
<1>8. ASSUME NEW s \in {"hasRole", "changeRole", "newRole", "add", "invite"}, At(c, s)
      PROVE  c.role \in Roles
  <2>1. c.route # Withdrawal BY <1>1, <1>4, <1>8, Where DEF At
  <2> QED BY <1>1, <1>2, <1>3, <1>4, <1>8, <2>1, Where DEF Needed, HostAdding
<1>9. ASSUME NEW s \in {"newUnit", "dropUnit"}, At(c, s) PROVE c.unit \in Units
  BY <1>1, <1>4, <1>9, Where DEF Needed
<1>10. ASSUME NEW s \in {"token", "accept", "orgOf", "revoke"}, At(c, s) PROVE c.inv \in Invites
  BY <1>1, <1>4, <1>10, Where DEF Needed
<1> QED BY <1>5, <1>6, <1>7, <1>8, <1>9, <1>10 DEF Knows, c

LEMMA StatementMoves == ASSUME Inv, NEW r \in Requests, Statement(r) PROVE Moves(r)
<1> DEFINE c == call[r]
<1>0. c.op # "none" BY DEF Statement, ReadMember, RequireRole, ReadTarget, Decide, HasOrgRole,
       UpdateMembershipRole, RemoveMembership, GetMembership, CheckMembershipLimit, AddMembership,
       Lookup, InsertOrganization, SeedDefaultRoles, SeedExtraRoles, CreateRole, CreateInvitation,
       ReadInvitation, DepartmentExists, LevelExists, AcceptInvitation, OrganizationOf,
       RevokeInvitation, SetActiveOrganization, Enter, CreateUnit, DeleteUnit, UpdateDetails,
       ReadList, DeleteAccount, Fail, Now
<1>1. c \in Call /\ Flow(c) /\ c # Blank /\ c.next \in Nat BY <1>0, CallIs DEF Call
<1>2. \A o \in Orgs, u \in Users : member[o][u] \in Membership BY DEF Inv, TypeOK
<1> HIDE DEF c
\* A statement that only reads the role of somebody, and one that reads a unit.
<1>3. ASSUME NEW x \in Roles, \/ Become(r, [c EXCEPT !.actorRole = x])
                              \/ Become(r, [c EXCEPT !.targetRole = x])
      PROVE  Moves(r)
  <2>1. \A e \in {[c EXCEPT !.actorRole = x], [c EXCEPT !.targetRole = x]} :
           e \in Call /\ Same(c, e) /\ UnitsKept(c, e) /\ e.next >= c.next
    BY <1>1, <1>3 DEF Call, Same, UnitsKept
  <2> QED BY <1>0, <1>3, <2>1, BecomeMoves DEF c
<1>4. ASSUME c.op \in HostAdding \/ Joins(c),
             NEW d \in Departments \cup {NoUnit}, NEW l \in Levels \cup {NoUnit},
             \/ Become(r, [c EXCEPT !.dept = d]) \/ Become(r, [c EXCEPT !.level = l])
             \/ Become(r, Skip([c EXCEPT !.dept = d, !.level = l]))
      PROVE  Moves(r)
  <2>1. c.next + 1 \in Nat \ {0} /\ c.next + 1 >= c.next BY <1>1 DEF Call
  <2> DEFINE Fits(e) == e \in Call /\ Same(c, e) /\ e.next >= c.next
  <2>2. Fits([c EXCEPT !.dept = d]) BY <1>1 DEF Call, Same
  <2>3. Fits([c EXCEPT !.level = l]) BY <1>1 DEF Call, Same
  <2>4. Fits(Skip([c EXCEPT !.dept = d, !.level = l]))
    <3> DEFINE g == [c EXCEPT !.dept = d]
               f == [g EXCEPT !.level = l]
    <3>1. [c EXCEPT !.dept = d, !.level = l] = f OBVIOUS
    <3>2. g \in Call /\ Same(c, g) /\ g.next = c.next BY <1>1 DEF Call, Same
    <3> HIDE DEF g
    <3>3. f \in Call /\ Same(c, f) /\ f.next = c.next BY <3>2 DEF Call, Same
    <3> HIDE DEF f
    <3>4. Fits(Skip(f)) BY <2>1, <3>3 DEF Call, Same, Skip
    <3> QED BY <3>1, <3>4
  <2>5. \A e : UnitsKept(c, e) BY <1>4 DEF UnitsKept
  <2> QED BY <1>0, <1>4, <2>2, <2>3, <2>4, <2>5, BecomeMoves DEF c
<1>5. ASSUME Become(r, Skip(c)) PROVE Moves(r)
  <2>1. c.next + 1 \in Nat \ {0} /\ c.next + 1 >= c.next BY <1>1 DEF Call
  <2>2. Skip(c) \in Call /\ Same(c, Skip(c)) /\ UnitsKept(c, Skip(c)) /\ Skip(c).next >= c.next
    BY <1>1, <2>1 DEF Call, Same, UnitsKept, Skip
  <2> QED BY <1>0, <1>5, <2>2, BecomeMoves DEF c
<1>6. Knows(c) /\ \A s \in Statements : Now(r, s) => At(c, s) BY <1>0, CallKnows DEF c, Now, At
<1>7. ASSUME NEW p, Pass(r, p) PROVE Moves(r) BY <1>0, <1>7, PassMoves DEF c
<1>8. Proceed(r) \/ Refuse(r) => Moves(r) BY <1>0, ProceedMoves, RefuseMoves DEF c
<1>9. CASE ReadMember(r)
  <2>1. member[c.org][c.actor].role \in Roles
    BY <1>2, <1>6, <1>9 DEF ReadMember, Knows, Statements, Membership
  <2> QED BY <1>3, <1>8, <1>9, <2>1 DEF ReadMember, c
<1>10. CASE ReadTarget(r)
  <2>1. member[c.org][c.user].role \in Roles
    BY <1>2, <1>6, <1>10 DEF ReadTarget, Knows, Statements, Membership
  <2> QED BY <1>3, <1>8, <1>10, <2>1 DEF ReadTarget, c
<1>11. CASE GetMembership(r)
  <2>1. /\ member[c.org][c.user].dept \in Departments \cup {NoUnit}
        /\ member[c.org][c.user].level \in Levels \cup {NoUnit}
    BY <1>2, <1>6, <1>11 DEF GetMembership, Knows, Statements, Membership
  <2>2. c.op \in HostAdding BY <1>0, <1>1, <1>6, <1>11, Where DEF GetMembership, HostAdding, Statements
  <2>3. Become(r, c) => Moves(r) BY <1>8 DEF Proceed, c
  <2> QED BY <1>4, <1>11, <2>1, <2>2, <2>3 DEF GetMembership, c
<1>12. CASE DepartmentExists(r) \/ LevelExists(r)
  <2>1. Joins(c) BY <1>0, <1>1, <1>6, <1>12, Where DEF DepartmentExists, LevelExists, Statements
  <2>2. Become(r, c) => Moves(r) BY <1>8 DEF Proceed, c
  <2> QED BY <1>4, <1>12, <2>1, <2>2 DEF DepartmentExists, LevelExists, c
<1>13. CASE Lookup(r) \/ Enter(r)
  <2>1. Become(r, c) => Moves(r) BY <1>8 DEF Proceed, c
  <2> QED BY <1>5, <1>13, <2>1 DEF Lookup, Enter, c
<1>14. CASE DeleteAccount(r)
  <2>1. call' = [call EXCEPT ![r] = Blank] /\ call \in [Requests -> Call] BY <1>14 DEF DeleteAccount, Inv, TypeOK
  <2> QED BY <1>1, <2>1 DEF Moves, Follows, c
<1>15. CASE \/ RequireRole(r, "admin", Managers) \/ RequireRole(r, "owner", {"owner"})
            \/ Decide(r) \/ HasOrgRole(r) \/ CheckMembershipLimit(r) \/ InsertOrganization(r)
            \/ CreateRole(r) \/ ReadInvitation(r) \/ AcceptInvitation(r) \/ CreateUnit(r) \/ DeleteUnit(r)
  BY <1>7, <1>15 DEF RequireRole, Decide, HasOrgRole, CheckMembershipLimit, InsertOrganization,
     CreateRole, ReadInvitation, AcceptInvitation, CreateUnit, DeleteUnit
<1>16. CASE \/ UpdateMembershipRole(r) \/ RemoveMembership(r) \/ AddMembership(r) \/ SeedDefaultRoles(r)
            \/ SeedExtraRoles(r) \/ CreateInvitation(r) \/ OrganizationOf(r) \/ RevokeInvitation(r)
            \/ SetActiveOrganization(r) \/ UpdateDetails(r) \/ ReadList(r) \/ Fail(r)
  BY <1>8, <1>16 DEF UpdateMembershipRole, RemoveMembership, AddMembership, SeedDefaultRoles,
     SeedExtraRoles, CreateInvitation, OrganizationOf, RevokeInvitation, SetActiveOrganization,
     UpdateDetails, ReadList, Fail
<1> QED BY <1>9, <1>10, <1>11, <1>12, <1>13, <1>14, <1>15, <1>16 DEF Statement
-----------------------------------------------------------------------------
\* A request that is taken: its call is at its first statement.
Fresh(c) ==
    /\ c \in Call /\ Flow(c) /\ c # Blank /\ c.next = 1
    /\ c.op \in HostAdding => c.dept = NoUnit /\ c.level = NoUnit
    /\ c.op = "RevokeInvite" => inv[c.inv].state # "none"
    /\ Joins(c) /\ c.route # Withdrawal =>
          inv[c.inv].state # "none" /\ c.org = inv[c.inv].org /\ c.role = inv[c.inv].role

\* What a request has filled in, and what it has left blank.
Asked(c, op, route, o, a, u, role, i, d, l, x) ==
    /\ c \in Call /\ c.op = op /\ c.route = route /\ c.next = 1
    /\ c.org = o /\ c.actor = a /\ c.user = u /\ c.role = role
    /\ c.inv = i /\ c.dept = d /\ c.level = l /\ c.unit = x

LEMMA AskIs ==
    ASSUME NEW op \in Operations, NEW route \in Seq(Statements)
    PROVE  Asked(Ask(op, route), op, route, NoOrg, NoUser, NoUser, "none", NoInvite, NoUnit, NoUnit, NoUnit)
<1>1. Blank \in Call BY BlankOK
<1>2. [Blank EXCEPT !.op = op] \in Call BY <1>1 DEF Call
<1> DEFINE b == [Blank EXCEPT !.op = op]
<1>3. /\ b.op = op /\ b.next = 1 /\ b.org = NoOrg /\ b.actor = NoUser /\ b.user = NoUser /\ b.role = "none"
      /\ b.inv = NoInvite /\ b.dept = NoUnit /\ b.level = NoUnit /\ b.unit = NoUnit
  BY DEF Blank
<1>4. Ask(op, route) = [b EXCEPT !.route = route] BY DEF Ask
<1> HIDE DEF b
<1>5. b \in Call BY <1>2 DEF b
<1> QED BY <1>3, <1>4, <1>5 DEF Asked, Call

LEMMA Filling ==
    ASSUME NEW c, NEW op, NEW route, NEW o, NEW a, NEW u, NEW role, NEW i, NEW d, NEW l, NEW x,
           Asked(c, op, route, o, a, u, role, i, d, l, x)
    PROVE  /\ \A y \in Orgs : Asked([c EXCEPT !.org = y], op, route, y, a, u, role, i, d, l, x)
           /\ \A y \in Users : Asked([c EXCEPT !.actor = y], op, route, o, y, u, role, i, d, l, x)
           /\ \A y \in Users : Asked([c EXCEPT !.user = y], op, route, o, a, y, role, i, d, l, x)
           /\ \A y \in Roles : Asked([c EXCEPT !.role = y], op, route, o, a, u, y, i, d, l, x)
           /\ \A y \in Invites : Asked([c EXCEPT !.inv = y], op, route, o, a, u, role, y, d, l, x)
           /\ \A y \in Departments \cup {NoUnit} :
                 Asked([c EXCEPT !.dept = y], op, route, o, a, u, role, i, y, l, x)
           /\ \A y \in Levels \cup {NoUnit} :
                 Asked([c EXCEPT !.level = y], op, route, o, a, u, role, i, d, y, x)
           /\ \A y \in Units : Asked([c EXCEPT !.unit = y], op, route, o, a, u, role, i, d, l, y)
           /\ \A y \in {"name", "image"} :
                 Asked([c EXCEPT !.edit = y], op, route, o, a, u, role, i, d, l, x)
           /\ \A y \in Details :
                 Asked([c EXCEPT !.details = y], op, route, o, a, u, role, i, d, l, x)
BY DEF Asked, Call
Paths == {Create, Ensure, EnsureOwned, Update, AddMember, SetMemberRole, ChangeMemberRole,
          RemoveMember, Invite, PlatformInvite, AcceptInvite, PeekInvitation, RevokeInvite,
          ListInvitations, SwitchActive, ClearActive, CreateRoleForActor, <<"newRole">>,
          <<"newUnit">>, <<"member", "read">>, CreateDepartmentForActor, DeleteDepartment,
          CreateOnSignup, JoinOnSignup, Withdrawal}

LEMMA PathsAre == \A p \in Paths : p \in Seq(Statements) /\ 1 \in 1..Len(p)
<1> DEFINE Path(p) == p \in Seq(Statements) /\ 1 \in 1..Len(p)
<1>1. /\ Create \in Seq(Statements) /\ Len(Create) = 5
      /\ Ensure \in Seq(Statements) /\ Len(Ensure) = 4
      /\ Update \in Seq(Statements) /\ Len(Update) = 2
  BY DEF Create, Ensure, Update, Statements
<1>2. /\ AddMember \in Seq(Statements) /\ Len(AddMember) = 4
      /\ Invite \in Seq(Statements) /\ Len(Invite) = 3
      /\ PlatformInvite \in Seq(Statements) /\ Len(PlatformInvite) = 2
  BY DEF AddMember, Invite, PlatformInvite, Statements
<1>3. /\ AcceptInvite \in Seq(Statements) /\ Len(AcceptInvite) = 7
      /\ PeekInvitation \in Seq(Statements) /\ Len(PeekInvitation) = 2
      /\ RevokeInvite \in Seq(Statements) /\ Len(RevokeInvite) = 2
  BY DEF AcceptInvite, PeekInvitation, RevokeInvite, Statements
<1>4. /\ ListInvitations \in Seq(Statements) /\ Len(ListInvitations) = 2
      /\ SwitchActive \in Seq(Statements) /\ Len(SwitchActive) = 2
      /\ ClearActive \in Seq(Statements) /\ Len(ClearActive) = 1
  BY DEF ListInvitations, SwitchActive, ClearActive, Statements
<1>5. /\ CreateRoleForActor \in Seq(Statements) /\ Len(CreateRoleForActor) = 2
      /\ CreateDepartmentForActor \in Seq(Statements) /\ Len(CreateDepartmentForActor) = 2
      /\ DeleteDepartment \in Seq(Statements) /\ Len(DeleteDepartment) = 2
      /\ Withdrawal \in Seq(Statements) /\ Len(Withdrawal) = 1
  BY DEF CreateRoleForActor, CreateDepartmentForActor, DeleteDepartment, Withdrawal, Statements
<1>6. /\ <<"newRole">> \in Seq(Statements) /\ Len(<<"newRole">>) = 1
      /\ <<"newUnit">> \in Seq(Statements) /\ Len(<<"newUnit">>) = 1
      /\ <<"member", "read">> \in Seq(Statements) /\ Len(<<"member", "read">>) = 2
  BY DEF Statements
<1>7. /\ EnsureOwned \in Seq(Statements) /\ Len(EnsureOwned) = 5
      /\ SetMemberRole \in Seq(Statements) /\ Len(SetMemberRole) = 5
      /\ ChangeMemberRole \in Seq(Statements) /\ Len(ChangeMemberRole) = 5
      /\ RemoveMember \in Seq(Statements) /\ Len(RemoveMember) = 4
  BY EnsureIs, SetMemberRoleIs, ChangesAre DEF Reads
<1>8. /\ CreateOnSignup \in Seq(Statements) /\ Len(CreateOnSignup) = 7
      /\ JoinOnSignup \in Seq(Statements) /\ Len(JoinOnSignup) = 9
  BY SignupIs DEF Reads
<1>9. \A n \in 1..9 : 1 \in 1..n OBVIOUS
<1>10. Path(Create) /\ Path(Ensure) /\ Path(Update) BY <1>1
<1>11. Path(AddMember) /\ Path(Invite) /\ Path(PlatformInvite) BY <1>2
<1>12. Path(AcceptInvite) /\ Path(PeekInvitation) /\ Path(RevokeInvite) BY <1>3
<1>13. Path(ListInvitations) /\ Path(SwitchActive) /\ Path(ClearActive) BY <1>4
<1>14. Path(CreateRoleForActor) /\ Path(CreateDepartmentForActor) /\ Path(DeleteDepartment) /\ Path(Withdrawal)
  BY <1>5
<1>15. Path(<<"newRole">>) /\ Path(<<"newUnit">>) /\ Path(<<"member", "read">>) BY <1>6
<1>16. Path(EnsureOwned) /\ Path(SetMemberRole) /\ Path(ChangeMemberRole) /\ Path(RemoveMember) BY <1>7
<1>17. Path(CreateOnSignup) /\ Path(JoinOnSignup) BY <1>8
<1> HIDE DEF Path
<1>18. \A p \in Paths : Path(p)
  BY <1>10, <1>11, <1>12, <1>13, <1>14, <1>15, <1>16, <1>17 DEF Paths
<1> QED BY <1>18 DEF Path

Begins(r) ==
    /\ call[r] = Blank /\ Fresh(call'[r]) /\ call' = [call EXCEPT ![r] = call'[r]]
    /\ account' \in [Users -> {"none", "new", "live", "gone"}]
    /\ UNCHANGED <<orgs, details, catalog, member, home, inv, active>>

LEMMA ArriveBegins ==
    ASSUME Inv, NEW r \in Requests, NEW c, Fresh(c), Arrive(r, c)
    PROVE  Begins(r)
BY CallIs DEF Inv, TypeOK, Arrive, Begins, rows

LEMMA Asking ==
    ASSUME NEW r, NEW c, NEW op, NEW route, NEW t, NEW role, NEW i, NEW d, NEW l, NEW x,
           Asked(c, op, route, NoOrg, NoUser, t, role, i, d, l, x),
           NEW u \in Users, NEW o \in Orgs, Find(r, u, o, c)
    PROVE  \E e : Asked(e, op, route, o, u, t, role, i, d, l, x) /\ Arrive(r, e)
<1> DEFINE e == [c EXCEPT !.org = o]
           f == [e EXCEPT !.actor = u]
<1>1. Asked(e, op, route, o, NoUser, t, role, i, d, l, x) BY Filling
<1> HIDE DEF e
<1>2. Asked(f, op, route, o, u, t, role, i, d, l, x) BY <1>1, Filling
<1> HIDE DEF f
<1>3. Arrive(r, f) BY DEF Find, ByUser, e, f
<1> QED BY <1>2, <1>3

LEMMA AskedFresh ==
    ASSUME NEW c, NEW op \in Operations, NEW route \in Paths, NEW o, NEW a, NEW u, NEW role, NEW i, NEW d, NEW l, NEW x,
           Asked(c, op, route, o, a, u, role, i, d, l, x), OnRoute(c), Needed(c),
           op \in HostAdding => d = NoUnit /\ l = NoUnit, op = "RevokeInvite" => inv[i].state # "none",
           Joins(c) /\ route # Withdrawal => inv[i].state # "none" /\ o = inv[i].org /\ role = inv[i].role
    PROVE  Fresh(c)
<1>1. op # "none" BY DEF Operations
<1>2. c.next \in 1..Len(c.route) BY PathsAre DEF Asked
<1> QED BY <1>1, <1>2 DEF Asked, Flow, Fresh, Blank

\* A request of a user, of nothing but the organization.
LEMMA PlainBegins ==
    ASSUME Inv, NEW r \in Requests, NEW u \in Users, NEW o \in Orgs,
           \/ OnGet(r, u, o) \/ OnMembers(r, u, o) \/ OnListRoles(r, u, o)
           \/ OnListDepartments(r, u, o) \/ OnListLevels(r, u, o) \/ OnListInvitations(r, u, o)
    PROVE  Begins(r)
<1>1. PICK op \in {"Get", "ListMembers", "ListRoles", "ListDepartments", "ListLevels", "ListInvitations"},
           route \in {<<"member", "read">>, ListInvitations} :
           Find(r, u, o, Ask(op, route)) /\ (op = "ListInvitations" <=> route = ListInvitations)
  BY DEF OnGet, OnMembers, OnListRoles, OnListDepartments, OnListLevels, OnListInvitations,
     ListMembers, ListRoles, ListDepartments, ListLevels, ListInvitations
<1>2. op \in Operations /\ route \in Paths BY DEF Operations, Paths
<1>3. Asked(Ask(op, route), op, route, NoOrg, NoUser, NoUser, "none", NoInvite, NoUnit, NoUnit, NoUnit)
  BY <1>2, AskIs, PathsAre
<1>4. PICK e : Asked(e, op, route, o, u, NoUser, "none", NoInvite, NoUnit, NoUnit, NoUnit) /\ Arrive(r, e)
  BY <1>1, <1>3, Asking
<1>5. OnRoute(e) BY <1>1, <1>4 DEF OnRoute, Asked
<1>6. Needed(e) BY <1>4 DEF Needed, Asked, Founds, Joins, Changing, HostAdding
<1>7. Fresh(e) BY <1>2, <1>4, <1>5, <1>6, AskedFresh DEF HostAdding, Joins, Asked
<1> QED BY <1>4, <1>7, ArriveBegins

\* ... with a department or level,
LEMMA UnitBegins ==
    ASSUME Inv, NEW r \in Requests, NEW u \in Users, NEW o \in Orgs, NEW x \in Units,
           \/ OnCreateDepartment(r, u, o, x) \/ OnDeleteDepartment(r, u, o, x)
           \/ OnCreateLevel(r, u, o, x) \/ OnDeleteLevel(r, u, o, x)
    PROVE  Begins(r)
<1>1. PICK op \in {"CreateDepartment", "DeleteDepartment", "CreateLevel", "DeleteLevel"}, route \in Paths :
           /\ Find(r, u, o, [Ask(op, route) EXCEPT !.unit = x])
           /\ op \in {"CreateDepartment", "CreateLevel"} => route = CreateDepartmentForActor
           /\ op \in {"DeleteDepartment", "DeleteLevel"} => route = DeleteDepartment
  <2>1. {CreateDepartmentForActor, DeleteDepartment} \subseteq Paths BY DEF Paths
  <2>2. CreateLevelForActor = CreateDepartmentForActor /\ DeleteLevel = DeleteDepartment
    BY DEF CreateDepartmentForActor, DeleteDepartment, CreateLevelForActor, DeleteLevel
  <2> QED BY <2>1, <2>2 DEF OnCreateDepartment, OnDeleteDepartment, OnCreateLevel, OnDeleteLevel
<1>2. op \in Operations BY DEF Operations
<1> DEFINE c == [Ask(op, route) EXCEPT !.unit = x]
<1>3. Asked(c, op, route, NoOrg, NoUser, NoUser, "none", NoInvite, NoUnit, NoUnit, x)
  BY <1>2, AskIs, PathsAre, Filling
<1> HIDE DEF c
<1>4. PICK e : Asked(e, op, route, o, u, NoUser, "none", NoInvite, NoUnit, NoUnit, x) /\ Arrive(r, e)
  BY <1>1, <1>3, Asking DEF c
<1>5. OnRoute(e) BY <1>1, <1>4 DEF OnRoute, Asked
<1>6. Needed(e) BY <1>4 DEF Needed, Asked, Founds, Joins, Changing, HostAdding
<1>7. Fresh(e) BY <1>2, <1>4, <1>5, <1>6, AskedFresh DEF HostAdding, Joins, Asked
<1> QED BY <1>4, <1>7, ArriveBegins

\* ... with a member, and the role it is to have,
LEMMA ChangeBegins ==
    ASSUME Inv, NEW r \in Requests, NEW u \in Users, NEW o \in Orgs, NEW t \in Users, NEW role \in Roles,
           OnDeleteMember(r, u, o, t) \/ OnPatchMember(r, u, o, t, role)
    PROVE  Begins(r)
<1>0. {RemoveMember, ChangeMemberRole} \subseteq Paths /\ {"RemoveMember", "ChangeMemberRole"} \subseteq Operations
  BY DEF Paths, Operations
<1>1. CASE OnDeleteMember(r, u, o, t)
  <2> DEFINE c == [Ask("RemoveMember", RemoveMember) EXCEPT !.user = t]
  <2>1. Asked(c, "RemoveMember", RemoveMember, NoOrg, NoUser, t, "none", NoInvite, NoUnit, NoUnit, NoUnit)
    BY <1>0, AskIs, PathsAre, Filling
  <2>2. Find(r, u, o, c) BY <1>1 DEF OnDeleteMember
  <2> HIDE DEF c
  <2>3. PICK e : /\ Asked(e, "RemoveMember", RemoveMember, o, u, t, "none", NoInvite, NoUnit, NoUnit, NoUnit)
                 /\ Arrive(r, e)
    BY <2>1, <2>2, Asking
  <2>4. OnRoute(e) BY <2>3 DEF OnRoute, Asked
  <2>5. Needed(e) BY <2>3 DEF Needed, Asked, Founds, Joins, Changing, HostAdding
  <2>6. Fresh(e) BY <1>0, <2>3, <2>4, <2>5, AskedFresh DEF HostAdding, Joins, Asked
  <2> QED BY <2>3, <2>6, ArriveBegins
<1>2. CASE OnPatchMember(r, u, o, t, role)
  <2> DEFINE b == [Ask("ChangeMemberRole", ChangeMemberRole) EXCEPT !.user = t]
             c == [b EXCEPT !.role = role]
  <2>1. Asked(b, "ChangeMemberRole", ChangeMemberRole, NoOrg, NoUser, t, "none", NoInvite, NoUnit, NoUnit, NoUnit)
    BY <1>0, AskIs, PathsAre, Filling
  <2>2. Find(r, u, o, c) BY <1>2 DEF OnPatchMember
  <2> HIDE DEF b
  <2>3. Asked(c, "ChangeMemberRole", ChangeMemberRole, NoOrg, NoUser, t, role, NoInvite, NoUnit, NoUnit, NoUnit)
    BY <2>1, Filling
  <2> HIDE DEF c
  <2>4. PICK e : /\ Asked(e, "ChangeMemberRole", ChangeMemberRole, o, u, t, role, NoInvite, NoUnit, NoUnit, NoUnit)
                 /\ Arrive(r, e)
    BY <2>2, <2>3, Asking
  <2>5. OnRoute(e) BY <2>4 DEF OnRoute, Asked
  <2>6. Needed(e) BY <2>4 DEF Needed, Asked, Founds, Joins, Changing, HostAdding
  <2>7. Fresh(e) BY <1>0, <2>4, <2>5, <2>6, AskedFresh DEF HostAdding, Joins, Asked
  <2> QED BY <2>4, <2>7, ArriveBegins
<1> QED BY <1>1, <1>2

\* ... with a role to create, or what the organization's details are to be,
LEMMA EditBegins ==
    ASSUME Inv, NEW r \in Requests, NEW u \in Users, NEW o \in Orgs,
           NEW role \in Roles, NEW field \in {"name", "image"},
           OnCreateRole(r, u, o, role) \/ OnPatch(r, u, o, field)
    PROVE  Begins(r)
<1>0. {CreateRoleForActor, Update} \subseteq Paths /\ {"CreateRoleForActor", "Update"} \subseteq Operations
  BY DEF Paths, Operations
<1>1. CASE OnCreateRole(r, u, o, role)
  <2> DEFINE c == [Ask("CreateRoleForActor", CreateRoleForActor) EXCEPT !.role = role]
  <2>1. Asked(c, "CreateRoleForActor", CreateRoleForActor, NoOrg, NoUser, NoUser, role, NoInvite, NoUnit, NoUnit, NoUnit)
    BY <1>0, AskIs, PathsAre, Filling
  <2>2. Find(r, u, o, c) BY <1>1 DEF OnCreateRole
  <2> HIDE DEF c
  <2>3. PICK e : /\ Asked(e, "CreateRoleForActor", CreateRoleForActor, o, u, NoUser, role, NoInvite, NoUnit, NoUnit, NoUnit)
                 /\ Arrive(r, e)
    BY <2>1, <2>2, Asking
  <2>4. OnRoute(e) BY <2>3 DEF OnRoute, Asked
  <2>5. Needed(e) BY <2>3 DEF Needed, Asked, Founds, Joins, Changing, HostAdding
  <2>6. Fresh(e) BY <1>0, <2>3, <2>4, <2>5, AskedFresh DEF HostAdding, Joins, Asked
  <2> QED BY <2>3, <2>6, ArriveBegins
<1>2. CASE OnPatch(r, u, o, field)
  <2> DEFINE b == [Ask("Update", Update) EXCEPT !.edit = field]
             c == [b EXCEPT !.details = details[o]]
  <2>1. Asked(b, "Update", Update, NoOrg, NoUser, NoUser, "none", NoInvite, NoUnit, NoUnit, NoUnit)
    BY <1>0, AskIs, PathsAre, Filling
  <2>2. Find(r, u, o, c) BY <1>2 DEF OnPatch
  <2> HIDE DEF b
  <2>3. details[o] \in Details BY DEF Inv, TypeOK
  <2>4. Asked(c, "Update", Update, NoOrg, NoUser, NoUser, "none", NoInvite, NoUnit, NoUnit, NoUnit)
    BY <2>1, <2>3, Filling
  <2> HIDE DEF c
  <2>5. PICK e : /\ Asked(e, "Update", Update, o, u, NoUser, "none", NoInvite, NoUnit, NoUnit, NoUnit)
                 /\ Arrive(r, e)
    BY <2>2, <2>4, Asking
  <2>6. OnRoute(e) BY <2>5 DEF OnRoute, Asked
  <2>7. Needed(e) BY <2>5 DEF Needed, Asked, Founds, Joins, Changing, HostAdding
  <2>8. Fresh(e) BY <1>0, <2>5, <2>6, <2>7, AskedFresh DEF HostAdding, Joins, Asked
  <2> QED BY <2>5, <2>8, ArriveBegins
<1> QED BY <1>1, <1>2

\* ... with an invitation to write or to revoke.
LEMMA InviteBegins ==
    ASSUME Inv, NEW r \in Requests, NEW u \in Users, NEW o \in Orgs, NEW role \in Roles,
           NEW d \in Departments \cup {NoUnit}, NEW l \in Levels \cup {NoUnit},
           OnInvite(r, u, o, role, d, l)
    PROVE  Begins(r)
<1>0. Invite \in Paths /\ "Invite" \in Operations BY DEF Paths, Operations
<1> DEFINE a == [Ask("Invite", Invite) EXCEPT !.role = role]
           b == [a EXCEPT !.dept = d]
           c == [b EXCEPT !.level = l]
<1>1. Asked(a, "Invite", Invite, NoOrg, NoUser, NoUser, role, NoInvite, NoUnit, NoUnit, NoUnit)
  BY <1>0, AskIs, PathsAre, Filling
<1>2. Find(r, u, o, c) BY DEF OnInvite
<1> HIDE DEF a
<1>3. Asked(b, "Invite", Invite, NoOrg, NoUser, NoUser, role, NoInvite, d, NoUnit, NoUnit) BY <1>1, Filling
<1> HIDE DEF b
<1>4. Asked(c, "Invite", Invite, NoOrg, NoUser, NoUser, role, NoInvite, d, l, NoUnit) BY <1>3, Filling
<1> HIDE DEF c
<1>5. PICK e : Asked(e, "Invite", Invite, o, u, NoUser, role, NoInvite, d, l, NoUnit) /\ Arrive(r, e)
  BY <1>2, <1>4, Asking
<1>6. OnRoute(e) BY <1>5 DEF OnRoute, Asked
<1>7. Needed(e) BY <1>5 DEF Needed, Asked, Founds, Joins, Changing, HostAdding
<1>8. Fresh(e) BY <1>0, <1>5, <1>6, <1>7, AskedFresh DEF HostAdding, Joins, Asked
<1> QED BY <1>5, <1>8, ArriveBegins

LEMMA RevokeBegins ==
    ASSUME Inv, NEW r \in Requests, NEW u \in Users, NEW o \in Orgs, NEW i \in Invites,
           OnRevokeInvite(r, u, o, i)
    PROVE  Begins(r)
<1>0. RevokeInvite \in Paths /\ "RevokeInvite" \in Operations BY DEF Paths, Operations
<1> DEFINE c == [Ask("RevokeInvite", RevokeInvite) EXCEPT !.inv = i]
<1>1. Asked(c, "RevokeInvite", RevokeInvite, NoOrg, NoUser, NoUser, "none", i, NoUnit, NoUnit, NoUnit)
  BY <1>0, AskIs, PathsAre, Filling
<1>2. Find(r, u, o, c) BY DEF OnRevokeInvite
<1> HIDE DEF c
<1>3. PICK e : /\ Asked(e, "RevokeInvite", RevokeInvite, o, u, NoUser, "none", i, NoUnit, NoUnit, NoUnit)
               /\ Arrive(r, e)
  BY <1>1, <1>2, Asking
<1>4. OnRoute(e) BY <1>3 DEF OnRoute, Asked
<1>5. Needed(e) BY <1>3 DEF Needed, Asked, Founds, Joins, Changing, HostAdding
<1>6. inv[i].state # "none" BY DEF OnRevokeInvite
<1>7. Fresh(e) BY <1>0, <1>3, <1>4, <1>5, <1>6, AskedFresh DEF HostAdding, Joins, Asked
<1> QED BY <1>3, <1>7, ArriveBegins

\* Who creates an organization, or enters one or none.
LEMMA CreateBegins ==
    ASSUME Inv, NEW r \in Requests, NEW u \in Users, NEW o \in Orgs, OnCreate(r, u, o) \/ OnSwitch(r, u, o)
    PROVE  Begins(r)
<1>0. /\ {Create, SwitchActive, ClearActive} \subseteq Paths
      /\ {"Create", "Switch", "ClearActive"} \subseteq Operations
  BY DEF Paths, Operations
<1>1. CASE OnCreate(r, u, o)
  <2> DEFINE a == [Ask("Create", Create) EXCEPT !.user = u]
             b == [a EXCEPT !.org = o]
             c == [b EXCEPT !.role = "owner"]
             e == [c EXCEPT !.actor = u]
  <2>1. Asked(a, "Create", Create, NoOrg, NoUser, u, "none", NoInvite, NoUnit, NoUnit, NoUnit)
    BY <1>0, AskIs, PathsAre, Filling
  <2>2. Arrive(r, e) BY <1>1 DEF OnCreate, ByUser
  <2> HIDE DEF a
  <2>3. Asked(b, "Create", Create, o, NoUser, u, "none", NoInvite, NoUnit, NoUnit, NoUnit) BY <2>1, Filling
  <2> HIDE DEF b
  <2>4. "owner" \in Roles BY DEF Roles, DefaultRoles
  <2>5. Asked(c, "Create", Create, o, NoUser, u, "owner", NoInvite, NoUnit, NoUnit, NoUnit)
    BY <2>3, <2>4, Filling
  <2> HIDE DEF c
  <2>6. Asked(e, "Create", Create, o, u, u, "owner", NoInvite, NoUnit, NoUnit, NoUnit) BY <2>5, Filling
  <2> HIDE DEF e
  <2>7. OnRoute(e) BY <2>6 DEF OnRoute, Asked
  <2>8. Needed(e)
    BY <2>6 DEF Needed, Asked, Founds, Joins, Changing, HostAdding, Guarded, ByManagers, ByMembers, ByInvited
  <2>9. Fresh(e) BY <1>0, <2>6, <2>7, <2>8, AskedFresh DEF HostAdding, Joins, Asked
  <2> QED BY <2>2, <2>9, ArriveBegins
<1>2. CASE ByUser(r, u, [Ask("Switch", SwitchActive) EXCEPT !.org = o])
  <2> DEFINE c == [Ask("Switch", SwitchActive) EXCEPT !.org = o]
             e == [c EXCEPT !.actor = u]
  <2>1. Asked(c, "Switch", SwitchActive, o, NoUser, NoUser, "none", NoInvite, NoUnit, NoUnit, NoUnit)
    BY <1>0, AskIs, PathsAre, Filling
  <2>2. Arrive(r, e) BY <1>2 DEF ByUser
  <2> HIDE DEF c
  <2>3. Asked(e, "Switch", SwitchActive, o, u, NoUser, "none", NoInvite, NoUnit, NoUnit, NoUnit)
    BY <2>1, Filling
  <2> HIDE DEF e
  <2>4. OnRoute(e) BY <2>3 DEF OnRoute, Asked
  <2>5. Needed(e) BY <2>3 DEF Needed, Asked, Founds, Joins, Changing, HostAdding
  <2>6. Fresh(e) BY <1>0, <2>3, <2>4, <2>5, AskedFresh DEF HostAdding, Joins, Asked
  <2> QED BY <2>2, <2>6, ArriveBegins
<1>3. CASE ByUser(r, u, Ask("ClearActive", ClearActive))
  <2> DEFINE c == Ask("ClearActive", ClearActive)
             e == [c EXCEPT !.actor = u]
  <2>1. Asked(c, "ClearActive", ClearActive, NoOrg, NoUser, NoUser, "none", NoInvite, NoUnit, NoUnit, NoUnit)
    BY <1>0, AskIs, PathsAre
  <2>2. Arrive(r, e) BY <1>3 DEF ByUser
  <2> HIDE DEF c
  <2>3. Asked(e, "ClearActive", ClearActive, NoOrg, u, NoUser, "none", NoInvite, NoUnit, NoUnit, NoUnit)
    BY <2>1, Filling
  <2> HIDE DEF e
  <2>4. OnRoute(e) BY <2>3 DEF OnRoute, Asked
  <2>5. Needed(e)
    BY <2>3 DEF Needed, Asked, Founds, Joins, Changing, HostAdding, Guarded, ByManagers, ByMembers, ByInvited
  <2>6. Fresh(e) BY <1>0, <2>3, <2>4, <2>5, AskedFresh DEF HostAdding, Joins, Asked
  <2> QED BY <2>2, <2>6, ArriveBegins
<1> QED BY <1>1, <1>2, <1>3 DEF OnSwitch

\* What an invitation offers.
LEMMA TermsAre ==
    ASSUME Inv, NEW i \in Invites, inv[i].state # "none", NEW op \in Operations, NEW route \in Paths
    PROVE  Asked(Terms(Ask(op, route), i), op, route, inv[i].org, NoUser, NoUser, inv[i].role,
                 i, inv[i].dept, inv[i].level, NoUnit)
<1>1. inv[i] \in Invitation /\ inv[i].org \in Orgs BY DEF Inv, TypeOK, InvitedOK
<1>2. /\ inv[i].role \in Roles /\ inv[i].dept \in Departments \cup {NoUnit}
      /\ inv[i].level \in Levels \cup {NoUnit}
  BY <1>1 DEF Invitation
<1> DEFINE a == [Ask(op, route) EXCEPT !.inv = i]
           b == [a EXCEPT !.org = inv[i].org]
           c == [b EXCEPT !.role = inv[i].role]
           d == [c EXCEPT !.dept = inv[i].dept]
           e == [d EXCEPT !.level = inv[i].level]
<1>3. Asked(a, op, route, NoOrg, NoUser, NoUser, "none", i, NoUnit, NoUnit, NoUnit)
  BY AskIs, PathsAre, Filling
<1>4. e = Terms(Ask(op, route), i) BY DEF Terms
<1> HIDE DEF a
<1>5. Asked(b, op, route, inv[i].org, NoUser, NoUser, "none", i, NoUnit, NoUnit, NoUnit)
  BY <1>1, <1>3, Filling
<1> HIDE DEF b
<1>6. Asked(c, op, route, inv[i].org, NoUser, NoUser, inv[i].role, i, NoUnit, NoUnit, NoUnit)
  BY <1>2, <1>5, Filling
<1> HIDE DEF c
<1>7. Asked(d, op, route, inv[i].org, NoUser, NoUser, inv[i].role, i, inv[i].dept, NoUnit, NoUnit)
  BY <1>2, <1>6, Filling
<1> HIDE DEF d
<1>8. Asked(e, op, route, inv[i].org, NoUser, NoUser, inv[i].role, i, inv[i].dept, inv[i].level, NoUnit)
  BY <1>2, <1>7, Filling
<1> HIDE DEF e
<1> QED BY <1>4, <1>8

LEMMA AcceptBegins ==
    ASSUME Inv, NEW r \in Requests, NEW u \in Users, NEW i \in Invites, OnAcceptInvite(r, u, i)
    PROVE  Begins(r)
<1>0. AcceptInvite \in Paths /\ "AcceptInvite" \in Operations BY DEF Paths, Operations
<1>1. inv[i].state # "none" BY DEF OnAcceptInvite
<1>2. inv[i].org \in Orgs BY <1>1 DEF Inv, InvitedOK
<1> DEFINE b == Terms(Ask("AcceptInvite", AcceptInvite), i)
           c == [b EXCEPT !.user = u]
           e == [c EXCEPT !.actor = u]
<1>3. Asked(b, "AcceptInvite", AcceptInvite, inv[i].org, NoUser, NoUser, inv[i].role,
            i, inv[i].dept, inv[i].level, NoUnit)
  BY <1>0, <1>1, TermsAre
<1>4. Arrive(r, e) BY DEF OnAcceptInvite, ByUser
<1> HIDE DEF b
<1>5. Asked(c, "AcceptInvite", AcceptInvite, inv[i].org, NoUser, u, inv[i].role,
            i, inv[i].dept, inv[i].level, NoUnit)
  BY <1>3, Filling
<1> HIDE DEF c
<1>6. Asked(e, "AcceptInvite", AcceptInvite, inv[i].org, u, u, inv[i].role,
            i, inv[i].dept, inv[i].level, NoUnit)
  BY <1>5, Filling
<1> HIDE DEF e
<1>7. OnRoute(e) BY <1>6 DEF OnRoute, Asked
<1>8. Needed(e) BY <1>2, <1>6 DEF Needed, Asked, Founds, Joins, Changing, HostAdding
<1>9. Fresh(e) BY <1>0, <1>1, <1>6, <1>7, <1>8, AskedFresh DEF HostAdding
<1> QED BY <1>4, <1>9, ArriveBegins

LEMMA ValidateBegins ==
    ASSUME Inv, NEW r \in Requests, NEW i \in Invites, OnValidateInvite(r, i)
    PROVE  Begins(r)
<1>0. PeekInvitation \in Paths /\ "PeekInvitation" \in Operations BY DEF Paths, Operations
<1>1. inv[i].state # "none" BY DEF OnValidateInvite
<1>2. inv[i].org \in Orgs BY <1>1 DEF Inv, InvitedOK
<1> DEFINE c == [Ask("PeekInvitation", PeekInvitation) EXCEPT !.inv = i]
           e == [c EXCEPT !.org = inv[i].org]
<1>3. Asked(c, "PeekInvitation", PeekInvitation, NoOrg, NoUser, NoUser, "none", i, NoUnit, NoUnit, NoUnit)
  BY <1>0, AskIs, PathsAre, Filling
<1>4. Arrive(r, e) BY DEF OnValidateInvite
<1> HIDE DEF c
<1>5. Asked(e, "PeekInvitation", PeekInvitation, inv[i].org, NoUser, NoUser, "none", i, NoUnit, NoUnit, NoUnit)
  BY <1>2, <1>3, Filling
<1> HIDE DEF e
<1>6. OnRoute(e) BY <1>5 DEF OnRoute, Asked
<1>7. Needed(e)
  BY <1>2, <1>5 DEF Needed, Asked, Founds, Joins, Changing, HostAdding, Guarded, ByManagers, ByMembers, ByInvited
<1>8. Fresh(e) BY <1>0, <1>5, <1>6, <1>7, AskedFresh DEF HostAdding, Joins, Asked
<1> QED BY <1>4, <1>8, ArriveBegins

LEMMA SignupBegins ==
    ASSUME Inv, NEW r \in Requests, NEW u \in Users, OnSignup(r, u) PROVE Begins(r)
<1>0. {CreateOnSignup, JoinOnSignup, Withdrawal} \subseteq Paths /\ "Signup" \in Operations
  BY DEF Paths, Operations
<1>1. scene.slugs \subseteq Orgs BY SceneAssumption DEF Inv, TypeOK
<1>2. CreateOnSignup # Withdrawal /\ JoinOnSignup # Withdrawal BY SignupIs DEF Reads, Withdrawal
<1>3. PICK c \in {Terms(Ask("Signup", JoinOnSignup), i) : i \in {j \in Invites : inv[j].state # "none"}}
                 \cup {[Ask("Signup", CreateOnSignup) EXCEPT !.org = o, !.role = "owner"] : o \in scene.slugs}
                 \cup {Ask("Signup", Withdrawal)} :
           call' = [call EXCEPT ![r] = [c EXCEPT !.actor = u, !.user = u]]
  BY DEF OnSignup
<1> DEFINE Offer ==
             /\ Asked(c, "Signup", c.route, c.org, NoUser, NoUser, c.role, c.inv, c.dept, c.level, NoUnit)
             /\ \/ c.route = Withdrawal
                \/ /\ c.route = CreateOnSignup /\ c.inv = NoInvite /\ c.org \in Orgs
                   /\ c.role = "owner" /\ c.dept = NoUnit /\ c.level = NoUnit
                \/ /\ c.route = JoinOnSignup /\ c.inv \in Invites /\ c.org \in Orgs
                   /\ inv[c.inv].state # "none" /\ c.org = inv[c.inv].org /\ c.role = inv[c.inv].role
<1>4. Offer
  <2>1. CASE c = Ask("Signup", Withdrawal)
    <3>1. Asked(c, "Signup", Withdrawal, NoOrg, NoUser, NoUser, "none", NoInvite, NoUnit, NoUnit, NoUnit)
      BY <1>0, <2>1, AskIs, PathsAre
    <3> QED BY <3>1 DEF Asked
  <2>2. CASE c \in {Terms(Ask("Signup", JoinOnSignup), i) : i \in {j \in Invites : inv[j].state # "none"}}
    <3>1. PICK i \in Invites : inv[i].state # "none" /\ c = Terms(Ask("Signup", JoinOnSignup), i) BY <2>2
    <3>2. Asked(c, "Signup", JoinOnSignup, inv[i].org, NoUser, NoUser, inv[i].role,
                i, inv[i].dept, inv[i].level, NoUnit)
      BY <1>0, <3>1, TermsAre
    <3>3. inv[i].org \in Orgs BY <3>1 DEF Inv, InvitedOK
    <3> QED BY <3>1, <3>2, <3>3 DEF Asked
  <2>3. CASE c \in {[Ask("Signup", CreateOnSignup) EXCEPT !.org = o, !.role = "owner"] : o \in scene.slugs}
    <3>1. PICK o \in Orgs : c = [Ask("Signup", CreateOnSignup) EXCEPT !.org = o, !.role = "owner"]
      BY <1>1, <2>3
    <3> DEFINE a == [Ask("Signup", CreateOnSignup) EXCEPT !.org = o]
               b == [a EXCEPT !.role = "owner"]
    <3>2. Asked(a, "Signup", CreateOnSignup, o, NoUser, NoUser, "none", NoInvite, NoUnit, NoUnit, NoUnit)
      BY <1>0, AskIs, PathsAre, Filling
    <3>3. c = b BY <3>1
    <3> HIDE DEF a
    <3>4. "owner" \in Roles BY DEF Roles, DefaultRoles
    <3>5. Asked(b, "Signup", CreateOnSignup, o, NoUser, NoUser, "owner", NoInvite, NoUnit, NoUnit, NoUnit)
      BY <3>2, <3>4, Filling
    <3> QED BY <3>3, <3>5 DEF Asked
  <2> QED BY <1>3, <2>1, <2>2, <2>3
<1> DEFINE b == [c EXCEPT !.actor = u]
           e == [b EXCEPT !.user = u]
<1>5. e = [c EXCEPT !.actor = u, !.user = u] OBVIOUS
<1>6. Asked(b, "Signup", c.route, c.org, u, NoUser, c.role, c.inv, c.dept, c.level, NoUnit) BY <1>4, Filling
<1> HIDE DEF b
<1>7. Asked(e, "Signup", c.route, c.org, u, u, c.role, c.inv, c.dept, c.level, NoUnit) BY <1>6, Filling
<1> HIDE DEF e
<1>8. OnRoute(e) BY <1>4, <1>7, NullAssumption DEF OnRoute, Asked
<1>9. Needed(e)
  <2>1. Founds(e) /\ e.route # Withdrawal => e.role = "owner" /\ e.dept = NoUnit /\ e.level = NoUnit
    BY <1>4, <1>7, NullAssumption DEF Asked, Founds
  <2>2. Joins(e) => e.inv \in Invites BY <1>7 DEF Asked, Joins, Call
  <2>3. e.actor \in Users /\ e.user \in Users /\ e.op = "Signup" BY <1>7 DEF Asked
  <2>4. e.route # Withdrawal => e.org \in Orgs BY <1>4, <1>7 DEF Asked
  <2> QED BY <2>1, <2>2, <2>3, <2>4 DEF Needed, Changing, HostAdding, Guarded, ByManagers, ByMembers, ByInvited
<1>10. c.route \in Paths BY <1>0, <1>4
<1>11. Fresh(e)
  <2>1. Joins(e) /\ c.route # Withdrawal =>
           inv[c.inv].state # "none" /\ c.org = inv[c.inv].org /\ c.role = inv[c.inv].role
    BY <1>4, <1>7 DEF Joins, Asked
  <2> QED BY <1>0, <1>7, <1>8, <1>9, <1>10, <2>1, AskedFresh DEF HostAdding
<1>12. call[r] = Blank BY CallIs DEF OnSignup
<1>13. call'[r] = e BY <1>3, <1>5 DEF Inv, TypeOK
<1>14. account' \in [Users -> {"none", "new", "live", "gone"}] BY DEF OnSignup, Inv, TypeOK
<1> QED BY <1>3, <1>5, <1>11, <1>12, <1>13, <1>14 DEF Begins, OnSignup

\* The calls of the host.
LEMMA HostBegins ==
    ASSUME Inv, NEW r \in Requests, NEW o \in Orgs,
           \/ \E u \in Users : HostEnsure(r, o, u)
           \/ \E u \in Users, role \in Roles : HostAddMember(r, o, u, role) \/ HostSetRole(r, o, u, role)
           \/ \E role \in Roles, d \in Departments \cup {NoUnit}, l \in Levels \cup {NoUnit} :
                 HostPlatformInvite(r, o, role, d, l)
           \/ \E role \in Roles : HostCreateRole(r, o, role)
           \/ \E x \in Units : HostCreateUnit(r, o, x)
    PROVE  Begins(r)
<1>0. /\ {Ensure, EnsureOwned, AddMember, SetMemberRole, PlatformInvite, <<"newRole">>, <<"newUnit">>} \subseteq Paths
      /\ {"Ensure", "AddMember", "SetMemberRole", "PlatformInvite", "CreateRole", "CreateUnit"} \subseteq Operations
  BY DEF Paths, Operations
\* What is in every one of them.
<1> DEFINE Of(op, route) == [Ask(op, route) EXCEPT !.org = o]
           For(op, route, u) == [Of(op, route) EXCEPT !.user = u]
           With(op, route, u, y) == [For(op, route, u) EXCEPT !.role = y]
<1>1. ASSUME NEW op \in Operations, NEW route \in Paths
      PROVE  Asked(Of(op, route), op, route, o, NoUser, NoUser, "none", NoInvite, NoUnit, NoUnit, NoUnit)
  BY AskIs, PathsAre, Filling
<1> HIDE DEF Of
<1>2. ASSUME NEW op \in Operations, NEW route \in Paths, NEW u \in Users
      PROVE  Asked(For(op, route, u), op, route, o, NoUser, u, "none", NoInvite, NoUnit, NoUnit, NoUnit)
  BY <1>1, Filling
<1> HIDE DEF For
<1>3. ASSUME NEW op \in Operations, NEW route \in Paths, NEW u \in Users, NEW y \in Roles
      PROVE  Asked(With(op, route, u, y), op, route, o, NoUser, u, y, NoInvite, NoUnit, NoUnit, NoUnit)
  BY <1>2, Filling
<1> HIDE DEF With
<1>4. ASSUME NEW u \in Users, HostEnsure(r, o, u) PROVE Begins(r)
  <2>1. PICK route \in {Ensure, EnsureOwned} :
           Arrive(r, [Ask("Ensure", route) EXCEPT !.org = o, !.user = u, !.role = "owner"])
    BY <1>4 DEF HostEnsure
  <2> DEFINE e == With("Ensure", route, u, "owner")
  <2>2. Arrive(r, e) BY <2>1 DEF With, For, Of
  <2>3. "owner" \in Roles BY DEF Roles, DefaultRoles
  <2>4. Asked(e, "Ensure", route, o, NoUser, u, "owner", NoInvite, NoUnit, NoUnit, NoUnit)
    BY <1>0, <1>3, <2>3
  <2> HIDE DEF e
  <2>5. OnRoute(e) BY <2>4 DEF OnRoute, Asked
  <2>6. Needed(e)
    BY <2>4 DEF Needed, Asked, Founds, Joins, Changing, HostAdding, Guarded, ByManagers, ByMembers, ByInvited
  <2>7. Fresh(e) BY <1>0, <2>4, <2>5, <2>6, AskedFresh DEF HostAdding, Joins, Asked
  <2> QED BY <2>2, <2>7, ArriveBegins
<1>5. ASSUME NEW u \in Users, NEW role \in Roles, HostAddMember(r, o, u, role) PROVE Begins(r)
  <2> DEFINE e == With("AddMember", AddMember, u, role)
  <2>1. Arrive(r, e) BY <1>5 DEF HostAddMember, With, For, Of
  <2>2. Asked(e, "AddMember", AddMember, o, NoUser, u, role, NoInvite, NoUnit, NoUnit, NoUnit) BY <1>0, <1>3
  <2> HIDE DEF e
  <2>3. OnRoute(e) BY <2>2 DEF OnRoute, Asked
  <2>4. Needed(e)
    BY <2>2 DEF Needed, Asked, Founds, Joins, Changing, HostAdding, Guarded, ByManagers, ByMembers, ByInvited
  <2>5. Fresh(e) BY <1>0, <2>2, <2>3, <2>4, AskedFresh DEF HostAdding, Joins, Asked
  <2> QED BY <2>1, <2>5, ArriveBegins
<1>6. ASSUME NEW u \in Users, NEW role \in Roles, HostSetRole(r, o, u, role) PROVE Begins(r)
  <2> DEFINE e == With("SetMemberRole", SetMemberRole, u, role)
  <2>1. Arrive(r, e) BY <1>6 DEF HostSetRole, With, For, Of
  <2>2. Asked(e, "SetMemberRole", SetMemberRole, o, NoUser, u, role, NoInvite, NoUnit, NoUnit, NoUnit)
    BY <1>0, <1>3
  <2> HIDE DEF e
  <2>3. OnRoute(e) BY <2>2 DEF OnRoute, Asked
  <2>4. Needed(e)
    BY <2>2 DEF Needed, Asked, Founds, Joins, Changing, HostAdding, Guarded, ByManagers, ByMembers, ByInvited
  <2>5. Fresh(e) BY <1>0, <2>2, <2>3, <2>4, AskedFresh DEF HostAdding, Joins, Asked
  <2> QED BY <2>1, <2>5, ArriveBegins
<1>7. ASSUME NEW role \in Roles, NEW d \in Departments \cup {NoUnit}, NEW l \in Levels \cup {NoUnit},
             HostPlatformInvite(r, o, role, d, l)
      PROVE  Begins(r)
  <2> DEFINE a == [Of("PlatformInvite", PlatformInvite) EXCEPT !.role = role]
             b == [a EXCEPT !.dept = d]
             e == [b EXCEPT !.level = l]
  <2>1. Asked(a, "PlatformInvite", PlatformInvite, o, NoUser, NoUser, role, NoInvite, NoUnit, NoUnit, NoUnit)
    BY <1>0, <1>1, Filling
  <2>2. Arrive(r, e) BY <1>7 DEF HostPlatformInvite, Of
  <2> HIDE DEF a
  <2>3. Asked(b, "PlatformInvite", PlatformInvite, o, NoUser, NoUser, role, NoInvite, d, NoUnit, NoUnit)
    BY <2>1, Filling
  <2> HIDE DEF b
  <2>4. Asked(e, "PlatformInvite", PlatformInvite, o, NoUser, NoUser, role, NoInvite, d, l, NoUnit)
    BY <2>3, Filling
  <2> HIDE DEF e
  <2>5. OnRoute(e) BY <2>4 DEF OnRoute, Asked
  <2>6. Needed(e)
    BY <2>4 DEF Needed, Asked, Founds, Joins, Changing, HostAdding, Guarded, ByManagers, ByMembers, ByInvited
  <2>7. Fresh(e) BY <1>0, <2>4, <2>5, <2>6, AskedFresh DEF HostAdding, Joins, Asked
  <2> QED BY <2>2, <2>7, ArriveBegins
<1>8. ASSUME NEW role \in Roles, HostCreateRole(r, o, role) PROVE Begins(r)
  <2> DEFINE e == [Of("CreateRole", <<"newRole">>) EXCEPT !.role = role]
  <2>1. Asked(e, "CreateRole", <<"newRole">>, o, NoUser, NoUser, role, NoInvite, NoUnit, NoUnit, NoUnit)
    BY <1>0, <1>1, Filling
  <2>2. Arrive(r, e) BY <1>8 DEF HostCreateRole, Of
  <2> HIDE DEF e
  <2>3. OnRoute(e) BY <2>1 DEF OnRoute, Asked
  <2>4. Needed(e)
    BY <2>1 DEF Needed, Asked, Founds, Joins, Changing, HostAdding, Guarded, ByManagers, ByMembers, ByInvited
  <2>5. Fresh(e) BY <1>0, <2>1, <2>3, <2>4, AskedFresh DEF HostAdding, Joins, Asked
  <2> QED BY <2>2, <2>5, ArriveBegins
<1>9. ASSUME NEW x \in Units, HostCreateUnit(r, o, x) PROVE Begins(r)
  <2> DEFINE e == [Of("CreateUnit", <<"newUnit">>) EXCEPT !.unit = x]
  <2>1. Asked(e, "CreateUnit", <<"newUnit">>, o, NoUser, NoUser, "none", NoInvite, NoUnit, NoUnit, x)
    BY <1>0, <1>1, Filling
  <2>2. Arrive(r, e) BY <1>9 DEF HostCreateUnit, Of
  <2> HIDE DEF e
  <2>3. OnRoute(e) BY <2>1 DEF OnRoute, Asked
  <2>4. Needed(e)
    BY <2>1 DEF Needed, Asked, Founds, Joins, Changing, HostAdding, Guarded, ByManagers, ByMembers, ByInvited
  <2>5. Fresh(e) BY <1>0, <2>1, <2>3, <2>4, AskedFresh DEF HostAdding, Joins, Asked
  <2> QED BY <2>2, <2>5, ArriveBegins
<1> QED BY <1>4, <1>5, <1>6, <1>7, <1>8, <1>9

LEMMA RequestBegins == ASSUME Inv, NEW r \in Requests, Request(r) PROVE Begins(r)
<1>1. scene.slugs \subseteq Orgs /\ scene.roles \subseteq Roles /\ scene.units \subseteq Units
  BY SceneAssumption DEF Inv, TypeOK
<1>2. /\ PayloadDepartments \subseteq Departments \cup {NoUnit} /\ PayloadLevels \subseteq Levels \cup {NoUnit}
      /\ Departments \subseteq Units /\ Levels \subseteq Units
  BY DEF PayloadDepartments, PayloadLevels, Units
<1>3. ASSUME NEW u \in Users, NEW o \in scene.slugs,
             \/ OnCreate(r, u, o) \/ OnGet(r, u, o) \/ OnMembers(r, u, o)
             \/ OnListRoles(r, u, o) \/ OnListDepartments(r, u, o) \/ OnListLevels(r, u, o)
             \/ OnListInvitations(r, u, o) \/ OnSwitch(r, u, o)
      PROVE  Begins(r)
  BY <1>1, <1>3, PlainBegins, CreateBegins
<1>4. ASSUME NEW u \in Users, NEW o \in scene.slugs,
             \/ \E field \in {"name", "image"} : OnPatch(r, u, o, field)
             \/ \E role \in scene.roles : OnCreateRole(r, u, o, role)
      PROVE  Begins(r)
  <2>1. "owner" \in Roles BY DEF Roles, DefaultRoles
  <2> QED BY <1>1, <1>4, <2>1, EditBegins
<1>5. ASSUME NEW u \in Users, NEW o \in scene.slugs,
             \/ \E t \in Users : OnDeleteMember(r, u, o, t)
             \/ \E t \in Users, role \in scene.roles : OnPatchMember(r, u, o, t, role)
      PROVE  Begins(r)
  <2>1. "owner" \in Roles BY DEF Roles, DefaultRoles
  <2> QED BY <1>1, <1>5, <2>1, ChangeBegins
<1>6. ASSUME NEW u \in Users, NEW o \in scene.slugs,
             \/ \E role \in scene.roles, d \in PayloadDepartments, l \in PayloadLevels : OnInvite(r, u, o, role, d, l)
             \/ \E i \in Invites : OnRevokeInvite(r, u, o, i)
      PROVE  Begins(r)
  BY <1>1, <1>2, <1>6, InviteBegins, RevokeBegins
<1>7. ASSUME NEW u \in Users, NEW o \in scene.slugs,
             \/ \E d \in Departments \cap scene.units : OnCreateDepartment(r, u, o, d) \/ OnDeleteDepartment(r, u, o, d)
             \/ \E l \in Levels \cap scene.units : OnCreateLevel(r, u, o, l) \/ OnDeleteLevel(r, u, o, l)
      PROVE  Begins(r)
  BY <1>1, <1>2, <1>7, UnitBegins
<1>8. ASSUME NEW u \in Users, NEW i \in Invites, OnAcceptInvite(r, u, i) PROVE Begins(r) BY <1>8, AcceptBegins
<1>9. ASSUME NEW i \in Invites, OnValidateInvite(r, i) PROVE Begins(r) BY <1>9, ValidateBegins
<1>10. ASSUME NEW o \in scene.slugs,
              \/ \E u \in Users : HostEnsure(r, o, u)
              \/ \E u \in Users, role \in scene.roles : HostAddMember(r, o, u, role) \/ HostSetRole(r, o, u, role)
              \/ \E role \in scene.roles, d \in PayloadDepartments, l \in PayloadLevels :
                    HostPlatformInvite(r, o, role, d, l)
              \/ \E role \in scene.roles : HostCreateRole(r, o, role)
              \/ \E x \in scene.units : HostCreateUnit(r, o, x)
       PROVE  Begins(r)
  <2>1. o \in Orgs BY <1>1
  <2>2. CASE \E u \in Users : HostEnsure(r, o, u) BY <2>1, <2>2, HostBegins
  <2>3. CASE \E u \in Users, role \in scene.roles : HostAddMember(r, o, u, role) \/ HostSetRole(r, o, u, role)
    BY <1>1, <2>1, <2>3, HostBegins
  <2>4. CASE \E role \in scene.roles, d \in PayloadDepartments, l \in PayloadLevels :
                HostPlatformInvite(r, o, role, d, l)
    BY <1>1, <1>2, <2>1, <2>4, HostBegins
  <2>5. CASE \E role \in scene.roles : HostCreateRole(r, o, role) BY <1>1, <2>1, <2>5, HostBegins
  <2>6. CASE \E x \in scene.units : HostCreateUnit(r, o, x) BY <1>1, <2>1, <2>6, HostBegins
  <2> QED BY <1>10, <2>2, <2>3, <2>4, <2>5, <2>6
<1> QED BY <1>3, <1>4, <1>5, <1>6, <1>7, <1>8, <1>9, <1>10, SignupBegins DEF Request

-----------------------------------------------------------------------------
\* What a step may do to the tables.
RowsOK ==
    /\ account \in [Users -> {"none", "new", "live", "gone"}]
    /\ orgs \subseteq Orgs
    /\ details \in [Orgs -> Details]
    /\ catalog \in [Orgs -> SUBSET Roles]
    /\ member \in [Orgs -> [Users -> Membership]]
    /\ home \in [Units -> Homes]
    /\ inv \in [Invites -> Invitation]
    /\ active \in [Users -> Orgs \cup {NoOrg}]

\* An invitation that was written stays what it is, and a new one is of an organization.
InvitesKept ==
    /\ \A i \in Invites : inv[i].state # "none" =>
          /\ inv'[i].state # "none" /\ inv'[i].org = inv[i].org /\ inv'[i].role = inv[i].role
          /\ inv'[i].dept = inv[i].dept /\ inv'[i].level = inv[i].level
    /\ \A i \in Invites : inv'[i].state # "none" => inv'[i].org \in Orgs

\* What a statement is about, from the lemmas about routes.
LEMMA Knowing ==
    ASSUME Inv, NEW r \in Requests, NEW s \in Statements, Now(r, s)
    PROVE  /\ call[r] \in Call /\ Flow(call[r]) /\ call[r] # Blank /\ call[r].op # "none"
           /\ At(call[r], s) /\ Knows(call[r])
BY CallIs, CallKnows DEF Now, At, Blank

LEMMA MemberOK ==
    ASSUME RowsOK, NEW o \in Orgs, NEW u \in Users, NEW m \in Membership,
           member' = [member EXCEPT ![o][u] = m]
    PROVE  member' \in [Orgs -> [Users -> Membership]]
<1>1. [member[o] EXCEPT ![u] = m] \in [Users -> Membership] BY DEF RowsOK
<1>2. member' = [member EXCEPT ![o] = [member[o] EXCEPT ![u] = m]] BY DEF RowsOK
<1> QED BY <1>1, <1>2 DEF RowsOK

LEMMA InvitationOK ==
    ASSUME RowsOK, \A i \in Invites : inv[i].state # "none" => inv[i].org \in Orgs, NEW i \in Invites,
           NEW s \in {"open", "lapsed", "accepted", "revoked"},
           inv[i].state # "none", inv' = [inv EXCEPT ![i].state = s]
    PROVE  inv' \in [Invites -> Invitation] /\ InvitesKept
<1>1. inv[i] \in Invitation BY DEF RowsOK
<1>2. [inv[i] EXCEPT !.state = s] \in Invitation BY <1>1 DEF Invitation
<1>3. inv' = [inv EXCEPT ![i] = [inv[i] EXCEPT !.state = s]] BY DEF RowsOK
<1>4. inv' \in [Invites -> Invitation] BY <1>2, <1>3 DEF RowsOK
<1>5. \A j \in Invites : inv'[j] = IF j = i THEN [inv[i] EXCEPT !.state = s] ELSE inv[j] BY <1>3 DEF RowsOK
<1> HIDE DEF InvitesKept
<1>6. InvitesKept BY <1>1, <1>5 DEF InvitesKept, Invitation
<1> QED BY <1>4, <1>6

LEMMA StatementRows ==
    ASSUME Inv, NEW r \in Requests, Statement(r)
    PROVE  RowsOK' /\ InvitesKept
<1> DEFINE c == call[r]
<1>0. /\ RowsOK /\ \A i \in Invites : inv[i].state # "none" => inv[i].org \in Orgs
  BY DEF Inv, TypeOK, RowsOK, InvitedOK
<1>1. UNCHANGED inv => InvitesKept BY <1>0 DEF InvitesKept
<1>2. UNCHANGED rows => RowsOK' /\ InvitesKept BY <1>0, <1>1 DEF RowsOK, rows
<1>3. \A s \in Statements : Now(r, s) => At(c, s) /\ c \in Call /\ Knows(c) BY Knowing
<1> HIDE DEF c
<1>4. CASE \/ ReadMember(r) \/ RequireRole(r, "admin", Managers) \/ RequireRole(r, "owner", {"owner"})
           \/ ReadTarget(r) \/ Decide(r) \/ HasOrgRole(r) \/ GetMembership(r) \/ CheckMembershipLimit(r)
           \/ Lookup(r) \/ ReadInvitation(r) \/ DepartmentExists(r) \/ LevelExists(r)
           \/ OrganizationOf(r) \/ ReadList(r) \/ Fail(r)
  BY <1>2, <1>4 DEF ReadMember, RequireRole, ReadTarget, Decide, HasOrgRole, GetMembership,
     CheckMembershipLimit, Lookup, ReadInvitation, DepartmentExists, LevelExists, OrganizationOf,
     ReadList, Fail
<1>5. CASE UpdateMembershipRole(r)
  <2>1. c.org \in Orgs /\ c.user \in Users /\ c.role \in Roles
    BY <1>3, <1>5 DEF UpdateMembershipRole, Knows, Statements
  <2>2. member[c.org][c.user] \in Membership BY <1>0, <2>1 DEF RowsOK
  <2> DEFINE m == [member[c.org][c.user] EXCEPT !.role = c.role]
  <2>3. m \in Membership BY <2>1, <2>2 DEF Membership
  <2>4. member' = [member EXCEPT ![c.org][c.user] = m] \/ member' = member
    BY <1>0, <1>5, <2>1 DEF UpdateMembershipRole, c, RowsOK
  <2> HIDE DEF m
  <2>5. member' \in [Orgs -> [Users -> Membership]] BY <1>0, <2>1, <2>3, <2>4, MemberOK DEF RowsOK
  <2> QED BY <1>0, <1>1, <1>5, <2>5 DEF UpdateMembershipRole, RowsOK
<1>6. CASE RemoveMembership(r)
  <2>1. c.org \in Orgs /\ c.user \in Users
    BY <1>3, <1>6 DEF RemoveMembership, Knows, Statements
  <2>2. member[c.org][c.user] \in Membership BY <1>0, <2>1 DEF RowsOK
  <2> DEFINE m == [member[c.org][c.user] EXCEPT !.status = "removed"]
  <2>3. m \in Membership BY <2>1, <2>2 DEF Membership
  <2>4. member' = [member EXCEPT ![c.org][c.user] = m] \/ member' = member
    BY <1>0, <1>6, <2>1 DEF RemoveMembership, c, RowsOK
  <2> HIDE DEF m
  <2>5. member' \in [Orgs -> [Users -> Membership]] BY <1>0, <2>1, <2>3, <2>4, MemberOK DEF RowsOK
  <2> QED BY <1>0, <1>1, <1>6, <2>5 DEF RemoveMembership, RowsOK
<1>7. CASE AddMembership(r)
  <2>1. c.org \in Orgs /\ c.user \in Users /\ c.role \in Roles /\ c \in Call
    BY <1>3, <1>7 DEF AddMembership, Knows, Statements
  <2>2. member[c.org][c.user] \in Membership BY <1>0, <2>1 DEF RowsOK
  <2> DEFINE m == Upsert(member[c.org][c.user], c.role, c.dept, c.level)
  <2>3. m \in Membership BY <2>1, <2>2 DEF Membership, Call, Upsert
  <2>4. member' = [member EXCEPT ![c.org][c.user] = m] \/ member' = member
    BY <1>0, <1>7, <2>1 DEF AddMembership, c, RowsOK
  <2> HIDE DEF m
  <2>5. member' \in [Orgs -> [Users -> Membership]] BY <1>0, <2>1, <2>3, <2>4, MemberOK DEF RowsOK
  <2> QED BY <1>0, <1>1, <1>7, <2>5 DEF AddMembership, RowsOK
<1>8. CASE InsertOrganization(r)
  <2>1. c.org \in Orgs BY <1>3, <1>8 DEF InsertOrganization, Knows, Statements
  <2> QED BY <1>0, <1>1, <1>8, <2>1 DEF InsertOrganization, RowsOK, c
<1>9. CASE SeedDefaultRoles(r) \/ SeedExtraRoles(r) \/ CreateRole(r)
  <2>1. c.org \in Orgs BY <1>3, <1>9 DEF SeedDefaultRoles, SeedExtraRoles, CreateRole, Knows, Statements
  <2>2. CreateRole(r) => c.role \in Roles BY <1>3 DEF CreateRole, Knows, Statements
  <2>3. DefaultRoles \subseteq Roles /\ ExtraRoles \subseteq Roles BY DEF Roles
  <2> QED BY <1>0, <1>1, <1>9, <2>1, <2>2, <2>3 DEF SeedDefaultRoles, SeedExtraRoles, CreateRole, RowsOK, c
<1>10. CASE CreateInvitation(r)
  <2>1. c.org \in Orgs /\ c.role \in Roles /\ c \in Call BY <1>3, <1>10 DEF CreateInvitation, Knows, Statements
  <2> DEFINE n == [state |-> "open", org |-> c.org, role |-> c.role, dept |-> c.dept, level |-> c.level]
  <2>2. n \in Invitation /\ n.org \in Orgs BY <2>1 DEF Invitation, Call
  <2>3. \/ inv' = inv
        \/ \E i \in Invites : inv[i].state = "none" /\ inv' = [inv EXCEPT ![i] = n]
    BY <1>10 DEF CreateInvitation, c
  <2> HIDE DEF n
  <2>4. inv' \in [Invites -> Invitation] BY <1>0, <2>2, <2>3 DEF RowsOK
  <2>5. InvitesKept BY <1>0, <1>1, <2>2, <2>3 DEF InvitesKept, RowsOK
  <2> QED BY <1>0, <1>10, <2>4, <2>5 DEF CreateInvitation, RowsOK
<1>11. CASE AcceptInvitation(r)
  <2>1. c.inv \in Invites BY <1>3, <1>11 DEF AcceptInvitation, Knows, Statements
  <2>2. inv' = inv \/ (inv[c.inv].state \in {"open", "lapsed"} /\ inv' = [inv EXCEPT ![c.inv].state = "accepted"])
    BY <1>11 DEF AcceptInvitation, c
  <2>3. inv' \in [Invites -> Invitation] /\ InvitesKept BY <1>0, <1>1, <2>1, <2>2, InvitationOK DEF RowsOK
  <2> QED BY <1>0, <1>11, <2>3 DEF AcceptInvitation, RowsOK
<1>12. CASE RevokeInvitation(r)
  <2>1. c.inv \in Invites BY <1>3, <1>12 DEF RevokeInvitation, Knows, Statements
  <2>2. inv' = [inv EXCEPT ![c.inv].state = IF @ \in {"open", "lapsed"} THEN "revoked" ELSE @]
    BY <1>12 DEF RevokeInvitation, c
  <2>3. inv[c.inv] \in Invitation BY <1>0, <2>1 DEF RowsOK
  <2>4. CASE inv[c.inv].state \in {"open", "lapsed"}
    <3>1. inv' = [inv EXCEPT ![c.inv].state = "revoked"] BY <2>2, <2>4
    <3>2. inv' \in [Invites -> Invitation] /\ InvitesKept BY <1>0, <2>1, <2>4, <3>1, InvitationOK
    <3> QED BY <1>0, <1>12, <3>2 DEF RevokeInvitation, RowsOK
  <2>5. CASE inv[c.inv].state \notin {"open", "lapsed"}
    <3>1. inv' = inv BY <1>0, <2>1, <2>2, <2>3, <2>5 DEF RowsOK, Invitation
    <3> QED BY <1>0, <1>1, <1>12, <3>1 DEF RevokeInvitation, RowsOK
  <2> QED BY <2>4, <2>5
<1>13. CASE SetActiveOrganization(r) \/ Enter(r) \/ DeleteAccount(r)
  <2>1. c.actor \in Users /\ c \in Call
    BY <1>3, <1>13 DEF SetActiveOrganization, Enter, DeleteAccount, Knows, Statements
  <2>2. c.org \in Orgs \cup {NoOrg} BY <2>1 DEF Call
  <2> QED BY <1>0, <1>1, <1>13, <2>1, <2>2 DEF SetActiveOrganization, Enter, DeleteAccount, RowsOK, c
<1>14. CASE CreateUnit(r)
  <2>1. c.unit \in Units /\ c.org \in Orgs BY <1>3, <1>14 DEF CreateUnit, Knows, Statements
  <2> QED BY <1>0, <1>1, <1>14, <2>1 DEF CreateUnit, RowsOK, c, Homes
<1>15. CASE DeleteUnit(r)
  <2>1. c.unit \in Units BY <1>3, <1>15 DEF DeleteUnit, Knows, Statements
  <2>2. home' \in [Units -> Homes] BY <1>0, <1>15, <2>1 DEF DeleteUnit, RowsOK, c, Homes
  <2> DEFINE Without(m) == [m EXCEPT !.dept = IF @ = c.unit THEN NoUnit ELSE @,
                                     !.level = IF @ = c.unit THEN NoUnit ELSE @]
  <2>3. member' = member \/ member' = [o \in Orgs |-> [u \in Users |-> Without(member[o][u])]]
    BY <1>15 DEF DeleteUnit, c
  <2>4. \A m \in Membership : Without(m) \in Membership
    <3> TAKE m \in Membership
    <3> DEFINE n == [m EXCEPT !.dept = IF @ = c.unit THEN NoUnit ELSE @]
               k == [n EXCEPT !.level = IF @ = c.unit THEN NoUnit ELSE @]
    <3>1. n \in Membership BY DEF Membership
    <3>2. Without(m) = k BY DEF Membership
    <3> HIDE DEF n
    <3>3. k \in Membership BY <3>1 DEF Membership
    <3> QED BY <3>2, <3>3
  <2> HIDE DEF Without
  <2>5. member' \in [Orgs -> [Users -> Membership]] BY <1>0, <2>3, <2>4 DEF RowsOK
  <2> QED BY <1>0, <1>1, <1>15, <2>2, <2>5 DEF DeleteUnit, RowsOK
<1>16. CASE UpdateDetails(r)
  <2>1. c \in Call /\ c.org \in Orgs BY <1>3, <1>16 DEF UpdateDetails, Knows, Statements
  <2>2. c.details \in Details BY <2>1 DEF Call
  <2>3. [c.details EXCEPT !.name = 1] \in Details /\ [c.details EXCEPT !.image = 1] \in Details
    BY <2>2 DEF Details
  <2> QED BY <1>0, <1>1, <1>16, <2>1, <2>3 DEF UpdateDetails, RowsOK, c
<1> QED BY <1>4, <1>5, <1>6, <1>7, <1>8, <1>9, <1>10, <1>11, <1>12, <1>13, <1>14, <1>15, <1>16 DEF Statement

LEMMA StepRows == ASSUME Inv, Step PROVE RowsOK' /\ InvitesKept
<1>1. /\ RowsOK /\ \A i \in Invites : inv[i].state # "none" => inv[i].org \in Orgs
  BY DEF Inv, TypeOK, RowsOK, InvitedOK
<1>2. ASSUME NEW r \in Requests, Request(r) PROVE RowsOK' /\ InvitesKept
  <2>1. Begins(r) BY <1>2, RequestBegins
  <2> QED BY <1>1, <2>1 DEF Begins, RowsOK, InvitesKept
<1>3. ASSUME NEW i \in Invites, Lapse(i) PROVE RowsOK' /\ InvitesKept
  <2>1. inv' \in [Invites -> Invitation] /\ InvitesKept BY <1>1, <1>3, InvitationOK DEF Lapse
  <2> QED BY <1>1, <1>3, <2>1 DEF Lapse, RowsOK
<1> QED BY <1>2, <1>3, StatementRows DEF Step

\* One call at most takes a turn.
Turns(r) == (Moves(r) \/ Begins(r)) /\ \A q \in Requests \ {r} : call'[q] = call[q]

LEMMA StepTurns ==
    ASSUME Inv, Step
    PROVE  (\E r \in Requests : (Statement(r) \/ Request(r)) /\ Turns(r)) \/ UNCHANGED call
<1>1. ASSUME NEW r \in Requests, Request(r) PROVE Turns(r)
  <2>1. Begins(r) BY <1>1, RequestBegins
  <2> QED BY <2>1 DEF Turns, Begins, Inv, TypeOK
<1>2. ASSUME NEW r \in Requests, Statement(r) PROVE Turns(r)
  BY <1>2, StatementMoves DEF Turns, Moves
<1> QED BY <1>1, <1>2 DEF Step, Lapse

LEMMA TurnOK ==
    ASSUME Inv, NEW r \in Requests, Turns(r)
    PROVE  /\ call' \in [Requests -> Call] /\ \A q \in Requests : Flow(call'[q])
           /\ call' = [call EXCEPT ![r] = call'[r]]
<1>1. call \in [Requests -> Call] /\ \A q \in Requests : Flow(call[q]) BY DEF Inv, TypeOK
<1>2. call' = [call EXCEPT ![r] = call'[r]] BY DEF Turns, Moves, Begins
<1>3. call'[r] \in Call /\ Flow(call'[r]) BY <1>1, FollowsOK DEF Turns, Moves, Begins, Fresh
<1> QED BY <1>1, <1>2, <1>3

LEMMA CallsNext ==
    ASSUME Inv, Step
    PROVE  call' \in [Requests -> Call] /\ (\A r \in Requests : Flow(call'[r])) /\ InvitedOK'
<1>1. InvitesKept BY StepRows
<1>2. InvitedOK /\ call \in [Requests -> Call] /\ \A r \in Requests : Flow(call[r]) BY DEF Inv, TypeOK
<1>3. \A r \in Requests : Joins(call[r]) \/ call[r].op = "RevokeInvite" => call[r].inv \in Invites
  BY <1>2 DEF Flow, Needed, Blank, Joins
<1> DEFINE There(c) == c.op = "RevokeInvite" => inv'[c.inv].state # "none"
           Kept(c) == Joins(c) /\ c.route # Withdrawal =>
                        inv'[c.inv].state # "none" /\ c.org = inv'[c.inv].org /\ c.role = inv'[c.inv].role
<1>4. \A r \in Requests : There(call[r]) /\ Kept(call[r]) BY <1>1, <1>2, <1>3 DEF InvitedOK, InvitesKept
<1>5. CASE UNCHANGED call BY <1>1, <1>2, <1>4, <1>5 DEF InvitedOK, InvitesKept
<1>6. ASSUME NEW r \in Requests, Turns(r)
      PROVE  call' \in [Requests -> Call] /\ (\A q \in Requests : Flow(call'[q])) /\ InvitedOK'
  <2>1. call' \in [Requests -> Call] /\ \A q \in Requests : Flow(call'[q]) BY <1>6, TurnOK
  <2>2. There(call'[r]) /\ Kept(call'[r])
    <3>1. CASE Begins(r) BY <3>1 DEF Begins, Fresh
    <3>2. CASE call'[r] = Blank BY <3>2 DEF Blank, Joins
    <3>3. CASE call[r].op = "Signup" /\ call'[r] = Withdrawn(call[r])
      <4>1. call'[r].route = Withdrawal /\ call'[r].op = "Signup" BY <1>2, <3>3 DEF Withdrawn, Call
      <4> QED BY <4>1
    <3>4. CASE Further(call[r], call'[r]) BY <1>4, <3>4 DEF Further, Same, Joins
    <3> QED BY <1>6, <3>1, <3>2, <3>3, <3>4 DEF Turns, Moves, Follows
  <2>3. \A q \in Requests : There(call'[q]) /\ Kept(call'[q]) BY <1>4, <1>6, <2>2 DEF Turns
  <2> QED BY <1>1, <2>1, <2>3 DEF InvitedOK, InvitesKept
<1> QED BY <1>5, <1>6, StepTurns

\* What the history records of a call is what may be recorded.
LEMMA ViewOK ==
    ASSUME RowsOK', scene \in Scenes, UNCHANGED scene, call' \in [Requests -> Call], NEW r \in Requests,
           Flow(call'[r]), call'[r] # Blank
    PROVE  View(call[r])' \in Seen
<1> DEFINE c == call'[r]
<1>1. c \in Call /\ Needed(c) BY DEF Flow
<1>2. \A o \in Orgs, u \in Users : member'[o][u] \in Membership BY DEF RowsOK
<1> HIDE DEF c
<1>3. Authority(call[r])' \subseteq Roles \cup {"invited"}
  <2>1. \A o \in Orgs : c.actor # NoUser => member'[o][c.actor].role \in Roles
    BY <1>1, <1>2 DEF Call, Membership
  <2> QED BY <2>1 DEF Authority, c
<1>4. ASSUME c.op \in {"ChangeMemberRole", "RemoveMember", "AddMember"}
      PROVE  Rank(call[r].org, call[r].user)' \in Roles \cup {"none", "removed"}
  <2>1. c.org \in Orgs /\ c.user \in Users
    <3>1. Flow(c) /\ c # Blank BY DEF c
    <3>2. c.route # Withdrawal BY <1>4, <3>1, ChangesAre DEF Flow, OnRoute, Withdrawal, AddMember, Reads
    <3> QED BY <1>1, <1>4, <3>2 DEF Needed, Changing, HostAdding
  <2>2. member'[c.org][c.user] \in Membership BY <1>2, <2>1
  <2>3. member'[c.org][c.user].role \in Roles /\ member'[c.org][c.user].status \in {"none", "active", "removed"}
    BY <2>2 DEF Membership
  <2> QED BY <2>3 DEF Rank, IsActive, c
<1> DEFINE changing == c.op \in {"ChangeMemberRole", "RemoveMember"}
           adding == c.op \in {"AddMember", "Create", "AcceptInvite", "Signup"}
           target == IF changing \/ c.op = "AddMember" THEN {Rank(call[r].org, call[r].user)'} ELSE {}
           sole == changing /\ Owners(call[r].org)' = {c.user}
           room == adding /\ (scene.max = 0 \/ Cardinality(Seats(call[r].user)') < scene.max)
<1>5. target \in SUBSET (Roles \cup {"none", "removed"}) BY <1>4 DEF c
<1>6. sole \in BOOLEAN /\ room \in BOOLEAN OBVIOUS
<1>7. View(call[r])' = [actor |-> Authority(call[r])', target |-> target, sole |-> sole, room |-> room]
  BY DEF View, c
<1> HIDE DEF target, sole, room
<1> QED BY <1>3, <1>5, <1>6, <1>7 DEF Seen

LEMMA SeenNext ==
    ASSUME Inv, Step, UNCHANGED scene, History
    PROVE  seen' \in [Requests -> Seen] /\ answered' \in [Invites -> Nat]
<1>1. /\ RowsOK' /\ call' \in [Requests -> Call] /\ (\A r \in Requests : Flow(call'[r]))
      /\ scene \in Scenes /\ seen \in [Requests -> Seen] /\ answered \in [Invites -> Nat]
  BY StepRows, CallsNext DEF Inv, TypeOK
<1>2. ASSUME NEW r \in Requests PROVE seen'[r] \in Seen
  <2>1. CASE call'[r] = Blank BY <2>1 DEF History, NoView, Seen
  <2>2. CASE call'[r] # Blank
    <3>1. View(call[r])' \in Seen BY <1>1, <2>2, ViewOK
    <3> DEFINE v == View(call[r])'
               w == seen[r]
               both == [actor |-> w.actor \cup v.actor, target |-> w.target \cup v.target,
                        sole |-> w.sole /\ v.sole, room |-> w.room \/ v.room]
    <3>2. seen'[r] = IF call[r] = Blank THEN v ELSE both BY <2>2 DEF History
    <3> HIDE DEF v
    <3>3. v \in Seen /\ w \in Seen BY <1>1, <3>1 DEF v
    <3>4. both \in Seen BY <3>3 DEF Seen
    <3> QED BY <3>2, <3>3, <3>4
  <2> QED BY <2>1, <2>2
<1>3. seen' \in [Requests -> Seen] BY <1>2 DEF History
<1> DEFINE Told_(i) == {r \in InFlight(i) : Now(r, "orgOf") /\ call'[r] # call[r] /\ call'[r].route # Withdrawal}
<1>4. ASSUME NEW i \in Invites PROVE Cardinality(Told_(i)) \in Nat
  <2>1. CASE UNCHANGED call BY <2>1, FS_EmptySet DEF InFlight
  <2>2. ASSUME NEW r \in Requests, Turns(r) PROVE Cardinality(Told_(i)) \in Nat
    <3>1. Told_(i) \subseteq {r} BY <2>2 DEF Turns, InFlight
    <3>2. IsFiniteSet({r}) BY FS_Singleton
    <3>3. IsFiniteSet(Told_(i)) BY <3>1, <3>2, FS_Subset
    <3> QED BY <3>3, FS_CardinalityType
  <2> QED BY <2>1, <2>2, StepTurns
<1>5. answered' = [i \in Invites |-> answered[i] + Cardinality(Told_(i))] BY DEF History
<1> HIDE DEF Told_
<1>6. answered' \in [Invites -> Nat] BY <1>1, <1>4, <1>5
<1> QED BY <1>3, <1>6

-----------------------------------------------------------------------------
\* At first there is no call, and no invitation.
LEMMA InitOK == ASSUME Init PROVE Inv /\ UnitsAtHome /\ RolesInCatalog
<1>0. /\ scene \in Scenes /\ orgs = scene.orgs
      /\ details = [o \in Orgs |-> [name |-> 0, image |-> 0]]
      /\ catalog = [o \in Orgs |-> IF o \in scene.orgs THEN DefaultRoles ELSE {}]
      /\ home = [x \in Units |-> NoOrg] /\ inv = [i \in Invites |-> NoInvitation]
      /\ active = [u \in Users |-> NoOrg] /\ call = [r \in Requests |-> Blank]
      /\ seen = [r \in Requests |-> NoView] /\ answered = [i \in Invites |-> 0]
  BY DEF Init
<1>1. PICK U \in SUBSET Users :
         /\ account = [u \in Users |-> IF u \in U THEN scene.account ELSE "gone"]
         /\ \E rank \in [U -> scene.ranks] :
               member = [o \in Orgs |-> [u \in Users |->
                            IF o = scene.home /\ u \in U /\ rank[u] # "none"
                            THEN [NoMembership EXCEPT !.status = "active", !.role = rank[u]]
                            ELSE NoMembership]]
  BY DEF Init
<1>2. PICK rank \in [U -> scene.ranks] :
         member = [o \in Orgs |-> [u \in Users |->
                      IF o = scene.home /\ u \in U /\ rank[u] # "none"
                      THEN [NoMembership EXCEPT !.status = "active", !.role = rank[u]]
                      ELSE NoMembership]]
  BY <1>1
<1>3. /\ scene.account \in {"none", "live"} /\ scene.orgs \subseteq Orgs
      /\ scene.ranks \subseteq DefaultRoles \cup {"none"}
      /\ scene.home \in scene.orgs \/ scene.ranks \subseteq {"none"}
  BY <1>0, SceneAssumption
<1>4. DefaultRoles \subseteq Roles BY DEF Roles
<1>5. NoMembership \in Membership BY <1>4 DEF NoMembership, Membership, DefaultRoles
<1> DEFINE Given(x) == [NoMembership EXCEPT !.status = "active", !.role = x]
<1>6. /\ NoMembership.status = "none" /\ NoMembership.dept = NoUnit /\ NoMembership.level = NoUnit
      /\ \A x \in DefaultRoles : /\ Given(x) \in Membership /\ Given(x).role = x
                                 /\ Given(x).dept = NoUnit /\ Given(x).level = NoUnit
  BY <1>4 DEF NoMembership, Membership
<1>7. \A o \in Orgs, u \in Users :
         \/ member[o][u] = NoMembership
         \/ o \in scene.orgs /\ \E x \in DefaultRoles : member[o][u] = Given(x)
  BY <1>2, <1>3
<1>8. member \in [Orgs -> [Users -> Membership]]
  <2> HIDE DEF Given
  <2>1. \A o \in Orgs, u \in Users : member[o][u] \in Membership BY <1>5, <1>6, <1>7
  <2> QED BY <1>2, <2>1
<1>9. account \in [Users -> {"none", "new", "live", "gone"}] BY <1>1, <1>3
<1>10. catalog \in [Orgs -> SUBSET Roles] /\ home \in [Units -> Homes] /\ active \in [Users -> Orgs \cup {NoOrg}]
  BY <1>0, <1>4 DEF Homes
<1>11. NoInvitation \in Invitation /\ inv \in [Invites -> Invitation]
  BY <1>0, <1>4 DEF NoInvitation, Invitation, DefaultRoles
<1>12. details \in [Orgs -> Details] BY <1>0 DEF Details
<1>13. call \in [Requests -> Call] /\ \A r \in Requests : Flow(call[r]) BY <1>0, BlankOK
<1>14. seen \in [Requests -> Seen] /\ answered \in [Invites -> Nat] BY <1>0 DEF NoView, Seen
<1>15. TypeOK BY <1>0, <1>3, <1>8, <1>9, <1>10, <1>11, <1>12, <1>13, <1>14 DEF TypeOK
<1>16. InvitedOK BY <1>0 DEF InvitedOK, NoInvitation, Joins, Blank
<1> HIDE DEF Given
<1>17. UnitsAtHome
  <2>1. \A o \in Orgs, u \in Users : member[o][u].dept = NoUnit /\ member[o][u].level = NoUnit
    BY <1>6, <1>7
  <2> QED BY <2>1 DEF UnitsAtHome
<1>18. RolesInCatalog
  <2>1. \A o \in Orgs, u \in Users : member[o][u].status # "none" => member[o][u].role \in catalog[o]
    BY <1>0, <1>6, <1>7
  <2> QED BY <1>0, <2>1 DEF RolesInCatalog, NoInvitation
<1> QED BY <1>13, <1>15, <1>16, <1>17, <1>18 DEF Inv

LEMMA InvNext == ASSUME Inv, [Next]_vars PROVE Inv'
<1>1. CASE Next
  <2>1. Step /\ UNCHANGED scene /\ History BY <1>1 DEF Next
  <2>2. TypeOK' BY <2>1, StepRows, CallsNext, SeenNext DEF Inv, TypeOK, RowsOK
  <2> QED BY <2>1, <2>2, CallsNext DEF Inv
<1>2. CASE UNCHANGED vars BY <1>2 DEF vars, rows, Inv, TypeOK, InvitedOK
<1> QED BY <1>1, <1>2

\* Every variable keeps its type: whatever a call carries from one statement to the
\* next is what the later statement takes it for.
THEOREM TypeCorrect == Spec => []TypeOK
<1>1. Init => Inv BY InitOK
<1>2. Inv /\ [Next]_vars => Inv' BY InvNext
<1>3. Inv => TypeOK BY DEF Inv
<1> QED BY <1>1, <1>2, <1>3, PTL DEF Spec

-----------------------------------------------------------------------------
\* What a statement has found when its call, c, goes on as d.
Goes(r) == call'[r] # Blank /\ call'[r] # Withdrawn(call[r])
Found(c, d) ==
    /\ At(c, "member") => IsActive(c.org, c.actor) /\ d.actorRole = member[c.org][c.actor].role
    /\ At(c, "admin") => IsActive(c.org, c.actor) /\ member[c.org][c.actor].role \in Managers
    /\ At(c, "owner") => IsActive(c.org, c.actor) /\ member[c.org][c.actor].role = "owner"
    /\ At(c, "target") => IsActive(c.org, c.user) /\ d.targetRole = member[c.org][c.user].role
    /\ At(c, "decide") => MemberRoleDecision(c.actorRole, c.targetRole, c.role, Cardinality(Owners(c.org)))
    /\ At(c, "hasRole") => c.role \in catalog[c.org]
    /\ At(c, "limit") => scene.max = 0 \/ Cardinality(Seats(c.user)) < scene.max
    /\ At(c, "existing") =>
          LET m == member[c.org][c.user]
          IN  IF m.status = "none" THEN d.dept = c.dept /\ d.level = c.level
              ELSE d.dept = m.dept /\ d.level = m.level
    /\ At(c, "token") => inv[c.inv].state = "open"
    /\ At(c, "department") => d.dept = NoUnit \/ (d.dept = c.dept /\ home[c.dept] = c.org)
    /\ At(c, "level") => d.level = NoUnit \/ (d.level = c.level /\ home[c.level] = c.org)
    /\ At(c, "accept") => inv[c.inv].state \in {"open", "lapsed"} /\ inv' = [inv EXCEPT ![c.inv].state = "accepted"]
    /\ At(c, "seed") => catalog' = [catalog EXCEPT ![c.org] = @ \cup DefaultRoles]
\* What it leaves alone.
Carried(c, d) ==
    /\ Same(c, d)
    /\ d.next = c.next + 1 \/ At(c, "lookup") \/ At(c, "existing") \/ At(c, "enter")
    /\ At(c, "lookup") => d.next <= 3
    /\ At(c, "existing") /\ member[c.org][c.user].status = "none" => d.next = c.next + 1
    /\ d.actorRole = c.actorRole \/ At(c, "member")
    /\ d.targetRole = c.targetRole \/ At(c, "target")
    /\ d.dept = c.dept \/ At(c, "existing") \/ At(c, "department")
    /\ d.level = c.level \/ At(c, "existing") \/ At(c, "level")

LEMMA SkipIs ==
    ASSUME NEW c \in Call
    PROVE  /\ Skip(c) \in Call /\ Same(c, Skip(c)) /\ Skip(c).next = c.next + 1
           /\ Skip(c).actorRole = c.actorRole /\ Skip(c).targetRole = c.targetRole
           /\ Skip(c).dept = c.dept /\ Skip(c).level = c.level
<1>1. c.next + 1 \in Nat \ {0} BY DEF Call
<1> QED BY <1>1 DEF Skip, Same, Call

LEMMA BecomeIs ==
    ASSUME Inv, NEW r \in Requests, NEW e, Become(r, e), call'[r] # Blank
    PROVE  call'[r] = Skip(e)
BY DEF Become, Inv, TypeOK

LEMMA PassIs ==
    ASSUME Inv, NEW r \in Requests, NEW p, Pass(r, p), Goes(r)
    PROVE  p /\ call'[r] = Skip(call[r])
<1>1. call \in [Requests -> Call] BY DEF Inv, TypeOK
<1>2. p BY <1>1 DEF Pass, Refuse, Goes, Withdrawn
<1> QED BY <1>2, BecomeIs DEF Pass, Proceed, Goes

LEMMA RefuseIs == ASSUME Inv, NEW r \in Requests, Refuse(r) PROVE ~Goes(r)
BY DEF Inv, TypeOK, Refuse, Goes, Withdrawn

LEMMA StatementFinds ==
    ASSUME Inv, NEW r \in Requests, Statement(r), Goes(r)
    PROVE  Found(call[r], call'[r]) /\ Carried(call[r], call'[r])
<1> DEFINE c == call[r]
           d == call'[r]
<1>0. \A s \in Statements : Now(r, s) => c.route[c.next] = s /\ c \in Call /\ Knows(c) BY Knowing DEF At
<1>1. \A s \in Statements : Now(r, s) => c \in Call BY <1>0
<1>2. ASSUME NEW p, Pass(r, p) PROVE p /\ d = Skip(c) BY <1>2, PassIs
<1>3. Proceed(r) => d = Skip(c) BY BecomeIs DEF Proceed, Goes
<1>4. ASSUME NEW e, Become(r, e) PROVE d = Skip(e) BY <1>4, BecomeIs DEF Goes
<1>5. ~Refuse(r) BY RefuseIs
<1> HIDE DEF c, d
<1>6. c \in Call /\ d = Skip(c) /\ c.route[c.next] # "lookup" => Carried(c, d)
  BY SkipIs DEF Carried, At
<1>7. CASE ReadMember(r)
  <2> DEFINE e == [c EXCEPT !.actorRole = member[c.org][c.actor].role]
  <2>1. IsActive(c.org, c.actor) /\ d = Skip(e)
    BY <1>4, <1>5, <1>7 DEF ReadMember, IsActive, c
  <2>2. c.route[c.next] = "member" /\ c \in Call /\ Knows(c) BY <1>0, <1>7 DEF ReadMember, Statements
  <2>3. member[c.org][c.actor].role \in Roles
    BY <2>2 DEF Knows, At, Statements, Inv, TypeOK, Membership
  <2>4. e \in Call /\ Same(c, e) /\ e.next = c.next /\ e.actorRole = member[c.org][c.actor].role
        /\ e.targetRole = c.targetRole /\ e.dept = c.dept /\ e.level = c.level
    BY <2>2, <2>3 DEF Call, Same
  <2> HIDE DEF e
  <2>5. Carried(c, d) BY <2>1, <2>2, <2>4, SkipIs DEF Carried, At, Same
  <2>6. Found(c, d) BY <2>1, <2>2, <2>4, SkipIs DEF Found, At
  <2> QED BY <2>5, <2>6 DEF c, d
<1>8. CASE ReadTarget(r)
  <2> DEFINE e == [c EXCEPT !.targetRole = member[c.org][c.user].role]
  <2>1. IsActive(c.org, c.user) /\ d = Skip(e)
    BY <1>4, <1>5, <1>8 DEF ReadTarget, IsActive, c
  <2>2. c.route[c.next] = "target" /\ c \in Call /\ Knows(c) BY <1>0, <1>8 DEF ReadTarget, Statements
  <2>3. member[c.org][c.user].role \in Roles
    BY <2>2 DEF Knows, At, Statements, Inv, TypeOK, Membership
  <2>4. e \in Call /\ Same(c, e) /\ e.next = c.next /\ e.targetRole = member[c.org][c.user].role
        /\ e.actorRole = c.actorRole /\ e.dept = c.dept /\ e.level = c.level
    BY <2>2, <2>3 DEF Call, Same
  <2> HIDE DEF e
  <2>5. Carried(c, d) BY <2>1, <2>2, <2>4, SkipIs DEF Carried, At, Same
  <2>6. Found(c, d) BY <2>1, <2>2, <2>4, SkipIs DEF Found, At
  <2> QED BY <2>5, <2>6 DEF c, d
<1>9. CASE GetMembership(r)
  <2> DEFINE m == member[c.org][c.user]
             g == [c EXCEPT !.dept = m.dept]
             e == [g EXCEPT !.level = m.level]
  <2>1. [c EXCEPT !.dept = m.dept, !.level = m.level] = e OBVIOUS
  <2>2. c.route[c.next] = "existing" /\ c \in Call /\ Knows(c) BY <1>0, <1>9 DEF GetMembership, Statements
  <2>3. d = IF m.status = "none" THEN Skip(c) ELSE Skip(Skip(e))
    BY <1>4, <1>9, <2>1 DEF GetMembership, c
  <2>4. m.dept \in Departments \cup {NoUnit} /\ m.level \in Levels \cup {NoUnit}
    BY <2>2 DEF Knows, At, Statements, Inv, TypeOK, Membership
  <2>5. g \in Call /\ Same(c, g) /\ g.next = c.next /\ g.actorRole = c.actorRole
        /\ g.targetRole = c.targetRole /\ g.dept = m.dept
    BY <2>2, <2>4 DEF Call, Same
  <2> HIDE DEF m, g
  <2>6. e \in Call /\ Same(c, e) /\ e.next = c.next /\ e.actorRole = c.actorRole
        /\ e.targetRole = c.targetRole /\ e.dept = m.dept /\ e.level = m.level
    BY <2>4, <2>5 DEF Call, Same
  <2> HIDE DEF e
  <2>7. Skip(e) \in Call /\ Same(c, Skip(e)) /\ Skip(e).actorRole = c.actorRole
        /\ Skip(e).targetRole = c.targetRole /\ Skip(e).dept = m.dept /\ Skip(e).level = m.level
    BY <2>6, SkipIs DEF Same
  <2>8. Carried(c, d) BY <2>2, <2>3, <2>7, SkipIs DEF Carried, At, Same, m
  <2>9. Found(c, d)
    <3>1. IF m.status = "none" THEN d.dept = c.dept /\ d.level = c.level
          ELSE d.dept = m.dept /\ d.level = m.level
      BY <2>2, <2>3, <2>7, SkipIs
    <3> QED BY <2>2, <3>1 DEF Found, At, m
  <2> QED BY <2>8, <2>9 DEF c, d
<1>10. CASE DepartmentExists(r)
  <2> DEFINE e == [c EXCEPT !.dept = NoUnit]
  <2>1. c.route[c.next] = "department" /\ c \in Call BY <1>0, <1>10 DEF DepartmentExists, Statements
  <2>2. d = Skip(e) \/ (d = Skip(c) /\ (c.dept = NoUnit \/ home[c.dept] = c.org))
    BY <1>4, <1>10 DEF DepartmentExists, c
  <2>3. e \in Call /\ Same(c, e) /\ e.next = c.next /\ e.actorRole = c.actorRole
        /\ e.targetRole = c.targetRole /\ e.dept = NoUnit /\ e.level = c.level
    BY <2>1 DEF Call, Same
  <2> HIDE DEF e
  <2>4. Carried(c, d) BY <2>1, <2>2, <2>3, SkipIs DEF Carried, At, Same
  <2>5. Found(c, d) BY <2>1, <2>2, <2>3, SkipIs DEF Found, At
  <2> QED BY <2>4, <2>5 DEF c, d
<1>11. CASE LevelExists(r)
  <2> DEFINE e == [c EXCEPT !.level = NoUnit]
  <2>1. c.route[c.next] = "level" /\ c \in Call BY <1>0, <1>11 DEF LevelExists, Statements
  <2>2. d = Skip(e) \/ (d = Skip(c) /\ (c.level = NoUnit \/ home[c.level] = c.org))
    BY <1>4, <1>11 DEF LevelExists, c
  <2>3. e \in Call /\ Same(c, e) /\ e.next = c.next /\ e.actorRole = c.actorRole
        /\ e.targetRole = c.targetRole /\ e.dept = c.dept /\ e.level = NoUnit
    BY <2>1 DEF Call, Same
  <2> HIDE DEF e
  <2>4. Carried(c, d) BY <2>1, <2>2, <2>3, SkipIs DEF Carried, At, Same
  <2>5. Found(c, d) BY <2>1, <2>2, <2>3, SkipIs DEF Found, At
  <2> QED BY <2>4, <2>5 DEF c, d
<1>12. CASE Lookup(r)
  <2>1. c.route[c.next] = "lookup" /\ c \in Call BY <1>0, <1>12 DEF Lookup, Statements
  <2>2. d = Skip(c) \/ d = Skip(Skip(c)) BY <1>4, <1>12 DEF Lookup, c
  <2>3. c.next = 1
    <3>1. Flow(c) /\ c.op # "none" BY <1>12 DEF Lookup, Now, Inv, c
    <3> QED BY <2>1, <3>1, Where DEF At
  <2>4. Skip(c) \in Call /\ Skip(Skip(c)) \in Call BY <2>1, SkipIs
  <2>5. Carried(c, d) BY <2>1, <2>2, <2>3, <2>4, SkipIs DEF Carried, At, Same
  <2>6. Found(c, d) BY <2>1 DEF Found, At
  <2> QED BY <2>5, <2>6 DEF c, d
<1>13. CASE Enter(r)
  <2>1. c.route[c.next] = "enter" /\ c \in Call BY <1>0, <1>13 DEF Enter, Statements
  <2>2. d = Skip(c) \/ d = Skip(Skip(c)) BY <1>4, <1>13 DEF Enter, c
  <2>3. Skip(c) \in Call /\ Skip(Skip(c)) \in Call BY <2>1, SkipIs
  <2>4. Carried(c, d) BY <2>1, <2>2, <2>3, SkipIs DEF Carried, At, Same
  <2>5. Found(c, d) BY <2>1 DEF Found, At
  <2> QED BY <2>4, <2>5 DEF c, d
<1>14. CASE RequireRole(r, "admin", Managers) \/ RequireRole(r, "owner", {"owner"})
  <2>1. c \in Call /\ c.route[c.next] \in {"admin", "owner"} BY <1>0, <1>14 DEF RequireRole, Statements
  <2>2. d = Skip(c) /\ Found(c, d) BY <1>0, <1>2, <1>14, <2>1 DEF RequireRole, Statements, Found, At, IsActive, c
  <2> QED BY <1>6, <2>1, <2>2 DEF c, d
<1>15. CASE Decide(r) \/ HasOrgRole(r) \/ CheckMembershipLimit(r) \/ ReadInvitation(r) \/ AcceptInvitation(r)
  <2>1. c \in Call /\ c.route[c.next] \in {"decide", "hasRole", "limit", "token", "accept"}
    BY <1>0, <1>15 DEF Decide, HasOrgRole, CheckMembershipLimit, ReadInvitation, AcceptInvitation, Statements
  <2>2. d = Skip(c)
    BY <1>2, <1>15 DEF Decide, HasOrgRole, CheckMembershipLimit, ReadInvitation, AcceptInvitation
  <2>3. ASSUME Decide(r) PROVE Found(c, d)
    BY <1>0, <1>2, <2>1, <2>3 DEF Decide, Statements, Found, At, c
  <2>4. ASSUME HasOrgRole(r) PROVE Found(c, d)
    BY <1>0, <1>2, <2>1, <2>4 DEF HasOrgRole, Statements, Found, At, c
  <2>5. ASSUME CheckMembershipLimit(r) PROVE Found(c, d)
    BY <1>0, <1>2, <2>1, <2>5 DEF CheckMembershipLimit, Statements, Found, At, c
  <2>6. ASSUME ReadInvitation(r) PROVE Found(c, d)
    BY <1>0, <1>2, <2>1, <2>6 DEF ReadInvitation, Statements, Found, At, c
  <2>7. ASSUME AcceptInvitation(r) PROVE Found(c, d)
    <3>1. c.route[c.next] = "accept" BY <1>0, <2>7 DEF AcceptInvitation, Statements
    <3>2. Pass(r, inv[c.inv].state \in {"open", "lapsed"}) BY <2>7 DEF AcceptInvitation, c
    <3>3. inv[c.inv].state \in {"open", "lapsed"} BY <1>5, <3>2 DEF Pass
    <3>4. inv' = [inv EXCEPT ![c.inv].state = "accepted"] BY <2>7, <3>3 DEF AcceptInvitation, c
    <3> QED BY <3>1, <3>3, <3>4 DEF Found, At
  <2> QED BY <1>6, <1>15, <2>1, <2>2, <2>3, <2>4, <2>5, <2>6, <2>7 DEF c, d
<1>16. CASE \/ InsertOrganization(r) \/ CreateRole(r) \/ CreateUnit(r) \/ DeleteUnit(r) \/ UpdateMembershipRole(r)
            \/ SeedExtraRoles(r) \/ OrganizationOf(r) \/ RevokeInvitation(r) \/ SetActiveOrganization(r)
            \/ UpdateDetails(r) \/ ReadList(r)
  <2>1. c \in Call /\ c.route[c.next] \in {"insertOrg", "newRole", "newUnit", "dropUnit", "changeRole",
                                           "extra", "orgOf", "revoke", "switch", "patch", "read"}
    BY <1>0, <1>16 DEF InsertOrganization, CreateRole, CreateUnit, DeleteUnit, UpdateMembershipRole,
       SeedExtraRoles, OrganizationOf, RevokeInvitation, SetActiveOrganization, UpdateDetails, ReadList, Statements
  <2>2. d = Skip(c)
    BY <1>2, <1>3, <1>16 DEF InsertOrganization, CreateRole, CreateUnit, DeleteUnit, UpdateMembershipRole,
       SeedExtraRoles, OrganizationOf, RevokeInvitation, SetActiveOrganization, UpdateDetails, ReadList
  <2>3. Found(c, d) BY <2>1 DEF Found, At
  <2> QED BY <1>6, <2>1, <2>2, <2>3 DEF c, d
<1>17. CASE RemoveMembership(r) \/ AddMembership(r) \/ SeedDefaultRoles(r) \/ CreateInvitation(r)
  <2>1. c \in Call /\ c.route[c.next] \in {"remove", "add", "seed", "invite"}
    BY <1>0, <1>17 DEF RemoveMembership, AddMembership, SeedDefaultRoles, CreateInvitation, Statements
  <2>2. d = Skip(c)
    BY <1>3, <1>5, <1>17 DEF RemoveMembership, AddMembership, SeedDefaultRoles, CreateInvitation
  <2>3. c.route[c.next] = "seed" => SeedDefaultRoles(r)
    BY <1>0, <1>17 DEF RemoveMembership, AddMembership, CreateInvitation, Statements
  <2>4. Found(c, d) BY <2>1, <2>3 DEF Found, At, SeedDefaultRoles, c
  <2> QED BY <1>6, <2>1, <2>2, <2>4 DEF c, d
<1>18. CASE DeleteAccount(r) BY <1>18 DEF DeleteAccount, Goes, Inv, TypeOK
<1>19. CASE Fail(r) BY <1>5, <1>19 DEF Fail
<1> QED BY <1>7, <1>8, <1>9, <1>10, <1>11, <1>12, <1>13, <1>14, <1>15, <1>16, <1>17, <1>18, <1>19 DEF Statement

-----------------------------------------------------------------------------
\* Units: no unit changes its organization, and none that is deleted comes back.
HomesKept == \A x \in Units : home[x] # NoOrg => home'[x] \in {home[x], "gone"}

\* A membership has two units at most.
LEMMA AtHome ==
    UnitsAtHome <=> \A o \in Orgs, u \in Users :
                       /\ member[o][u].dept # NoUnit => home[member[o][u].dept] = o
                       /\ member[o][u].level # NoUnit => home[member[o][u].level] = o
BY DEF UnitsAtHome

LEMMA HousedStatement ==
    ASSUME Housed, NEW r \in Requests, Statement(r)
    PROVE  UnitsAtHome' /\ HomesKept
<1> DEFINE c == call[r]
           At_(o, m, h) == /\ m.dept # NoUnit => h[m.dept] = o
                           /\ m.level # NoUnit => h[m.level] = o
<1>0. Inv /\ RowsOK /\ \A o \in Orgs, u \in Users : At_(o, member[o][u], home)
  BY AtHome DEF Housed, Inv, TypeOK, RowsOK
<1>1. (\A o \in Orgs, u \in Users : At_(o, member'[o][u], home')) => UnitsAtHome' BY DEF UnitsAtHome
<1>2. UNCHANGED home => HomesKept BY DEF HomesKept
<1>3. UNCHANGED <<member, home>> => UnitsAtHome' /\ HomesKept BY <1>0, <1>1, <1>2
<1>4. \A s \in Statements : Now(r, s) => At(c, s) /\ c \in Call /\ Knows(c) /\ Flow(c) /\ c.op # "none"
  BY <1>0, Knowing
<1>5. ASSUME NEW o \in Orgs, NEW u \in Users, NEW m \in Membership, At_(o, m, home),
             member' = [member EXCEPT ![o][u] = m], UNCHANGED home
      PROVE  UnitsAtHome' /\ HomesKept
  <2>1. \A p \in Orgs, v \in Users : member'[p][v] = IF p = o /\ v = u THEN m ELSE member[p][v]
    BY <1>0, <1>5 DEF RowsOK
  <2> HIDE DEF At_
  <2>2. \A p \in Orgs, v \in Users : At_(p, member'[p][v], home) BY <1>0, <1>5, <2>1
  <2> QED BY <1>1, <1>2, <1>5, <2>2
<1>6. \A o \in Orgs, u \in Users : member[o][u] \in Membership BY <1>0 DEF RowsOK
<1> HIDE DEF c
<1>7. CASE UpdateMembershipRole(r)
  <2>1. c.org \in Orgs /\ c.user \in Users /\ c.role \in Roles
    BY <1>4, <1>7 DEF UpdateMembershipRole, Knows, Statements
  <2> DEFINE m == [member[c.org][c.user] EXCEPT !.role = c.role]
  <2>2. m \in Membership /\ At_(c.org, m, home) BY <1>0, <1>6, <2>1 DEF Membership
  <2>3. member' = member \/ member' = [member EXCEPT ![c.org][c.user] = m]
    BY <1>0, <1>7, <2>1 DEF UpdateMembershipRole, c, RowsOK
  <2> HIDE DEF m
  <2> QED BY <1>3, <1>5, <1>7, <2>1, <2>2, <2>3 DEF UpdateMembershipRole
<1>8. CASE RemoveMembership(r)
  <2>1. c.org \in Orgs /\ c.user \in Users
    BY <1>4, <1>8 DEF RemoveMembership, Knows, Statements
  <2> DEFINE m == [member[c.org][c.user] EXCEPT !.status = "removed"]
  <2>2. m \in Membership /\ At_(c.org, m, home) BY <1>0, <1>6, <2>1 DEF Membership
  <2>3. member' = member \/ member' = [member EXCEPT ![c.org][c.user] = m]
    BY <1>0, <1>8, <2>1 DEF RemoveMembership, c, RowsOK
  <2> HIDE DEF m
  <2> QED BY <1>3, <1>5, <1>8, <2>1, <2>2, <2>3 DEF RemoveMembership
<1>9. CASE AddMembership(r)
  <2>1. /\ c.org \in Orgs /\ c.user \in Users /\ c.role \in Roles /\ c \in Call /\ Flow(c)
        /\ c.op # "none" /\ At(c, "add")
    BY <1>4, <1>9 DEF AddMembership, Knows, Statements
  <2>2. c.dept # NoUnit => c.dept \in Units /\ home[c.dept] \in {c.org, "gone"}
    <3>1. \/ c.op \in HostAdding \/ (Founds(c) /\ c.route # Withdrawal) \/ (Joins(c) /\ c.next = 5)
      BY <2>1, Where DEF HostAdding, At
    <3>2. Founds(c) /\ c.route # Withdrawal => c.dept = NoUnit
      BY <2>1 DEF Flow, Needed, Founds, Blank
    <3>3. UnitFacts(c) BY DEF Housed, c
    <3> QED BY <2>1, <3>1, <3>2, <3>3 DEF UnitFacts, Homely, Call, Units
  <2>3. c.level # NoUnit => c.level \in Units /\ home[c.level] \in {c.org, "gone"}
    <3>1. \/ c.op \in HostAdding \/ (Founds(c) /\ c.route # Withdrawal) \/ (Joins(c) /\ c.next = 5)
      BY <2>1, Where DEF HostAdding, At
    <3>2. Founds(c) /\ c.route # Withdrawal => c.level = NoUnit
      BY <2>1 DEF Flow, Needed, Founds, Blank
    <3>3. UnitFacts(c) BY DEF Housed, c
    <3> QED BY <2>1, <3>1, <3>2, <3>3 DEF UnitFacts, Homely, Call, Units
  <2> DEFINE old == member[c.org][c.user]
             m == Upsert(old, c.role, c.dept, c.level)
  <2>4. \/ member' = member
        \/ /\ member' = [member EXCEPT ![c.org][c.user] = m]
           /\ c.dept # NoUnit => home[c.dept] \in Orgs
           /\ c.level # NoUnit => home[c.level] \in Orgs
    BY <1>0, <1>9, <2>1 DEF AddMembership, c, RowsOK
  <2>5. old \in Membership /\ At_(c.org, old, home) BY <1>0, <1>6, <2>1
  <2>6. m \in Membership BY <2>1, <2>5 DEF Membership, Call, Upsert
  <2>7. (c.dept # NoUnit => home[c.dept] = c.org) /\ (c.level # NoUnit => home[c.level] = c.org)
           => At_(c.org, m, home)
    BY <2>5 DEF Upsert
  <2> HIDE DEF m, At_
  <2>8. CASE member' = member BY <1>3, <1>9, <2>8 DEF AddMembership
  <2>9. CASE member' # member
    <3>1. At_(c.org, m, home) BY <2>2, <2>3, <2>4, <2>7, <2>9, NullAssumption
    <3> QED BY <1>5, <1>9, <2>1, <2>4, <2>6, <2>9, <3>1 DEF AddMembership
  <2> QED BY <2>8, <2>9
<1>10. CASE CreateUnit(r)
  <2>1. c.unit \in Units /\ c.org \in Orgs BY <1>4, <1>10 DEF CreateUnit, Knows, Statements
  <2>2. \A x \in Units : home'[x] = home[x] \/ home[x] = NoOrg
    BY <1>0, <1>10, <2>1 DEF CreateUnit, RowsOK, c
  <2>3. HomesKept BY <2>2 DEF HomesKept
  <2>4. UNCHANGED member BY <1>10 DEF CreateUnit
  <2>5. ASSUME NEW o \in Orgs, NEW u \in Users PROVE At_(o, member[o][u], home')
    <3>1. member[o][u] \in Membership /\ At_(o, member[o][u], home) BY <1>0, <1>6
    <3>2. member[o][u].dept # NoUnit => member[o][u].dept \in Units BY <3>1 DEF Membership, Units
    <3>3. member[o][u].level # NoUnit => member[o][u].level \in Units BY <3>1 DEF Membership, Units
    <3> QED BY <2>2, <3>1, <3>2, <3>3, NullAssumption
  <2> QED BY <1>1, <2>3, <2>4, <2>5
<1>11. CASE DeleteUnit(r)
  <2>1. c.unit \in Units BY <1>4, <1>11 DEF DeleteUnit, Knows, Statements
  <2> DEFINE Without(m) == [m EXCEPT !.dept = IF @ = c.unit THEN NoUnit ELSE @,
                                     !.level = IF @ = c.unit THEN NoUnit ELSE @]
  <2>2. \/ UNCHANGED <<member, home>>
        \/ /\ home' = [home EXCEPT ![c.unit] = "gone"]
           /\ member' = [o \in Orgs |-> [u \in Users |-> Without(member[o][u])]]
    BY <1>11 DEF DeleteUnit, c
  <2>3. \A x \in Units : x # c.unit /\ ~UNCHANGED <<member, home>> => home'[x] = home[x]
    BY <1>0, <2>2 DEF RowsOK
  <2>4. HomesKept BY <1>0, <2>1, <2>2 DEF HomesKept, RowsOK
  <2>5. ASSUME NEW o \in Orgs, NEW u \in Users, ~UNCHANGED <<member, home>> PROVE At_(o, member'[o][u], home')
    <3> DEFINE m == member[o][u]
    <3>1. m \in Membership /\ At_(o, m, home) BY <1>0, <1>6
    <3>2. member'[o][u] = Without(m)
      <4> HIDE DEF Without
      <4> QED BY <2>2, <2>5
    <3> HIDE DEF m
    <3>3. /\ Without(m).dept = IF m.dept = c.unit THEN NoUnit ELSE m.dept
          /\ Without(m).level = IF m.level = c.unit THEN NoUnit ELSE m.level
      BY <3>1 DEF Membership
    <3> HIDE DEF Without
    <3>4. m.dept # NoUnit => m.dept \in Units BY <3>1 DEF Membership, Units
    <3>5. m.level # NoUnit => m.level \in Units BY <3>1 DEF Membership, Units
    <3>6. Without(m).dept # NoUnit => home'[Without(m).dept] = o BY <2>3, <2>5, <3>1, <3>3, <3>4
    <3>7. Without(m).level # NoUnit => home'[Without(m).level] = o BY <2>3, <2>5, <3>1, <3>3, <3>5
    <3> QED BY <3>2, <3>6, <3>7
  <2> QED BY <1>1, <1>3, <2>4, <2>5
<1> HIDE DEF At_
<1>12. CASE UNCHANGED <<member, home>> BY <1>3, <1>12
<1> QED BY <1>7, <1>8, <1>9, <1>10, <1>11, <1>12 DEF Statement, ReadMember, RequireRole, ReadTarget, Decide,
     HasOrgRole, GetMembership, CheckMembershipLimit, Lookup, InsertOrganization, SeedDefaultRoles,
     SeedExtraRoles, CreateRole, CreateInvitation, ReadInvitation, DepartmentExists, LevelExists,
     AcceptInvitation, OrganizationOf, RevokeInvitation, SetActiveOrganization, Enter, UpdateDetails,
     ReadList, DeleteAccount, Fail, rows

LEMMA HousedCalls ==
    ASSUME Housed, Step, HomesKept, NEW q \in Requests
    PROVE  UnitFacts(call[q])'
<1> DEFINE Fits(c, x) == x = NoUnit \/ home'[x] \in {c.org, "gone"}
           Fitting(c) == /\ c.op \in HostAdding => Fits(c, c.dept) /\ Fits(c, c.level)
                         /\ Joins(c) /\ c.next > 3 => Fits(c, c.dept)
                         /\ Joins(c) /\ c.next > 4 => Fits(c, c.level)
<1>0. Inv /\ call \in [Requests -> Call] BY DEF Housed, Inv, TypeOK
<1>1. ASSUME NEW c \in Call, NEW x \in Units \cup {NoUnit}, Homely(c, x), c.op \in HostAdding \/ Joins(c),
             Needed(c), c.route # Withdrawal
      PROVE  Fits(c, x)
  <2>1. c.org \in Orgs BY <1>1 DEF Needed, HostAdding, Joins
  <2> QED BY <1>1, <2>1, NullAssumption DEF Homely, HomesKept
<1>2. ASSUME NEW c \in Call, Flow(c), UnitFacts(c) PROVE Fitting(c)
  <2>1. c.dept \in Units \cup {NoUnit} /\ c.level \in Units \cup {NoUnit} BY <1>2 DEF Call, Units
  <2>2. c.op \in HostAdding \/ (Joins(c) /\ c.next > 3) => c # Blank /\ c.route # Withdrawal
    <3>1. c.op \in HostAdding => c.route # Withdrawal
      BY <1>2, SetMemberRoleIs DEF Flow, OnRoute, Blank, HostAdding, Withdrawal, AddMember, Reads
    <3>2. c.op # "none" /\ c.next > 3 => c.route # Withdrawal
      BY <1>2, Where DEF At
    <3> QED BY <3>1, <3>2 DEF Blank, HostAdding, Joins
  <2>3. c # Blank => Needed(c) BY <1>2 DEF Flow
  <2>4. c.next > 4 => c.next > 3 BY <1>2 DEF Call
  <2> HIDE DEF Fits
  <2> QED BY <1>1, <1>2, <2>1, <2>2, <2>3, <2>4 DEF UnitFacts
<1>3. \A p \in Requests : Fitting(call[p]) BY <1>0, <1>2 DEF Housed, Inv
<1>4. UnitFacts(call[q])' <=> Fitting(call'[q]) BY DEF UnitFacts, Homely
<1> HIDE DEF Fitting
<1>5. CASE call'[q] = call[q] BY <1>3, <1>4, <1>5
<1>6. CASE Request(q)
  <2>1. Fresh(call'[q]) BY <1>0, <1>6, RequestBegins DEF Begins
  <2>2. ~(1 > 3) /\ ~(1 > 4) OBVIOUS
  <2> QED BY <1>4, <2>1, <2>2 DEF Fitting, Fresh
<1>7. CASE Statement(q) /\ ~Goes(q)
  <2>1. call'[q].op \notin HostAdding /\ ~(call'[q].next > 3) /\ ~(call'[q].next > 4)
    <3>1. CASE call'[q] = Blank BY <3>1 DEF Blank, HostAdding
    <3>2. CASE call'[q] = Withdrawn(call[q])
      <4>1. call[q].op = "Signup" \/ call'[q] = Blank \/ Further(call[q], call'[q])
        BY <1>0, <1>7, StatementMoves DEF Moves, Follows
      <4>2. call'[q].next = 1 /\ call'[q].op = call[q].op BY <1>0, <3>2 DEF Withdrawn, Call
      <4>3. ~Further(call[q], call'[q]) BY <1>0, <4>2 DEF Further, Call
      <4> QED BY <3>1, <4>1, <4>2, <4>3 DEF HostAdding
    <3> QED BY <1>7, <3>1, <3>2 DEF Goes
  <2> QED BY <1>4, <2>1 DEF Fitting
<1>8. CASE Statement(q) /\ Goes(q)
  <2> DEFINE c == call[q]
             d == call'[q]
  <2>1. Found(c, d) /\ Carried(c, d) BY <1>0, <1>8, StatementFinds
  <2>2. c \in Call /\ Flow(c) /\ UnitFacts(c) /\ Fitting(c) BY <1>0, <1>3 DEF Housed, Inv
  <2>3. c.op # "none" BY <1>0, <1>8, StatementMoves, CallIs DEF Moves
  <2>4. Joins(d) = Joins(c) /\ d.op = c.op /\ d.org = c.org BY <2>1 DEF Carried, Same, Joins
  <2> HIDE DEF c, d
  <2>5. Needed(c) /\ c.next \in Nat BY <2>2, <2>3 DEF Flow, Blank, Call
  <2>6. CASE At(c, "existing")
    <3>1. c.op \in HostAdding /\ ~Joins(c) BY <2>2, <2>3, <2>6, Where DEF HostAdding, Joins
    <3>2. c.org \in Orgs /\ c.user \in Users
      <4>1. Knows(c) BY <1>0, <2>3, CallKnows DEF c
      <4> QED BY <2>6, <4>1 DEF Knows, Statements
    <3> DEFINE m == member[c.org][c.user]
    <3>3. m \in Membership BY <1>0, <3>2 DEF Inv, TypeOK
    <3>4. (m.dept # NoUnit => home[m.dept] = c.org) /\ (m.level # NoUnit => home[m.level] = c.org)
      BY <3>2, AtHome DEF Housed
    <3>5. (d.dept = c.dept /\ d.level = c.level) \/ (d.dept = m.dept /\ d.level = m.level)
      BY <2>1, <2>6 DEF Found
    <3> HIDE DEF m
    <3>6. Fits(c, m.dept) /\ Fits(c, m.level)
      <4>1. \A x \in Units : home[x] = c.org => home'[x] \in {c.org, "gone"}
        BY <3>2, NullAssumption DEF HomesKept
      <4>2. m.dept \in Units \cup {NoUnit} /\ m.level \in Units \cup {NoUnit} BY <3>3 DEF Membership, Units
      <4> QED BY <3>4, <4>1, <4>2
    <3>7. Fits(d, d.dept) /\ Fits(d, d.level) BY <2>2, <2>4, <3>1, <3>5, <3>6 DEF Fitting
    <3> QED BY <1>4, <2>4, <3>1, <3>7 DEF Fitting, d
  <2>7. CASE ~At(c, "existing") /\ c.op \in HostAdding
    <3>1. ~At(c, "department") /\ ~At(c, "level") BY <2>2, <2>3, <2>7, Where DEF HostAdding, Joins
    <3>2. d.dept = c.dept /\ d.level = c.level BY <2>1, <2>7, <3>1 DEF Carried
    <3>3. ~Joins(c) BY <2>7 DEF HostAdding, Joins
    <3> QED BY <1>4, <2>2, <2>4, <2>7, <3>2, <3>3 DEF Fitting, d
  <2>8. CASE Joins(c)
    <3>1. ~At(c, "existing") /\ ~At(c, "lookup") /\ c.op \notin HostAdding
      BY <2>2, <2>3, <2>8, Where DEF HostAdding, Joins
    <3>2. d.next = c.next + 1 \/ c.next > 5 BY <2>1, <2>2, <2>3, <3>1, Where DEF Carried
    <3>3. d.next > 3 => Fits(d, d.dept)
      <4>1. CASE At(c, "department")
        <5>1. d.dept = NoUnit \/ (d.dept = c.dept /\ home[c.dept] = c.org) BY <2>1, <4>1 DEF Found
        <5>2. c.org \in Orgs /\ c.dept \in Units \cup {NoUnit}
          <6>1. Knows(c) BY <1>0, <2>3, CallKnows DEF c
          <6> QED BY <2>2, <4>1, <6>1 DEF Knows, Statements, Call, Units
        <5> QED BY <2>4, <5>1, <5>2, NullAssumption DEF HomesKept
      <4>2. CASE ~At(c, "department")
        <5>1. d.dept = c.dept BY <2>1, <3>1, <4>2 DEF Carried
        <5>2. c.next # 3 BY <2>2, <2>3, <2>8, <4>2, Stations DEF Station, On, At, Joins
        <5>3. d.next > 3 => c.next > 3 BY <2>5, <3>2, <5>2
        <5> QED BY <2>2, <2>4, <2>8, <5>1, <5>3 DEF Fitting
      <4> QED BY <4>1, <4>2
    <3>4. d.next > 4 => Fits(d, d.level)
      <4>1. CASE At(c, "level")
        <5>1. d.level = NoUnit \/ (d.level = c.level /\ home[c.level] = c.org) BY <2>1, <4>1 DEF Found
        <5>2. c.org \in Orgs /\ c.level \in Units \cup {NoUnit}
          <6>1. Knows(c) BY <1>0, <2>3, CallKnows DEF c
          <6> QED BY <2>2, <4>1, <6>1 DEF Knows, Statements, Call, Units
        <5> QED BY <2>4, <5>1, <5>2, NullAssumption DEF HomesKept
      <4>2. CASE ~At(c, "level")
        <5>1. d.level = c.level BY <2>1, <3>1, <4>2 DEF Carried
        <5>2. c.next # 4 BY <2>2, <2>3, <2>8, <4>2, Stations DEF Station, On, At, Joins
        <5>3. d.next > 4 => c.next > 4 BY <2>5, <3>2, <5>2
        <5> QED BY <2>2, <2>4, <2>8, <5>1, <5>3 DEF Fitting
      <4> QED BY <4>1, <4>2
    <3> QED BY <1>4, <2>4, <3>1, <3>3, <3>4 DEF Fitting, d
  <2>9. CASE ~Joins(c) /\ c.op \notin HostAdding BY <1>4, <2>4, <2>9 DEF Fitting, d
  <2> QED BY <2>6, <2>7, <2>8, <2>9
<1>9. call'[q] = call[q] \/ Request(q) \/ Statement(q) BY <1>0, StepTurns DEF Turns
<1> QED BY <1>5, <1>6, <1>7, <1>8, <1>9

LEMMA HousedNext == ASSUME Housed, [Next]_vars PROVE Housed'
<1>0. Inv BY DEF Housed
<1>1. CASE Next
  <2>1. Step BY <1>1 DEF Next
  <2>2. ASSUME UNCHANGED <<member, home>> PROVE UnitsAtHome' /\ HomesKept
    BY <2>2 DEF Housed, UnitsAtHome, HomesKept
  <2>3. UnitsAtHome' /\ HomesKept
    <3>1. ASSUME NEW r \in Requests, Request(r) PROVE UNCHANGED <<member, home>>
      BY <1>0, <3>1, RequestBegins DEF Begins
    <3>2. ASSUME NEW i \in Invites, Lapse(i) PROVE UNCHANGED <<member, home>> BY <3>2 DEF Lapse
    <3> QED BY <2>1, <2>2, <3>1, <3>2, HousedStatement DEF Step
  <2>4. \A q \in Requests : UnitFacts(call[q])' BY <2>1, <2>3, HousedCalls
  <2>5. Inv' BY <1>0, <1>1, InvNext
  <2> QED BY <2>3, <2>4, <2>5 DEF Housed
<1>2. CASE UNCHANGED vars
  <2>1. Inv' BY <1>0, <1>2, InvNext
  <2> QED BY <1>2, <2>1 DEF vars, rows, Housed, UnitsAtHome, UnitFacts, Homely
<1> QED BY <1>1, <1>2

\* A membership points at a department and a level of its own organization.  A unit
\* can be deleted between the check of a call that accepts an invitation to it and
\* the call's insert, but then it is deleted for good: no check can mistake it for
\* one of another organization, and the insert is refused.
THEOREM UnitsStayHome == Spec => []UnitsAtHome
<1>1. Init => Housed
  <2>1. ASSUME Init PROVE \A r \in Requests : UnitFacts(call[r])
    BY <2>1 DEF Init, UnitFacts, Blank, HostAdding, Joins
  <2> QED BY <2>1, InitOK DEF Housed
<1>2. Housed /\ [Next]_vars => Housed' BY HousedNext
<1>3. Housed => UnitsAtHome BY DEF Housed
<1> QED BY <1>1, <1>2, <1>3, PTL DEF Spec

-----------------------------------------------------------------------------
\* Roles: a catalog only grows.
CatalogGrows == \A o \in Orgs : catalog[o] \subseteq catalog'[o]

LEMMA StepGrows == ASSUME Inv, Step PROVE CatalogGrows
<1>0. catalog \in [Orgs -> SUBSET Roles] BY DEF Inv, TypeOK
<1>1. UNCHANGED catalog => CatalogGrows BY DEF CatalogGrows
<1>2. ASSUME NEW r \in Requests, Request(r) PROVE UNCHANGED catalog BY <1>2, RequestBegins DEF Begins
<1>3. ASSUME NEW i \in Invites, Lapse(i) PROVE UNCHANGED catalog BY <1>3 DEF Lapse
<1>4. ASSUME NEW r \in Requests, SeedDefaultRoles(r) \/ SeedExtraRoles(r) \/ CreateRole(r) PROVE CatalogGrows
  BY <1>0, <1>4 DEF SeedDefaultRoles, SeedExtraRoles, CreateRole, CatalogGrows
<1>5. ASSUME NEW r \in Requests, Statement(r) PROVE CatalogGrows
  BY <1>1, <1>4, <1>5 DEF Statement, ReadMember, RequireRole, ReadTarget, Decide, HasOrgRole,
     UpdateMembershipRole, RemoveMembership, GetMembership, CheckMembershipLimit, AddMembership, Lookup,
     InsertOrganization, CreateInvitation, ReadInvitation, DepartmentExists, LevelExists,
     AcceptInvitation, OrganizationOf, RevokeInvitation, SetActiveOrganization, Enter, CreateUnit, DeleteUnit,
     UpdateDetails, ReadList, DeleteAccount, Fail, rows
<1> QED BY <1>1, <1>2, <1>3, <1>5 DEF Step

\* The role that is written is one of the catalog.
LEMMA WrittenRole ==
    ASSUME Listed, NEW r \in Requests, Now(r, "add") \/ Now(r, "changeRole") \/ Now(r, "invite")
    PROVE  call[r].role \in catalog[call[r].org]
<1> DEFINE c == call[r]
<1>0. Inv BY DEF Listed
<1>1. c \in Call /\ Flow(c) /\ c.op # "none" /\ (At(c, "add") \/ At(c, "changeRole") \/ At(c, "invite"))
  BY <1>0, Knowing DEF Statements
<1>2. RoleFacts(c) BY DEF Listed
<1>3. CASE Joins(c)
  <2>1. c.inv \in Invites BY <1>1, <1>3 DEF Flow, Needed, Blank
  <2>2. c.route # Withdrawal BY <1>1, Where DEF At
  <2> QED BY <1>0, <1>3, <2>1, <2>2 DEF Listed, Inv, InvitedOK, RolesInCatalog
<1> HIDE DEF c
<1>4. CASE ~Joins(c)
  <2>1. \/ c.op \in {"AddMember", "PlatformInvite"} /\ c.next > 1
        \/ c.op \in {"SetMemberRole", "Invite"} /\ c.next > 2
        \/ Founds(c) /\ c.next > 3
        \/ c.op = "ChangeMemberRole" /\ c.next > 4
    BY <1>1, <1>4, Where
  <2> QED BY <1>2, <2>1 DEF RoleFacts, c
<1> QED BY <1>3, <1>4 DEF c

LEMMA ListedMembers ==
    ASSUME Listed, NEW r \in Requests, Statement(r), NEW o \in Orgs, NEW u \in Users,
           member'[o][u].status # "none"
    PROVE  member'[o][u].role \in catalog[o]
<1> DEFINE c == call[r]
<1>0. Inv /\ RowsOK /\ member[o][u] \in Membership BY DEF Listed, Inv, TypeOK, RowsOK
<1>1. member[o][u].status # "none" => member[o][u].role \in catalog[o] BY DEF Listed, RolesInCatalog
<1>2. CASE UNCHANGED member BY <1>1, <1>2
<1>3. \A s \in Statements : Now(r, s) => Knows(c) /\ At(c, s) BY <1>0, Knowing
<1> HIDE DEF c
<1>4. CASE UpdateMembershipRole(r)
  <2>1. c.org \in Orgs /\ c.user \in Users BY <1>3, <1>4 DEF UpdateMembershipRole, Knows, Statements
  <2>2. c.role \in catalog[c.org] BY <1>4, WrittenRole DEF UpdateMembershipRole, c
  <2>3. member' = member \/ member' = [member EXCEPT ![c.org][c.user].role = c.role]
    BY <1>4 DEF UpdateMembershipRole, c
  <2>4. CASE member' = [member EXCEPT ![c.org][c.user].role = c.role]
    <3>1. member'[o][u] = IF o = c.org /\ u = c.user THEN [member[o][u] EXCEPT !.role = c.role] ELSE member[o][u]
      BY <1>0, <2>1, <2>4 DEF RowsOK
    <3>2. [member[o][u] EXCEPT !.role = c.role].role = c.role BY <1>0 DEF Membership
    <3> QED BY <1>1, <2>2, <3>1, <3>2
  <2> QED BY <1>2, <2>3, <2>4
<1>5. CASE RemoveMembership(r)
  <2>1. c.org \in Orgs /\ c.user \in Users BY <1>3, <1>5 DEF RemoveMembership, Knows, Statements
  <2>2. member' = member \/ (IsActive(c.org, c.user) /\ member' = [member EXCEPT ![c.org][c.user].status = "removed"])
    BY <1>5 DEF RemoveMembership, c
  <2>3. CASE IsActive(c.org, c.user) /\ member' = [member EXCEPT ![c.org][c.user].status = "removed"]
    <3>1. member'[o][u] = IF o = c.org /\ u = c.user THEN [member[o][u] EXCEPT !.status = "removed"] ELSE member[o][u]
      BY <1>0, <2>1, <2>3 DEF RowsOK
    <3>2. [member[o][u] EXCEPT !.status = "removed"].role = member[o][u].role BY <1>0 DEF Membership
    <3> QED BY <1>1, <2>3, <3>1, <3>2 DEF IsActive
  <2> QED BY <1>2, <2>2, <2>3
<1>6. CASE AddMembership(r)
  <2>1. c.org \in Orgs /\ c.user \in Users BY <1>3, <1>6 DEF AddMembership, Knows, Statements
  <2>2. c.role \in catalog[c.org] BY <1>6, WrittenRole DEF AddMembership, c
  <2> DEFINE m(old) == Upsert(old, c.role, c.dept, c.level)
  <2>3. member' = member \/ member' = [member EXCEPT ![c.org][c.user] = m(@)]
    BY <1>6 DEF AddMembership, c
  <2>4. \A old : m(old).role = c.role BY DEF Upsert
  <2>5. CASE member' = [member EXCEPT ![c.org][c.user] = m(@)]
    <3> HIDE DEF m
    <3>1. member'[o][u] = IF o = c.org /\ u = c.user THEN m(member[o][u]) ELSE member[o][u]
      BY <1>0, <2>1, <2>5 DEF RowsOK
    <3> QED BY <1>1, <2>2, <2>4, <3>1
  <2> QED BY <1>2, <2>3, <2>5
<1>7. CASE DeleteUnit(r)
  <2> DEFINE Without(m) == [m EXCEPT !.dept = IF @ = c.unit THEN NoUnit ELSE @,
                                     !.level = IF @ = c.unit THEN NoUnit ELSE @]
  <2>1. UNCHANGED member \/ member' = [p \in Orgs |-> [v \in Users |-> Without(member[p][v])]]
    BY <1>7 DEF DeleteUnit, c
  <2>2. Without(member[o][u]).role = member[o][u].role /\ Without(member[o][u]).status = member[o][u].status
    BY <1>0 DEF Membership
  <2> HIDE DEF Without
  <2>3. UNCHANGED member \/ member'[o][u] = Without(member[o][u]) BY <2>1
  <2> QED BY <1>1, <2>2, <2>3
<1> QED BY <1>2, <1>4, <1>5, <1>6, <1>7 DEF Statement, ReadMember, RequireRole, ReadTarget, Decide,
     HasOrgRole, GetMembership, CheckMembershipLimit, Lookup, InsertOrganization, SeedDefaultRoles,
     SeedExtraRoles, CreateRole, CreateInvitation, ReadInvitation, DepartmentExists, LevelExists,
     AcceptInvitation, OrganizationOf, RevokeInvitation, SetActiveOrganization, Enter, CreateUnit,
     UpdateDetails, ReadList, DeleteAccount, Fail, rows

\* An invitation is written by one statement.
LEMMA Invited ==
    ASSUME Inv, Step, NEW i \in Invites, inv[i].state = "none", inv'[i].state # "none"
    PROVE  \E r \in Requests : CreateInvitation(r) /\ inv'[i].org = call[r].org /\ inv'[i].role = call[r].role
<1>0. inv \in [Invites -> Invitation] BY DEF Inv, TypeOK
<1>1. ~UNCHANGED inv OBVIOUS
<1>2. ASSUME NEW j \in Invites, Lapse(j) PROVE FALSE BY <1>0, <1>2 DEF Lapse
<1>3. ASSUME NEW r \in Requests, Request(r) PROVE FALSE BY <1>1, <1>3, RequestBegins DEF Begins
<1>4. ASSUME NEW r \in Requests, AcceptInvitation(r) PROVE FALSE
  <2>1. call[r].inv \in Invites BY <1>4, Knowing DEF AcceptInvitation, Knows, Statements
  <2> QED BY <1>0, <1>4, <2>1 DEF AcceptInvitation
<1>5. ASSUME NEW r \in Requests, RevokeInvitation(r) PROVE FALSE
  <2>1. call[r].inv \in Invites BY <1>5, Knowing DEF RevokeInvitation, Knows, Statements
  <2> QED BY <1>0, <1>5, <2>1 DEF RevokeInvitation
<1>6. ASSUME NEW r \in Requests, Statement(r) PROVE CreateInvitation(r)
  BY <1>1, <1>4, <1>5, <1>6 DEF Statement, ReadMember, RequireRole, ReadTarget, Decide, HasOrgRole,
     UpdateMembershipRole, RemoveMembership, GetMembership, CheckMembershipLimit, AddMembership, Lookup,
     InsertOrganization, SeedDefaultRoles, SeedExtraRoles, CreateRole, ReadInvitation, DepartmentExists,
     LevelExists, OrganizationOf, SetActiveOrganization, Enter, CreateUnit, DeleteUnit,
     UpdateDetails, ReadList, DeleteAccount, Fail, rows
<1>7. ASSUME NEW r \in Requests, CreateInvitation(r) PROVE inv'[i].org = call[r].org /\ inv'[i].role = call[r].role
  <2> DEFINE c == call[r]
             n == [state |-> "open", org |-> c.org, role |-> c.role, dept |-> c.dept, level |-> c.level]
  <2>1. PICK j \in Invites : inv' = [inv EXCEPT ![j] = n] BY <1>1, <1>7 DEF CreateInvitation
  <2>2. n.org = c.org /\ n.role = c.role OBVIOUS
  <2> HIDE DEF n
  <2>3. inv'[i] = n BY <1>0, <2>1
  <2> QED BY <2>2, <2>3
<1> QED BY <1>2, <1>3, <1>6, <1>7 DEF Step

LEMMA ListedCalls ==
    ASSUME Listed, Step, CatalogGrows, NEW q \in Requests
    PROVE  RoleFacts(call[q])'
<1> DEFINE Ready(c) == \/ c.op \in {"AddMember", "PlatformInvite"} /\ c.next > 1
                       \/ c.op \in {"SetMemberRole", "Invite"} /\ c.next > 2
                       \/ Founds(c) /\ c.next > 3
                       \/ c.op = "ChangeMemberRole" /\ c.next > 4
           c == call[q]
           d == call'[q]
<1>0. Inv BY DEF Listed
<1>1. RoleFacts(call[q])' <=> (Ready(d) => d.role \in catalog'[d.org]) BY DEF RoleFacts, Founds
<1>2. RoleFacts(c) <=> (Ready(c) => c.role \in catalog[c.org]) BY DEF RoleFacts
<1>3. RoleFacts(c) BY DEF Listed
<1>4. c \in Call /\ Flow(c) BY <1>0 DEF Inv, TypeOK
<1> HIDE DEF c, d
<1>5. Ready(c) => c.org \in Orgs /\ c.role \in catalog'[c.org]
  <2>1. Ready(c) => c.op # "none" /\ c # Blank BY DEF Founds, Blank
  <2>2. Ready(c) => c.route # Withdrawal /\ c.op # "ClearActive"
    <3>1. CASE c.next > 1 BY <1>4, <2>1, <3>1, Where DEF At, Founds
    <3>2. CASE ~(c.next > 1) BY <1>4, <3>2 DEF Call
    <3> QED BY <3>1, <3>2
  <2>3. Ready(c) => c.org \in Orgs BY <1>4, <2>1, <2>2 DEF Flow, Needed
  <2> QED BY <1>2, <1>3, <2>3 DEF CatalogGrows
<1>6. CASE d = c BY <1>1, <1>5, <1>6
<1>7. CASE Request(q)
  <2>1. d.next = 1 BY <1>0, <1>7, RequestBegins DEF Begins, Fresh, d
  <2> QED BY <1>1, <2>1
<1>8. CASE Statement(q) /\ ~Goes(q)
  <2>1. d.next = 1
    <3>1. CASE call'[q] = Blank BY <3>1 DEF Blank, d
    <3>2. CASE call'[q] = Withdrawn(call[q]) BY <1>4, <3>2 DEF Withdrawn, Call, c, d
    <3> QED BY <1>8, <3>1, <3>2 DEF Goes
  <2> QED BY <1>1, <2>1
<1>9. CASE Statement(q) /\ Goes(q)
  <2>1. Found(c, d) /\ Carried(c, d) BY <1>0, <1>9, StatementFinds DEF c, d
  <2>2. c.op # "none" /\ c # Blank BY <1>0, <1>9, StatementMoves, CallIs DEF Moves, c
  <2>3. /\ d.op = c.op /\ d.org = c.org /\ d.role = c.role /\ Founds(d) = Founds(c)
    BY <2>1 DEF Carried, Same, Founds
  <2>4. c.next \in Nat /\ Needed(c) BY <1>4, <2>2 DEF Call, Flow
  <2>5. Knows(c) BY <1>0, <2>2, CallKnows, CallIs DEF c
  <2> HIDE DEF Ready
  <2>6. CASE Ready(c) BY <1>1, <1>5, <2>3, <2>6
  <2>7. CASE At(c, "hasRole")
    <3>1. c.role \in catalog[c.org] /\ c.org \in Orgs BY <2>1, <2>5, <2>7 DEF Found, Knows, Statements
    <3> QED BY <1>1, <2>3, <3>1 DEF CatalogGrows
  <2>8. CASE At(c, "seed")
    <3>1. catalog' = [catalog EXCEPT ![c.org] = @ \cup DefaultRoles] /\ c.org \in Orgs
      BY <2>1, <2>5, <2>8 DEF Found, Knows, Statements
    <3>2. Founds(c) /\ c.route # Withdrawal BY <1>4, <2>2, <2>8, Where DEF At
    <3>3. c.role = "owner" BY <2>4, <3>2 DEF Needed
    <3>4. catalog \in [Orgs -> SUBSET Roles] BY <1>0 DEF Inv, TypeOK
    <3> QED BY <1>1, <2>3, <3>1, <3>3, <3>4 DEF DefaultRoles
  <2>9. CASE ~Ready(c) /\ ~At(c, "hasRole") /\ ~At(c, "seed")
    <3>1. Station(c) BY <1>4, <2>2, Stations
    <3>2. d.next = c.next + 1 \/ At(c, "lookup") \/ At(c, "existing") \/ At(c, "enter")
      BY <2>1 DEF Carried
    <3>3. ASSUME c.op \in {"AddMember", "PlatformInvite", "SetMemberRole", "Invite", "ChangeMemberRole"}
          PROVE  ~Ready(d)
      <4>1. ~At(c, "existing") \/ Ready(c) BY <1>4, <2>2, Where DEF Ready
      <4>2. d.next = c.next + 1
        BY <1>4, <2>2, <2>9, <3>2, <3>3, <4>1, Where DEF Founds
      <4>3. ~Founds(c) BY <3>3 DEF Founds
      <4> QED BY <2>3, <2>4, <2>9, <3>1, <3>3, <4>2, <4>3 DEF Ready, Station, On, At
    <3>4. ASSUME Founds(c) PROVE ~Ready(d)
      <4>1. c.next <= 3 BY <2>4, <2>9, <3>4 DEF Ready
      <4>2. c.next # 3 BY <2>9, <3>1, <3>4 DEF Station, On, At, Founds
      <4>3. ~At(c, "existing") /\ ~At(c, "enter")
        BY <1>4, <2>2, <2>4, <3>4, <4>1, Where DEF Founds
      <4>4. d.next <= 3 BY <2>1, <2>4, <3>2, <4>1, <4>2, <4>3 DEF Carried
      <4>5. c.op \in {"Create", "Ensure", "Signup"} BY <3>4 DEF Founds
      <4>6. d.next \in Nat BY <1>0, <1>9, StepTurns, StatementMoves, CallsNext DEF d, Call
      <4> QED BY <2>3, <4>4, <4>5, <4>6 DEF Ready
    <3>5. CASE ~Founds(c) /\ c.op \notin {"AddMember", "PlatformInvite", "SetMemberRole", "Invite", "ChangeMemberRole"}
      BY <1>1, <2>3, <3>5 DEF Ready
    <3> QED BY <1>1, <3>3, <3>4, <3>5
  <2> QED BY <2>6, <2>7, <2>8, <2>9
<1>10. d = c \/ Request(q) \/ Statement(q) BY <1>0, StepTurns DEF Turns, c, d
<1> QED BY <1>6, <1>7, <1>8, <1>9, <1>10

LEMMA ListedNext == ASSUME Listed, [Next]_vars PROVE Listed'
<1>0. Inv BY DEF Listed
<1>1. CASE Next
  <2>1. Step BY <1>1 DEF Next
  <2>2. CatalogGrows /\ InvitesKept BY <1>0, <2>1, StepGrows, StepRows
  <2>3. ASSUME NEW o \in Orgs, NEW u \in Users, member'[o][u].status # "none"
        PROVE  member'[o][u].role \in catalog'[o]
    <3>1. CASE UNCHANGED member BY <2>2, <2>3, <3>1 DEF Listed, RolesInCatalog, CatalogGrows
    <3>2. CASE ~UNCHANGED member
      <4>1. PICK r \in Requests : Statement(r)
        <5>1. ASSUME NEW r \in Requests, Request(r) PROVE UNCHANGED member
          BY <1>0, <5>1, RequestBegins DEF Begins
        <5> QED BY <2>1, <3>2, <5>1 DEF Step, Lapse
      <4>2. member'[o][u].role \in catalog[o] BY <2>3, <4>1, ListedMembers
      <4> QED BY <2>2, <4>2 DEF CatalogGrows
    <3> QED BY <3>1, <3>2
  <2>4. ASSUME NEW i \in Invites, inv'[i].state # "none" PROVE inv'[i].role \in catalog'[inv'[i].org]
    <3>1. CASE inv[i].state # "none"
      <4>1. inv[i].org \in Orgs /\ inv[i].role \in catalog[inv[i].org]
        BY <1>0, <3>1 DEF Inv, InvitedOK, Listed, RolesInCatalog
      <4> QED BY <2>2, <3>1, <4>1 DEF InvitesKept, CatalogGrows
    <3>2. CASE inv[i].state = "none"
      <4>1. PICK r \in Requests : /\ CreateInvitation(r)
                                  /\ inv'[i].org = call[r].org /\ inv'[i].role = call[r].role
        BY <1>0, <2>1, <2>4, <3>2, Invited
      <4>2. call[r].role \in catalog[call[r].org] BY <4>1, WrittenRole DEF CreateInvitation
      <4>3. call[r].org \in Orgs BY <1>0, <4>1, Knowing DEF CreateInvitation, Knows, Statements
      <4> QED BY <2>2, <4>1, <4>2, <4>3 DEF CatalogGrows
    <3> QED BY <3>1, <3>2
  <2>5. \A q \in Requests : RoleFacts(call[q])' BY <2>1, <2>2, ListedCalls
  <2>6. Inv' BY <1>0, <1>1, InvNext
  <2>7. RolesInCatalog' BY <2>3, <2>4 DEF RolesInCatalog
  <2> QED BY <2>5, <2>6, <2>7 DEF Listed
<1>2. CASE UNCHANGED vars
  <2>1. Inv' BY <1>0, <1>2, InvNext
  <2> QED BY <1>2, <2>1 DEF vars, rows, Listed, RolesInCatalog, RoleFacts, Founds
<1> QED BY <1>1, <1>2

\* No membership and no invitation has a role that its organization does not have,
\* although no table requires it: every writer has asked the catalog, or has filled
\* it, and no role is ever deleted.
THEOREM RolesStayListed == Spec => []RolesInCatalog
<1>1. Init => Listed
  <2>1. ASSUME Init PROVE \A r \in Requests : RoleFacts(call[r])
    BY <2>1 DEF Init, RoleFacts, Blank, Founds
  <2> QED BY <2>1, InitOK DEF Listed
<1>2. Listed /\ [Next]_vars => Listed' BY ListedNext
<1>3. Listed => RolesInCatalog BY DEF Listed
<1> QED BY <1>1, <1>2, <1>3, PTL DEF Spec

-----------------------------------------------------------------------------
\* What a call acts on was true while it ran.
LEMMA ViewIs ==
    ASSUME NEW c
    PROVE  /\ View(c).actor = Authority(c)
           /\ c.op \in Changing \cup {"AddMember"} => View(c).target = {Rank(c.org, c.user)}
           /\ c.op \in Changing => (View(c).sole <=> Owners(c.org) = {c.user})
           /\ c.op \in {"AddMember", "Create", "AcceptInvite", "Signup"} =>
                 (View(c).room <=> scene.max = 0 \/ Cardinality(Seats(c.user)) < scene.max)
BY DEF View, Changing

\* The history of a call only grows, and ends with what is true.
LEMMA SeenGrows ==
    ASSUME Inv, Step, UNCHANGED scene, History, NEW r \in Requests, call'[r] # Blank
    PROVE  /\ Current(call[r], seen[r])'
           /\ call[r] # Blank => /\ seen[r].actor \subseteq seen'[r].actor /\ seen[r].target \subseteq seen'[r].target
                                 /\ (seen'[r].sole => seen[r].sole) /\ (seen[r].room => seen'[r].room)
<1> DEFINE v == View(call[r])'
           w == seen[r]
           both == [actor |-> w.actor \cup v.actor, target |-> w.target \cup v.target,
                    sole |-> w.sole /\ v.sole, room |-> w.room \/ v.room]
<1>1. seen'[r] = IF call[r] = Blank THEN v ELSE both BY DEF History
<1>2. seen'[r] \in Seen /\ w \in Seen BY SeenNext DEF Inv, TypeOK
<1>3. Current(call[r], seen[r])' <=>
         /\ v.actor \subseteq seen'[r].actor /\ v.target \subseteq seen'[r].target
         /\ (seen'[r].sole => v.sole) /\ (v.room => seen'[r].room)
  BY DEF Current
<1>4. /\ both.actor = w.actor \cup v.actor /\ both.target = w.target \cup v.target
      /\ both.sole = (w.sole /\ v.sole) /\ both.room = (w.room \/ v.room)
  OBVIOUS
<1> HIDE DEF v, both
<1>5. CASE call[r] = Blank BY <1>1, <1>3, <1>5
<1>6. CASE call[r] # Blank BY <1>1, <1>3, <1>4, <1>6 DEF w
<1> QED BY <1>5, <1>6

\* The checks come first.
LEMMA NeedsIs ==
    /\ \A op \in ByManagers : Needs(op) = Managers
    /\ \A op \in ByMembers : Needs(op) = Roles
    /\ \A op \in ByInvited : Needs(op) = {"invited"}
    /\ Needs("CreateRoleForActor") = {"owner"}
<1>1. \A op \in ByMembers : op \notin ByManagers BY DEF ByMembers, ByManagers
<1>2. \A op \in ByInvited : op \notin ByManagers /\ op \notin ByMembers BY DEF ByMembers, ByManagers, ByInvited
<1>3. "CreateRoleForActor" \notin ByManagers \cup ByMembers \cup ByInvited BY DEF ByMembers, ByManagers, ByInvited
<1> QED BY <1>1, <1>2, <1>3 DEF Needs

LEMMA FirstChecks ==
    ASSUME Inv, NEW r \in Requests, call[r] # Blank, call[r].op \in Guarded \ Changing
    PROVE  LET c == call[r]
           IN  \/ c.next > 1
               \/ /\ c.next = 1
                  /\ \/ At(c, "member") /\ c.op \in ByMembers
                     \/ At(c, "admin") /\ c.op \in ByManagers
                     \/ At(c, "owner") /\ c.op = "CreateRoleForActor"
                     \/ At(c, "token") /\ c.op \in ByInvited
<1> DEFINE c == call[r]
<1>1. c \in Call /\ Flow(c) /\ c.op # "none" BY CallIs
<1> HIDE DEF c
<1>2. Station(c) /\ c.next \in Nat \ {0} BY <1>1, Stations DEF Call
<1>3. c.op \in Guarded \ Changing BY DEF c
<1>4. ASSUME c.next = 1
      PROVE  \/ At(c, "member") /\ c.op \in ByMembers
             \/ At(c, "admin") /\ c.op \in ByManagers
             \/ At(c, "owner") /\ c.op = "CreateRoleForActor"
             \/ At(c, "token") /\ c.op \in ByInvited
  <2>1. CASE c.op \in ByMembers BY <1>2, <1>4, <2>1 DEF Station, On, At, ByMembers
  <2>2. CASE c.op \in ByManagers \ Changing BY <1>2, <1>4, <2>2 DEF Station, On, At, ByManagers, Changing
  <2>3. CASE c.op = "CreateRoleForActor" BY <1>2, <1>4, <2>3 DEF Station, On, At
  <2>4. CASE c.op \in ByInvited BY <1>2, <1>4, <2>4 DEF Station, On, At, ByInvited
  <2> QED BY <1>3, <2>1, <2>2, <2>3, <2>4 DEF Guarded
<1>5. c.next > 1 \/ c.next = 1 BY <1>2
<1> QED BY <1>4, <1>5 DEF c

\* What a statement that lets the call go on has found is in its history.
LEMMA ShownStatement ==
    ASSUME Known, NEW r \in Requests, Statement(r), Goes(r), NEW w \in Seen,
           seen[r].actor \subseteq w.actor, seen[r].target \subseteq w.target,
           w.sole => seen[r].sole, seen[r].room => w.room
    PROVE  Shown(call'[r], w)
<1> DEFINE c == call[r]
           d == call'[r]
           s == seen[r]
<1>0. Inv BY DEF Known
<1>1. c # Blank /\ c.op # "none" /\ c \in Call /\ Flow(c) BY <1>0, StatementMoves, CallIs DEF Moves
<1>2. Current(c, s) /\ Shown(c, s) BY <1>1 DEF Known
<1>3. Found(c, d) /\ Carried(c, d) BY <1>0, StatementFinds
<1>4. /\ View(c).actor \subseteq w.actor /\ View(c).target \subseteq w.target
      /\ (w.sole => View(c).sole) /\ (View(c).room => w.room)
  BY <1>2 DEF Current
<1>5. Knows(c) BY <1>0, <1>1, CallKnows
<1>6. s \in Seen BY <1>0 DEF Inv, TypeOK
<1>7. Moves(r) BY <1>0, StatementMoves
<1>8. c.route # Withdrawal
  <2>1. Further(c, d) BY <1>7 DEF Moves, Follows, Goes
  <2>2. d.next > c.next /\ d.next \in 1..Len(c.route) /\ c.next \in Nat \ {0} BY <1>1, <2>1 DEF Further, Call
  <2>3. Len(Withdrawal) = 1 BY DEF Withdrawal
  <2> HIDE DEF c, d
  <2>4. ASSUME c.route = Withdrawal PROVE FALSE
    <3>1. d.next \in 1..1 BY <2>2, <2>3, <2>4
    <3> QED BY <2>2, <3>1
  <2> QED BY <2>4
<1>9. \A o \in Orgs, u \in Users : member[o][u] \in Membership BY <1>0 DEF Inv, TypeOK
<1>10. c.op \in Guarded \ Changing =>
          \/ c.next > 1
          \/ /\ c.next = 1
             /\ \/ At(c, "member") /\ c.op \in ByMembers
                \/ At(c, "admin") /\ c.op \in ByManagers
                \/ At(c, "owner") /\ c.op = "CreateRoleForActor"
                \/ At(c, "token") /\ c.op \in ByInvited
  BY <1>0, <1>1, FirstChecks
<1>11. seen[r] = s OBVIOUS
<1> HIDE DEF c, d, s
<1>12. d.op = c.op /\ d.org = c.org /\ d.actor = c.actor /\ d.user = c.user /\ d.role = c.role /\ d.inv = c.inv
  BY <1>3 DEF Carried, Same
<1>26. Foreign(d) <=> Foreign(c) BY <1>12 DEF Foreign, Subject
<1>13. Joins(d) = Joins(c) BY <1>12 DEF Joins
<1>14. c.next \in Nat \ {0} /\ Needed(c) /\ Station(c) BY <1>1, Stations DEF Call, Flow
<1>15. c.op \in Guarded \ {"PeekInvitation"} => c.actor \in Users BY <1>14 DEF Needed
<1>16. NoOrg \notin Orgs /\ NoUser \notin Users /\ NoInvite \notin Invites BY NullAssumption
<1>17. d.next = c.next + 1 \/ At(c, "lookup") \/ At(c, "existing") \/ At(c, "enter") BY <1>3 DEF Carried
<1>18. ASSUME d.op \in Guarded \ Changing PROVE w.actor \cap Needs(d.op) # {} \/ Foreign(d)
  <2>1. CASE c.next > 1 BY <1>2, <1>4, <1>11, <1>12, <1>18, <1>26, <2>1 DEF Shown
  <2>6. CASE Foreign(c) BY <1>26, <2>6
  <2>2. CASE At(c, "member") /\ c.op \in ByMembers
    <3>1. IsActive(c.org, c.actor) /\ c.org \in Orgs /\ c.actor \in Users
      BY <1>3, <1>5, <2>2 DEF Found, Knows, Statements
    <3>2. member[c.org][c.actor].role \in Authority(c)
      <4>1. Subject(c) = c.org BY <2>2 DEF Subject, ByMembers
      <4> QED BY <1>16, <3>1, <4>1 DEF Authority
    <3>3. member[c.org][c.actor].role \in Roles BY <1>9, <3>1 DEF Membership
    <3> QED BY <1>4, <1>12, <2>2, <3>2, <3>3, ViewIs, NeedsIs
  <2>3. CASE At(c, "admin") /\ c.op \in ByManagers /\ ~Foreign(c)
    <3>1. IsActive(c.org, c.actor) /\ c.org \in Orgs /\ c.actor \in Users /\ member[c.org][c.actor].role \in Managers
      BY <1>3, <1>5, <2>3 DEF Found, Knows, Statements
    <3>2. member[c.org][c.actor].role \in Authority(c)
      <4>1. Subject(c) = c.org BY <2>3 DEF Foreign
      <4> QED BY <1>16, <3>1, <4>1 DEF Authority
    <3> QED BY <1>4, <1>12, <2>3, <3>1, <3>2, ViewIs, NeedsIs
  <2>4. CASE At(c, "owner") /\ c.op = "CreateRoleForActor"
    <3>1. IsActive(c.org, c.actor) /\ c.org \in Orgs /\ c.actor \in Users /\ member[c.org][c.actor].role = "owner"
      BY <1>3, <1>5, <2>4 DEF Found, Knows, Statements
    <3>2. "owner" \in Authority(c)
      <4>1. Subject(c) = c.org BY <2>4 DEF Subject
      <4> QED BY <1>16, <3>1, <4>1 DEF Authority
    <3> QED BY <1>4, <1>12, <2>4, <3>2, ViewIs, NeedsIs
  <2>5. CASE At(c, "token") /\ c.op \in ByInvited
    <3>1. inv[c.inv].state = "open" /\ c.inv \in Invites BY <1>3, <1>5, <2>5 DEF Found, Knows
    <3>2. "invited" \in Authority(c) BY <1>16, <3>1 DEF Authority
    <3> QED BY <1>4, <1>12, <2>5, <3>2, ViewIs, NeedsIs
  <2> QED BY <1>10, <1>12, <1>18, <2>1, <2>2, <2>3, <2>4, <2>5, <2>6
<1>19. ASSUME d.op \in Changing
       PROVE  /\ d.next > 1 => d.actorRole \in w.actor
              /\ d.next > 2 => d.targetRole \in w.target /\ (w.sole => d.targetRole = "owner")
              /\ d.next > 3 => /\ d.actorRole \in Managers /\ d.role # "owner" /\ ~w.sole
                               /\ d.actorRole = "admin" => d.targetRole \notin Managers /\ d.role # "admin"
  <2>1. c.op \in Changing /\ c.op \notin {"AddMember"} BY <1>12, <1>19 DEF Changing
  <2>2. ~At(c, "lookup") /\ ~At(c, "existing") /\ ~At(c, "enter") BY <1>1, <2>1, Where DEF Changing
  <2>3. d.next = c.next + 1 BY <1>17, <2>2
  <2>4. /\ c.next = 1 => At(c, "member")
        /\ c.next = 2 => At(c, "target")
        /\ c.next = 3 => At(c, "decide")
        /\ At(c, "member") => c.next = 1
        /\ At(c, "target") => c.next = 2
    BY <1>14, <2>1 DEF Station, On, At, Changing
  <2>5. (d.actorRole = c.actorRole \/ At(c, "member")) /\ (d.targetRole = c.targetRole \/ At(c, "target"))
    BY <1>3 DEF Carried
  <2>6. /\ c.next > 1 => c.actorRole \in w.actor
        /\ c.next > 2 => c.targetRole \in w.target /\ (w.sole => c.targetRole = "owner")
        /\ c.next > 3 => /\ c.actorRole \in Managers /\ c.role # "owner" /\ ~w.sole
                         /\ c.actorRole = "admin" => c.targetRole \notin Managers /\ c.role # "admin"
    BY <1>2, <1>11, <2>1 DEF Shown
  <2>7. ASSUME At(c, "member") PROVE d.actorRole \in w.actor
    <3>1. /\ IsActive(c.org, c.actor) /\ c.org \in Orgs /\ c.actor \in Users
          /\ d.actorRole = member[c.org][c.actor].role
      BY <1>3, <1>5, <2>7 DEF Found, Knows, Statements
    <3>2. d.actorRole \in Authority(c)
      <4>1. Subject(c) = c.org BY <2>1 DEF Subject, Changing
      <4> QED BY <1>16, <3>1, <4>1 DEF Authority
    <3> QED BY <1>4, <3>2, ViewIs
  <2>8. w.sole => Owners(c.org) = {c.user} BY <1>4, <2>1, ViewIs
  <2>9. ASSUME At(c, "target") PROVE d.targetRole \in w.target /\ (w.sole => d.targetRole = "owner")
    <3>1. IsActive(c.org, c.user) /\ d.targetRole = member[c.org][c.user].role BY <1>3, <2>9 DEF Found
    <3>2. d.targetRole = Rank(c.org, c.user) BY <3>1 DEF Rank
    <3>3. d.targetRole \in w.target BY <1>4, <2>1, <3>2, ViewIs
    <3>4. Owners(c.org) = {c.user} => member[c.org][c.user].role = "owner" BY DEF Owners
    <3> QED BY <2>8, <3>1, <3>3, <3>4
  <2>10. ASSUME At(c, "decide"), c.next = 3
         PROVE  /\ c.actorRole \in Managers /\ c.role # "owner" /\ ~w.sole
                /\ c.actorRole = "admin" => c.targetRole \notin Managers /\ c.role # "admin"
    <3> DEFINE n == Cardinality(Owners(c.org))
    <3>1. MemberRoleDecision(c.actorRole, c.targetRole, c.role, n) BY <1>3, <2>10 DEF Found
    <3>2. w.sole => n = 1 BY <2>8, FS_Singleton
    <3>3. w.sole => c.targetRole = "owner" BY <2>6, <2>10
    <3> HIDE DEF n
    <3> QED BY <3>1, <3>2, <3>3 DEF MemberRoleDecision
  <2>11. d.next > 1 => d.actorRole \in w.actor BY <1>14, <2>3, <2>4, <2>5, <2>6, <2>7
  <2>12. d.next > 2 => d.targetRole \in w.target /\ (w.sole => d.targetRole = "owner")
    BY <1>14, <2>3, <2>4, <2>5, <2>6, <2>9
  <2>13. d.next > 3 => c.next >= 3 /\ d.actorRole = c.actorRole /\ d.targetRole = c.targetRole
    BY <1>14, <2>3, <2>4, <2>5
  <2>14. c.next >= 3 => c.next = 3 \/ c.next > 3 BY <1>14
  <2> QED BY <1>12, <2>4, <2>6, <2>10, <2>11, <2>12, <2>13, <2>14
<1>20. ASSUME At(c, "limit"), c.op \in {"AddMember", "Create", "AcceptInvite", "Signup"} PROVE w.room
  <2>1. scene.max = 0 \/ Cardinality(Seats(c.user)) < scene.max BY <1>3, <1>20 DEF Found
  <2> QED BY <1>4, <1>20, <2>1, ViewIs
<1>21. ASSUME d.op = "Create", d.next > 1 PROVE w.room
  <2>1. c.next = 1 => At(c, "limit") BY <1>12, <1>14, <1>21 DEF Station, On, At
  <2>2. c.next > 1 => w.room BY <1>2, <1>11, <1>12, <1>21 DEF Shown
  <2> QED BY <1>12, <1>14, <1>20, <1>21, <2>1, <2>2
<1>22. ~At(c, "deleteAccount")
  <2>1. ASSUME At(c, "deleteAccount") PROVE c.op = "Signup" /\ c.next = 1 BY <1>1, <2>1, Where
  <2> QED BY <1>1, <1>8, <2>1, SignupIs DEF Flow, OnRoute, Reads, At
<1>23. ASSUME d.op = "Signup", d.inv = NoInvite, d.next > 1 PROVE w.room
  <2>1. c.next = 1 => At(c, "limit") BY <1>12, <1>14, <1>22, <1>23 DEF Station, On, At
  <2>2. c.next > 1 => w.room BY <1>2, <1>11, <1>12, <1>23 DEF Shown
  <2> QED BY <1>12, <1>14, <1>20, <1>23, <2>1, <2>2
<1>24. ASSUME Joins(d), d.next > 2 PROVE w.room
  <2>1. c.next = 2 => At(c, "limit") BY <1>13, <1>14, <1>24 DEF Station, On, At, Joins
  <2>2. c.next > 2 => w.room BY <1>2, <1>11, <1>13, <1>24 DEF Shown
  <2>3. ~At(c, "lookup") /\ ~At(c, "existing") /\ (At(c, "enter") => c.next > 5)
    BY <1>1, <1>13, <1>24, Where DEF Joins, HostAdding
  <2>4. c.next >= 2 BY <1>14, <1>17, <1>24, <2>3
  <2>5. c.op \in {"AcceptInvite", "Signup"} BY <1>13, <1>24 DEF Joins
  <2> QED BY <1>14, <1>20, <2>1, <2>2, <2>4, <2>5
<1>25. ASSUME d.op = "AddMember", d.next > 3 PROVE w.room \/ w.target # {"none"}
  <2>1. c.next > 3 => s.room \/ s.target # {"none"} BY <1>2, <1>12, <1>25 DEF Shown
  <2>2. \/ c.next = 1
        \/ c.next = 2 /\ At(c, "existing")
        \/ c.next = 3 /\ At(c, "limit")
        \/ c.next = 4
    BY <1>12, <1>14, <1>25 DEF Station, On, At
  <2>3. c.org \in Orgs /\ c.user \in Users
    BY <1>8, <1>12, <1>14, <1>25 DEF Needed, HostAdding
  <2>4. Rank(c.org, c.user) \in View(c).target BY <1>12, <1>25, ViewIs
  <2>5. CASE c.next = 1
    <3>1. ~At(c, "lookup") /\ ~At(c, "existing") /\ ~At(c, "enter")
      BY <1>12, <1>14, <1>25, <2>5 DEF Station, On, At
    <3> QED BY <1>17, <1>25, <2>5, <3>1
  <2>6. CASE c.next = 2 /\ At(c, "existing")
    <3>1. member[c.org][c.user].status = "none" => d.next = 3 BY <1>3, <2>6 DEF Carried
    <3>2. member[c.org][c.user].status # "none" BY <1>25, <3>1
    <3>3. Rank(c.org, c.user) # "none" BY <1>9, <2>3, <3>2, RolesAssumption DEF Rank, Membership, Roles, DefaultRoles
    <3> QED BY <1>4, <2>4, <3>3
  <2>7. CASE c.next = 3 /\ At(c, "limit") BY <1>12, <1>20, <1>25, <2>7
  <2>8. CASE c.next = 4
    <3>1. s.target \in SUBSET (Roles \cup {"none", "removed"}) BY <1>6 DEF Seen
    <3>2. Rank(c.org, c.user) \in s.target BY <1>2, <2>4 DEF Current
    <3> QED BY <1>11, <2>1, <2>8, <3>2
  <2> QED BY <2>2, <2>5, <2>6, <2>7, <2>8
<1> QED BY <1>18, <1>19, <1>21, <1>23, <1>24, <1>25 DEF Shown, d

\* The organization a call touches is fixed when it arrives.
LEMMA SubjectStays ==
    ASSUME Inv, Step, NEW r \in Requests
    PROVE  Foreign(call[r])' <=> Foreign(call'[r])
<1> DEFINE c == call[r]
           d == call'[r]
           i == d.inv
<1>1. InvitesKept BY StepRows
<1>2. c \in Call /\ Flow(c) /\ (c.op = "RevokeInvite" => inv[c.inv].state # "none") BY CallIs DEF Inv, InvitedOK
<1>3. d.op = "RevokeInvite" => inv'[i].org = inv[i].org
  <2>1. ASSUME d.op = "RevokeInvite", c.op = "RevokeInvite", c.inv = i PROVE inv'[i].org = inv[i].org
    <3>1. i \in Invites BY <1>2, <2>1 DEF Flow, Blank, Needed
    <3> QED BY <1>1, <1>2, <2>1, <3>1 DEF InvitesKept
  <2>2. CASE d = c BY <2>1, <2>2
  <2>3. CASE Begins(r) BY <2>3 DEF Begins
  <2>4. CASE Moves(r)
    <3>1. CASE d = Blank BY <3>1 DEF Blank
    <3>2. CASE c.op = "Signup" /\ d = Withdrawn(c) BY <1>2, <3>2 DEF Withdrawn, Call
    <3>3. CASE Further(c, d) BY <2>1, <3>3 DEF Further, Same
    <3> QED BY <2>4, <3>1, <3>2, <3>3 DEF Moves, Follows
  <2> QED BY <2>2, <2>3, <2>4, StepTurns DEF Turns
<1> QED BY <1>3 DEF Foreign, Subject

LEMMA KnownNext == ASSUME Known, [Next]_vars PROVE Known'
<1>0. Inv BY DEF Known
<1>1. CASE Next
  <2>1. Step /\ UNCHANGED scene /\ History BY <1>1 DEF Next
  <2>2. ASSUME NEW r \in Requests, call'[r] # Blank PROVE Shown(call'[r], seen'[r])
    <3>1. seen'[r] \in Seen /\ seen[r] \in Seen BY <1>0, <2>1, SeenNext DEF Inv, TypeOK
    <3>2. call[r] # Blank => /\ seen[r].actor \subseteq seen'[r].actor /\ seen[r].target \subseteq seen'[r].target
                             /\ (seen'[r].sole => seen[r].sole) /\ (seen[r].room => seen'[r].room)
      BY <1>0, <2>1, <2>2, SeenGrows
    <3>3. CASE call'[r] = call[r]
      <4> DEFINE c == call[r]
                 w == seen'[r]
                 s == seen[r]
      <4>1. Shown(c, s) BY <2>2, <3>3 DEF Known
      <4>2. /\ s.actor \subseteq w.actor /\ s.target \subseteq w.target
            /\ (w.sole => s.sole) /\ (s.room => w.room)
        BY <2>2, <3>2, <3>3
      <4>3. w.target \in SUBSET (Roles \cup {"none", "removed"}) BY <3>1 DEF Seen
      <4>4. Current(c, s) BY <2>2, <3>3 DEF Known
      <4>5. c.op = "AddMember" => Rank(c.org, c.user) \in s.target BY <4>4, ViewIs DEF Current
      <4> HIDE DEF c, s, w
      <4>6. c.op = "AddMember" /\ s.target # {"none"} => w.target # {"none"}
        BY <4>2, <4>5
      <4>7. Shown(c, w) BY <4>1, <4>2, <4>6 DEF Shown
      <4> QED BY <3>3, <4>7 DEF c, w
    <3>4. CASE Request(r)
      <4>1. call'[r].next = 1 BY <1>0, <3>4, RequestBegins DEF Begins, Fresh
      <4> QED BY <4>1 DEF Shown
    <3>5. CASE Statement(r) /\ ~Goes(r)
      <4>1. call'[r] = Withdrawn(call[r]) BY <2>2, <3>5 DEF Goes
      <4>2. call'[r].next = 1 BY <1>0, <4>1 DEF Withdrawn, Inv, TypeOK, Call
      <4> QED BY <4>2 DEF Shown
    <3>6. CASE Statement(r) /\ Goes(r)
      <4>1. call[r] # Blank BY <1>0, <3>6, StatementMoves DEF Moves
      <4> QED BY <3>1, <3>2, <3>6, <4>1, ShownStatement
    <3> QED BY <1>0, <2>1, <3>3, <3>4, <3>5, <3>6, StepTurns DEF Turns
  <2>3. \A r \in Requests : call'[r] # Blank => Current(call[r], seen[r])' BY <1>0, <2>1, SeenGrows
  <2>4. Inv' BY <1>0, <1>1, InvNext
  <2>5. \A r \in Requests : Foreign(call[r])' <=> Foreign(call'[r]) BY <1>0, <2>1, SubjectStays
  <2>6. ASSUME NEW r \in Requests, call'[r] # Blank PROVE Shown(call[r], seen[r])'
    <3>1. Shown(call'[r], seen'[r]) BY <2>2, <2>6
    <3> QED BY <2>5, <3>1 DEF Shown
  <2> QED BY <2>3, <2>4, <2>6 DEF Known
<1>2. CASE UNCHANGED vars
  <2>1. Inv' BY <1>0, <1>2, InvNext
  <2>2. \A r \in Requests : call[r] # Blank => Current(call[r], seen[r])'
    <3>1. \A o, u : IsActive(o, u)' = IsActive(o, u) /\ Rank(o, u)' = Rank(o, u)
      BY <1>2 DEF vars, rows, Rank, IsActive
    <3>2. \A o : Owners(o)' = Owners(o) BY <1>2, <3>1 DEF vars, rows, Owners
    <3>3. \A u : Seats(u)' = Seats(u) BY <3>1 DEF Seats
    <3>4. \A r \in Requests : Authority(call[r])' = Authority(call[r])
      BY <1>2, <3>1 DEF vars, rows, Authority, Subject
    <3>5. \A r \in Requests : View(call[r])' = View(call[r])
      BY <1>2, <3>1, <3>2, <3>3, <3>4 DEF vars, View
    <3> QED BY <1>2, <3>5 DEF vars, Known, Current
  <2>3. \A r \in Requests : call[r] # Blank => Shown(call[r], seen[r])'
    BY <1>2 DEF vars, rows, Known, Shown, Joins, Foreign, Subject
  <2> QED BY <1>2, <2>1, <2>2, <2>3 DEF vars, Known
<1> QED BY <1>1, <1>2

LEMMA KnownInit == ASSUME Init PROVE Known
<1>1. \A r \in Requests : call[r] = Blank BY DEF Init
<1> QED BY <1>1, InitOK DEF Known

\* A call that moved by a statement of its own.
LEMMA Mover ==
    ASSUME Inv, Step, NEW r \in Requests, call'[r] # call[r], call[r] # Blank
    PROVE  Statement(r)
<1>1. ASSUME Request(r) PROVE FALSE BY <1>1, RequestBegins DEF Begins
<1> QED BY <1>1, StepTurns DEF Turns

\* What writes a row of an organization.
LEMMA Writers ==
    ASSUME Inv, NEW r \in Requests, Statement(r),
           <<details, catalog, member, home, inv, active>>' # <<details, catalog, member, home, inv, active>>
    PROVE  \E s \in {"changeRole", "remove", "add", "seed", "extra", "newRole", "invite", "accept",
                     "revoke", "switch", "newUnit", "dropUnit", "patch"} : Now(r, s)
BY DEF Statement, ReadMember, RequireRole, ReadTarget, Decide,
     HasOrgRole, UpdateMembershipRole, RemoveMembership, GetMembership, CheckMembershipLimit, AddMembership,
     Lookup, InsertOrganization, SeedDefaultRoles, SeedExtraRoles, CreateRole, CreateInvitation,
     ReadInvitation, DepartmentExists, LevelExists, AcceptInvitation, OrganizationOf, RevokeInvitation,
     SetActiveOrganization, Enter, CreateUnit, DeleteUnit, UpdateDetails, ReadList, DeleteAccount, Fail, rows

LEMMA ActingShown ==
    ASSUME Known, Step, NEW r \in Requests, Acts(r), call[r].op \in Guarded, ~Foreign(call[r])
    PROVE  seen[r].actor \cap Needs(call[r].op) # {}
<1> DEFINE c == call[r]
<1>0. Inv BY DEF Known
<1>1. c # Blank BY DEF Blank, Guarded, ByManagers, ByMembers, ByInvited
<1>2. Statement(r) BY <1>0, <1>1, Mover DEF Acts
<1>3. PICK s \in {"changeRole", "remove", "add", "seed", "extra", "newRole", "invite", "accept", "revoke",
                  "switch", "newUnit", "dropUnit", "patch", "read", "orgOf"} : Now(r, s)
  BY <1>0, <1>2, Writers DEF Acts
<1>4. s \in Statements BY DEF Statements
<1>5. At(c, s) /\ c \in Call /\ Flow(c) /\ c.op # "none" BY <1>0, <1>3, <1>4, Knowing
<1>6. Shown(c, seen[r]) BY <1>1 DEF Known
<1>7. c.op \in Guarded OBVIOUS
<1>8. c.op \in Guarded \ Changing => c.next > 1 \/ At(c, "member") \/ At(c, "admin") \/ At(c, "owner") \/ At(c, "token")
  BY <1>0, <1>1, FirstChecks
<1> HIDE DEF c
<1>9. CASE c.op \in Changing
  <2>1. c.next > 3 BY <1>3, <1>5, <1>9, Stations DEF Station, On, At, Changing
  <2>2. c.actorRole \in seen[r].actor /\ c.actorRole \in Managers
    <3>1. c.next > 1 BY <1>5, <2>1 DEF Call
    <3> QED BY <1>6, <1>9, <2>1, <3>1 DEF Shown
  <2>3. Needs(c.op) = Managers BY <1>9, NeedsIs DEF Changing, ByManagers
  <2> QED BY <2>2, <2>3 DEF c
<1>10. CASE c.op \in Guarded \ Changing
  <2>1. c.next > 1 BY <1>3, <1>5, <1>8, <1>10 DEF At
  <2> QED BY <1>6, <1>10, <2>1 DEF Shown, c
<1> QED BY <1>7, <1>9, <1>10

\* Whatever other calls do between a call's check and its write, a user changes or is
\* shown the organization the call names only on an authority held there at some moment
\* of the call.  Revoking the invitation of another organization is left out.
THEOREM ActsOnAuthority == Spec => AuthorityHeld
<1> DEFINE Held == \A r \in Requests :
                      Acts(r) /\ call[r].op \in Guarded /\ ~Foreign(call[r]) => seen[r].actor \cap Needs(call[r].op) # {}
<1>1. Init => Known BY KnownInit
<1>2. Known /\ [Next]_vars => Known' BY KnownNext
<1>3. Known /\ [Next]_vars => [Held]_vars
  <2>1. ASSUME Known, Next PROVE Held BY <2>1, ActingShown DEF Next
  <2> QED BY <2>1
<1> QED BY <1>1, <1>2, <1>3, PTL DEF Spec, AuthorityHeld

LEMMA ChangeShown ==
    ASSUME Known, Step, NEW r \in Requests, Changes(r)
    PROVE  /\ call[r].role # "owner" /\ ~seen[r].sole
           /\ "owner" \notin seen[r].actor => ~(seen[r].target \subseteq Managers) /\ call[r].role # "admin"
<1> DEFINE c == call[r]
           w == seen[r]
<1>0. Inv BY DEF Known
<1>1. /\ c \in Call /\ Flow(c) /\ c # Blank /\ c.op # "none"
      /\ At(c, "changeRole") \/ At(c, "remove")
  BY <1>0, Knowing DEF Changes, Statements
<1>2. Shown(c, w) BY <1>1 DEF Known
<1> HIDE DEF c, w
<1>3. c.op \in Changing /\ c.next > 1 /\ c.next > 2 /\ c.next > 3 BY <1>1, Where DEF Changing
<1>4. /\ c.actorRole \in w.actor /\ c.targetRole \in w.target
      /\ c.actorRole \in Managers /\ c.role # "owner" /\ ~w.sole
      /\ c.actorRole = "admin" => c.targetRole \notin Managers /\ c.role # "admin"
  BY <1>2, <1>3 DEF Shown
<1> QED BY <1>4 DEF Managers, c, w

\* Nobody changes a member above his own rank: the decision is taken on two roles that
\* were read one after the other, but both were true during the call.
THEOREM RanksAreRespected == Spec => RankRespected
<1> DEFINE Respected == \A r \in Requests :
                           Changes(r) =>
                               /\ call[r].role # "owner"
                               /\ "owner" \notin seen[r].actor =>
                                     /\ ~(seen[r].target \subseteq Managers)
                                     /\ call[r].role # "admin"
<1>1. Init => Known BY KnownInit
<1>2. Known /\ [Next]_vars => Known' BY KnownNext
<1>3. Known /\ [Next]_vars => [Respected]_vars
  <2>1. ASSUME Known, Next PROVE Respected BY <2>1, ChangeShown DEF Next
  <2> QED BY <2>1
<1> QED BY <1>1, <1>2, <1>3, PTL DEF Spec, RankRespected

\* A change or removal of a member leaves alone whoever was the only owner from its
\* start to its write.  (An owner who accepts an invitation is another matter.)
THEOREM SoleOwnerStays == Spec => SoleOwnerKept
<1> DEFINE Kept == \A r \in Requests : Changes(r) => ~seen[r].sole
<1>1. Init => Known BY KnownInit
<1>2. Known /\ [Next]_vars => Known' BY KnownNext
<1>3. Known /\ [Next]_vars => [Kept]_vars
  <2>1. ASSUME Known, Next PROVE Kept BY <2>1, ChangeShown DEF Next
  <2> QED BY <2>1
<1> QED BY <1>1, <1>2, <1>3, PTL DEF Spec, SoleOwnerKept

LEMMA AddShown ==
    ASSUME Known, NEW r \in Requests, Now(r, "add"),
           \/ call[r].op \in {"Create", "AcceptInvite", "Signup"}
           \/ call[r].op = "AddMember" /\ seen[r].target = {"none"}
    PROVE  seen[r].room
<1> DEFINE c == call[r]
           w == seen[r]
<1>0. Inv BY DEF Known
<1>1. c \in Call /\ Flow(c) /\ c # Blank /\ c.op # "none" /\ At(c, "add")
  BY <1>0, Knowing DEF Statements
<1>2. Shown(c, w) BY <1>1 DEF Known
<1>3. c.op \in {"Create", "AcceptInvite", "Signup"} \/ (c.op = "AddMember" /\ w.target = {"none"}) OBVIOUS
<1> HIDE DEF c, w
<1>4. \/ c.op = "AddMember" /\ c.next > 3
      \/ (Founds(c) \/ Joins(c) \/ c.op \in HostAdding) /\ c.next > 2 /\ c.next > 1
  BY <1>1, Where DEF HostAdding
<1>5. c.op = "AddMember" => c.next = 4 BY <1>1, Where DEF Founds, Joins
<1> QED BY <1>2, <1>3, <1>4, <1>5 DEF Shown, Founds, Joins, HostAdding, w

\* A membership limit is looked at before a user is added: there was a free seat at some
\* moment of the call.  (Two calls may take the same one: no statement excludes that.)
THEOREM SeatWasFree == Spec => SeatAvailable
<1> DEFINE Free == \A r \in Requests :
                      LET c == call[r]
                      IN  /\ Now(r, "add") /\ call'[r] # c /\ member' # member
                          /\ \/ c.op \in {"Create", "AcceptInvite", "Signup"}
                             \/ c.op = "AddMember" /\ seen[r].target = {"none"}
                          => seen[r].room
<1>1. Init => Known BY KnownInit
<1>2. Known /\ [Next]_vars => Known' BY KnownNext
<1>3. Known /\ [Next]_vars => [Free]_vars
  <2>1. ASSUME Known, Next PROVE Free BY <2>1, AddShown DEF Next
  <2> QED BY <2>1
<1> QED BY <1>1, <1>2, <1>3, PTL DEF Spec, SeatAvailable

-----------------------------------------------------------------------------
\* Invitations.  Where an accept is, by its count of statements.
LEMMA Halves ==
    ASSUME NEW c \in Call, Flow(c), NEW i \in Invites
    PROVE  /\ Half(c, i) <=> /\ c.inv = i /\ c.op \in {"AcceptInvite", "Signup"}
                             /\ \E s \in {"limit", "department", "level", "add", "accept"} : At(c, s)
           /\ Last(c, i) <=> c.inv = i /\ c.op \in {"AcceptInvite", "Signup"} /\ At(c, "orgOf")
<1>1. CASE c.inv = i /\ c.op \in {"AcceptInvite", "Signup"}
  <2>1. Joins(c) /\ c.inv # NoInvite BY <1>1, NullAssumption DEF Joins
  <2>2. Station(c) BY <1>1, Stations
  <2>3. \/ On(c, 1, "token") \/ On(c, 2, "limit") \/ On(c, 3, "department") \/ On(c, 4, "level")
        \/ On(c, 5, "add") \/ On(c, 6, "accept") \/ On(c, 7, "orgOf") \/ On(c, 8, "enter")
        \/ On(c, 9, "switch") \/ On(c, 1, "deleteAccount")
    BY <1>1, <2>1, <2>2 DEF Station
  <2> QED BY <1>1, <2>1, <2>3 DEF On, At, Half, Last
<1>2. CASE ~(c.inv = i /\ c.op \in {"AcceptInvite", "Signup"}) BY <1>2 DEF Half, Last, Joins
<1> QED BY <1>1, <1>2

\* The grant an invitation stands for.
Grades ==
    /\ grantOf = [i \in Invites |-> grantOf[i]]
    /\ \A i \in Invites :
          /\ inv[i].state \in {"none", "open"} => grantOf[i] = inv[i].state
          /\ inv[i].state = "lapsed" /\ (\E r \in Requests : Half(call[r], i)) => grantOf[i] = "open"
          /\ inv[i].state = "lapsed" /\ (\A r \in Requests : ~Half(call[r], i)) => grantOf[i] = "dead"
          /\ inv[i].state = "revoked" => grantOf[i] = "dead"
          /\ inv[i].state = "accepted" =>
                /\ answered[i] > 0 => grantOf[i] = "done"
                /\ answered[i] = 0 /\ (\E r \in Requests : Last(call[r], i)) => grantOf[i] = "held"
                /\ answered[i] = 0 /\ (\A r \in Requests : ~Last(call[r], i)) => grantOf[i] = "dead"

LEMMA GradesOK == Granted => Grades
<1> SUFFICES ASSUME Granted PROVE Grades OBVIOUS
<1>1. \A r \in Requests : call[r] \in Call /\ Flow(call[r]) BY DEF Granted, Inv, TypeOK
<1>2. ASSUME NEW i \in Invites
      PROVE  /\ Reading(i) <=> \E r \in Requests : Half(call[r], i)
             /\ Joining(i) <=> \E r \in Requests : Last(call[r], i)
  BY <1>1, Halves DEF Reading, Joining, InFlight, Now, At
<1>3. \A i \in Invites : answered[i] \in Nat BY DEF Granted, Inv, TypeOK
<1>4. \A i \in Invites : inv[i].state # "accepted" => answered[i] = 0 BY DEF Granted, GrantOK
<1>5. grantOf = [i \in Invites |-> grantOf[i]] BY DEF grantOf
<1>6. \A i \in Invites :
         grantOf[i] = IF inv[i].state \in {"none", "open"} THEN inv[i].state
                      ELSE IF answered[i] > 0 THEN "done"
                      ELSE IF inv[i].state = "lapsed" /\ Reading(i) THEN "open"
                      ELSE IF inv[i].state = "accepted" /\ Joining(i) THEN "held"
                      ELSE "dead"
  BY DEF grantOf
<1> QED BY <1>2, <1>3, <1>4, <1>5, <1>6 DEF Grades

\* What the history counts.
LEMMA AnswersAre ==
    ASSUME Inv, History, NEW i \in Invites
    PROVE  /\ UNCHANGED call => answered'[i] = answered[i]
           /\ \A r \in Requests : Turns(r) =>
                 answered'[i] = IF Last(call[r], i) /\ call'[r].route # Withdrawal
                                THEN answered[i] + 1 ELSE answered[i]
<1> DEFINE T == {r \in InFlight(i) : Now(r, "orgOf") /\ call'[r] # call[r] /\ call'[r].route # Withdrawal}
<1>1. answered'[i] = answered[i] + Cardinality(T) /\ answered[i] \in Nat BY DEF History, Inv, TypeOK
<1>2. \A r \in Requests : r \in InFlight(i) /\ Now(r, "orgOf") <=> Last(call[r], i)
  BY CallIs, Halves DEF InFlight, Now, At
<1>3. T = {r \in Requests : Last(call[r], i) /\ call'[r] # call[r] /\ call'[r].route # Withdrawal}
  BY <1>2 DEF InFlight
<1> HIDE DEF T
<1>4. Cardinality({}) = 0 /\ \A r : Cardinality({r}) = 1 BY FS_EmptySet, FS_Singleton
<1>5. UNCHANGED call => T = {} BY <1>3
<1>6. ASSUME NEW r \in Requests, Turns(r)
      PROVE  T = IF Last(call[r], i) /\ call'[r].route # Withdrawal THEN {r} ELSE {}
  <2>1. T \subseteq {r} BY <1>3, <1>6 DEF Turns
  <2>2. ASSUME Last(call[r], i) PROVE call'[r] # call[r]
    <3>1. call[r] # Blank /\ call[r].next = 7 /\ call[r] \in Call BY <2>2, CallIs DEF Last, Blank
    <3>2. Follows(call[r], call'[r]) BY <1>6, <3>1 DEF Turns, Moves, Begins
    <3>3. Withdrawn(call[r]).next = 1 BY <3>1 DEF Withdrawn, Call
    <3> QED BY <3>1, <3>2, <3>3 DEF Follows, Further
  <2>3. r \in T <=> Last(call[r], i) /\ call'[r].route # Withdrawal BY <1>3, <2>2
  <2>4. CASE r \in T BY <2>1, <2>3, <2>4
  <2>5. CASE r \notin T BY <2>1, <2>3, <2>5
  <2> QED BY <2>4, <2>5
<1>7. UNCHANGED call => answered'[i] = answered[i] BY <1>1, <1>4, <1>5
<1>8. ASSUME NEW r \in Requests, Turns(r)
      PROVE  answered'[i] = IF Last(call[r], i) /\ call'[r].route # Withdrawal
                            THEN answered[i] + 1 ELSE answered[i]
  <2>1. CASE Last(call[r], i) /\ call'[r].route # Withdrawal BY <1>1, <1>4, <1>6, <1>8, <2>1
  <2>2. CASE ~(Last(call[r], i) /\ call'[r].route # Withdrawal)
    <3>1. T = {} BY <1>6, <1>8, <2>2
    <3>2. answered'[i] = answered[i] BY <1>1, <1>4, <3>1
    <3> QED BY <2>2, <3>2
  <2> QED BY <2>1, <2>2
<1> QED BY <1>7, <1>8

\* What a statement does with the invitations: nothing, except that an accept may begin
\* on an open one; it makes one; revokes one; or takes the one it has come with.
OnlyInv(i) == \A j \in Invites \ {i} : inv'[j] = inv[j]
Outside(c) == \A i \in Invites : ~Half(c, i) /\ ~Last(c, i)
Keeps(c, d) ==
    /\ inv' = inv
    /\ \A i \in Invites : ~Last(d, i) /\ (Half(d, i) => Half(c, i) \/ inv[i].state = "open")
Issues(c, d) ==
    /\ Outside(c) /\ Outside(d)
    /\ \E i \in Invites : inv[i].state = "none" /\ inv'[i].state = "open" /\ OnlyInv(i)
Revokes(c, d) ==
    /\ Outside(c) /\ Outside(d)
    /\ \E i \in Invites : inv[i].state \in {"open", "lapsed"} /\ inv'[i].state = "revoked" /\ OnlyInv(i)
Takes(c, d) ==
    \E i \in Invites : /\ Half(c, i) /\ Last(d, i)
                       /\ inv[i].state \in {"open", "lapsed"} /\ inv'[i].state = "accepted" /\ OnlyInv(i)

LEMMA JoinStation ==
    ASSUME NEW c \in Call, Flow(c), Joins(c)
    PROVE  \/ c.route = Withdrawal
           \/ /\ c.route \in {AcceptInvite, JoinOnSignup} /\ Len(c.route) \in {7, 9}
              /\ \/ On(c, 1, "token") \/ On(c, 2, "limit") \/ On(c, 3, "department") \/ On(c, 4, "level")
                 \/ On(c, 5, "add") \/ On(c, 6, "accept") \/ On(c, 7, "orgOf") \/ On(c, 8, "enter")
                 \/ On(c, 9, "switch")
<1>1. Station(c) BY Stations DEF Joins
<1>2. c.route = Withdrawal \/ c.route \in {AcceptInvite, JoinOnSignup} BY DEF Flow, OnRoute, Joins, Blank
<1>3. Len(AcceptInvite) = 7 /\ Len(JoinOnSignup) = 9 BY SignupIs DEF AcceptInvite, Reads
<1>4. AcceptInvite[1] = "token" /\ JoinOnSignup[1] = "token" BY SignupIs DEF AcceptInvite, Reads
<1>5. c.route # Withdrawal => ~On(c, 1, "deleteAccount") BY <1>2, <1>4 DEF On
<1>6. \/ On(c, 1, "token") \/ On(c, 2, "limit") \/ On(c, 3, "department") \/ On(c, 4, "level")
      \/ On(c, 5, "add") \/ On(c, 6, "accept") \/ On(c, 7, "orgOf") \/ On(c, 8, "enter")
      \/ On(c, 9, "switch") \/ On(c, 1, "deleteAccount")
  <2>1. CASE c.op = "AcceptInvite" BY <1>1, <2>1 DEF Station
  <2>2. CASE c.op = "Signup" /\ c.inv # NoInvite BY <1>1, <2>2 DEF Station
  <2> QED BY <2>1, <2>2 DEF Joins
<1>7. c.route # Withdrawal => Len(c.route) \in {7, 9} BY <1>2, <1>3
<1> QED BY <1>2, <1>5, <1>6, <1>7

LEMMA StatementGrants ==
    ASSUME Inv, NEW r \in Requests, Statement(r)
    PROVE  \/ Keeps(call[r], call'[r]) \/ Issues(call[r], call'[r])
           \/ Revokes(call[r], call'[r]) \/ Takes(call[r], call'[r])
<1> DEFINE c == call[r]
           d == call'[r]
<1>0. Follows(c, d) /\ c # Blank BY StatementMoves DEF Moves
<1>1. c \in Call /\ Flow(c) /\ c.op # "none" /\ inv \in [Invites -> Invitation]
  BY <1>0, CallIs DEF Inv, TypeOK
<1>2. d = Blank \/ d = Withdrawn(c) \/ (Goes(r) /\ Further(c, d)) BY <1>0 DEF Follows, Goes
<1>3. Goes(r) => Found(c, d) /\ Carried(c, d) BY StatementFinds
<1>4. \A s \in Statements : Now(r, s) => At(c, s) /\ Knows(c) BY Knowing
<1>5. Proceed(r) => d = IF c.next < Len(c.route) THEN Skip(c) ELSE Blank BY DEF Proceed, Become, Inv, TypeOK
<1> HIDE DEF c, d
<1>6. /\ Blank.next = 1 /\ Withdrawn(c).next = 1 /\ c.next \in Nat \ {0}
      /\ Goes(r) => Further(c, d)
  BY <1>1, <1>2 DEF Blank, Withdrawn, Call, Goes, d, c
\* A call that is about no invitation stays so.
<1>7. ~Joins(c) => Outside(c) /\ Outside(d)
  <2>1. Joins(d) => d.next = 1 \/ Joins(c) BY <1>2, <1>6 DEF Further, Same, Joins
  <2> QED BY <2>1 DEF Outside, Half, Last
<1>8. ASSUME inv' = inv, d = Blank \/ d = Withdrawn(c) PROVE Keeps(c, d)
  <2>1. d.next = 1 BY <1>6, <1>8
  <2> QED BY <1>8, <2>1 DEF Keeps, Half, Last
<1>9. ASSUME inv' = inv, Goes(r) PROVE Keeps(c, d)
  <2>1. CASE Joins(c)
    <3>1. Same(c, d) /\ d.next > c.next /\ d.next \in 1..Len(c.route) BY <1>6, <1>9 DEF Further
    <3>2. c.route # Withdrawal
      <4>1. ASSUME c.route = Withdrawal PROVE FALSE
        <5>1. Len(c.route) = 1 BY <4>1 DEF Withdrawal
        <5>2. d.next \in 1..1 BY <3>1, <5>1
        <5> QED BY <1>6, <3>1, <5>2
      <4> QED BY <4>1
    <3>3. \/ On(c, 1, "token") \/ On(c, 2, "limit") \/ On(c, 3, "department") \/ On(c, 4, "level")
          \/ On(c, 5, "add") \/ On(c, 6, "accept") \/ On(c, 7, "orgOf") \/ On(c, 8, "enter")
          \/ On(c, 9, "switch")
      BY <1>1, <2>1, <3>2, JoinStation
    <3>4. On(c, 1, "token") => inv[c.inv].state = "open" BY <1>3, <1>9 DEF Found, On, At
    <3>5. ~On(c, 6, "accept")
      <4>1. c.inv \in Invites BY <1>1, <2>1 DEF Flow, Needed, Blank
      <4>2. On(c, 6, "accept") => /\ inv[c.inv].state \in {"open", "lapsed"}
                                  /\ inv' = [inv EXCEPT ![c.inv].state = "accepted"]
        BY <1>3, <1>9 DEF Found, On, At
      <4>3. On(c, 6, "accept") => inv'[c.inv].state = "accepted" BY <1>1, <4>1, <4>2 DEF Invitation
      <4> QED BY <1>9, <4>2, <4>3
    <3>6. c.next \in 2..5 => d.next = c.next + 1
      <4>1. c.next \in 2..5 => ~At(c, "lookup") /\ ~At(c, "existing") /\ ~At(c, "enter")
        BY <1>1, <3>3 DEF On, At
      <4> QED BY <1>3, <1>9, <4>1 DEF Carried
    <3>7. c.next = 1 => d.next = 2
      <4>1. c.next = 1 => ~At(c, "lookup") /\ ~At(c, "existing") /\ ~At(c, "enter")
        BY <1>1, <3>3 DEF On, At
      <4> QED BY <1>3, <1>9, <4>1 DEF Carried
    <3>8. \A i \in Invites : ~Last(d, i) /\ (Half(d, i) => Half(c, i) \/ inv[i].state = "open")
      <4>1. d.inv = c.inv BY <3>1 DEF Same
      <4>2. \/ c.next = 1 /\ d.next = 2 /\ inv[c.inv].state = "open"
            \/ c.next \in 2..5 /\ d.next \in 3..6
            \/ c.next >= 7 /\ d.next >= 8
        BY <3>1, <3>3, <3>4, <3>5, <3>6, <3>7 DEF On
      <4> QED BY <2>1, <4>1, <4>2 DEF Half, Last
    <3> QED BY <1>9, <3>8 DEF Keeps
  <2>2. CASE ~Joins(c) BY <1>7, <1>9, <2>2 DEF Keeps, Outside
  <2> QED BY <2>1, <2>2
<1>10. inv' = inv => Keeps(c, d) BY <1>2, <1>8, <1>9
<1>11. CASE CreateInvitation(r) /\ inv' # inv
  <2>1. ~Joins(c) BY <1>1, <1>4, <1>11, Where DEF CreateInvitation, Statements, Joins
  <2>2. \E i \in Invites : /\ inv[i].state = "none"
                           /\ inv' = [inv EXCEPT ![i] = [state |-> "open", org |-> c.org, role |-> c.role,
                                                         dept |-> c.dept, level |-> c.level]]
    BY <1>11 DEF CreateInvitation, c
  <2>3. \E i \in Invites : inv[i].state = "none" /\ inv'[i].state = "open" /\ OnlyInv(i)
    BY <1>1, <2>2 DEF OnlyInv
  <2>4. Issues(c, d) BY <1>7, <2>1, <2>3 DEF Issues
  <2> QED BY <2>4 DEF c, d
<1>12. CASE RevokeInvitation(r) /\ inv' # inv
  <2>1. ~Joins(c) /\ c.inv \in Invites
    BY <1>1, <1>4, <1>12, Where DEF RevokeInvitation, Statements, Joins, Knows
  <2>2. inv' = [inv EXCEPT ![c.inv].state = IF @ \in {"open", "lapsed"} THEN "revoked" ELSE @]
    BY <1>12 DEF RevokeInvitation, c
  <2>3. inv[c.inv] \in Invitation BY <1>1, <2>1
  <2>4. inv[c.inv].state \notin {"open", "lapsed"} => inv' = inv BY <1>1, <2>1, <2>2, <2>3 DEF Invitation
  <2>5. inv[c.inv].state \in {"open", "lapsed"} BY <1>12, <2>4
  <2>6. inv'[c.inv].state = "revoked" /\ OnlyInv(c.inv) BY <1>1, <2>1, <2>2, <2>3, <2>5 DEF OnlyInv, Invitation
  <2>7. Revokes(c, d) BY <1>7, <2>1, <2>5, <2>6 DEF Revokes
  <2> QED BY <2>7 DEF c, d
<1>13. CASE AcceptInvitation(r) /\ inv' # inv
  <2>1. At(c, "accept") /\ c.inv \in Invites /\ Joins(c) /\ c.next = 6
    BY <1>1, <1>4, <1>13, Where DEF AcceptInvitation, Statements, Knows
  <2>2. inv[c.inv].state \in {"open", "lapsed"} /\ inv' = [inv EXCEPT ![c.inv].state = "accepted"]
    BY <1>13 DEF AcceptInvitation, c
  <2>3. Proceed(r) BY <1>13, <2>2 DEF AcceptInvitation, Pass, c
  <2>4. Len(c.route) \in {7, 9}
    <3>1. c.route # Withdrawal BY <1>1, <2>1, Where DEF At
    <3> QED BY <1>1, <2>1, <3>1, JoinStation
  <2>5. d = Skip(c)
    <3> DEFINE n == Len(c.route)
    <3>1. d = IF c.next < n THEN Skip(c) ELSE Blank BY <1>5, <2>3
    <3>2. n \in {7, 9} BY <2>4
    <3> HIDE DEF n
    <3> QED BY <2>1, <3>1, <3>2
  <2>6. d.next = 7 /\ Joins(d) /\ d.inv = c.inv BY <1>1, <2>1, <2>5, SkipIs DEF Same, Joins
  <2>7. Half(c, c.inv) /\ Last(d, c.inv) BY <2>1, <2>6 DEF Half, Last
  <2>8. inv[c.inv] \in Invitation BY <1>1, <2>1
  <2>9. inv'[c.inv].state = "accepted" /\ OnlyInv(c.inv) BY <1>1, <2>1, <2>2, <2>8 DEF OnlyInv, Invitation
  <2>10. Takes(c, d) BY <2>1, <2>2, <2>7, <2>9 DEF Takes
  <2> QED BY <2>10 DEF c, d
<1>14. inv' # inv => CreateInvitation(r) \/ RevokeInvitation(r) \/ AcceptInvitation(r)
  BY DEF Statement, ReadMember, RequireRole, ReadTarget, Decide,
     HasOrgRole, UpdateMembershipRole, RemoveMembership, GetMembership, CheckMembershipLimit, AddMembership,
     Lookup, InsertOrganization, SeedDefaultRoles, SeedExtraRoles, CreateRole,
     ReadInvitation, DepartmentExists, LevelExists, OrganizationOf,
     SetActiveOrganization, Enter, CreateUnit, DeleteUnit, UpdateDetails, ReadList, DeleteAccount, Fail, rows
<1> QED BY <1>10, <1>11, <1>12, <1>13, <1>14 DEF c, d

\* A step is a turn of one call, or an invitation lapses.
Lapses == UNCHANGED call /\ \E i \in Invites : inv[i].state = "open" /\ inv'[i].state = "lapsed" /\ OnlyInv(i)
LEMMA StepKinds ==
    ASSUME Inv, Step
    PROVE  \/ \E r \in Requests : /\ Turns(r)
                                  /\ \/ Keeps(call[r], call'[r]) \/ Issues(call[r], call'[r])
                                     \/ Revokes(call[r], call'[r]) \/ Takes(call[r], call'[r])
           \/ Lapses
<1>1. ASSUME NEW r \in Requests, Request(r) PROVE Turns(r) /\ Keeps(call[r], call'[r])
  <2>1. Begins(r) BY <1>1, RequestBegins
  <2>2. Turns(r) BY <2>1 DEF Turns, Begins, Inv, TypeOK
  <2>3. call'[r].next = 1 /\ inv' = inv BY <2>1 DEF Begins, Fresh
  <2> QED BY <2>2, <2>3 DEF Keeps, Half, Last
<1>2. ASSUME NEW r \in Requests, Statement(r) PROVE Turns(r)
  BY <1>2, StatementMoves DEF Turns, Moves
<1>3. ASSUME NEW i \in Invites, Lapse(i) PROVE Lapses
  <2>1. inv[i] \in Invitation BY DEF Inv, TypeOK
  <2>2. inv[i].state = "open" /\ inv' = [inv EXCEPT ![i].state = "lapsed"] BY <1>3 DEF Lapse
  <2>3. inv'[i].state = "lapsed" /\ OnlyInv(i) BY <2>1, <2>2 DEF OnlyInv, Invitation, Inv, TypeOK
  <2> QED BY <1>3, <2>2, <2>3 DEF Lapses, Lapse
<1> QED BY <1>1, <1>2, <1>3, StatementGrants DEF Step

\* The call that takes an invitation is the only one that is told so, and once.
LEMMA GrantKept ==
    ASSUME Granted, Step, History, NEW i \in Invites
    PROVE  GrantOK(i)'
<1> DEFINE L(q) == Last(call[q], i)
           M(q) == Last(call'[q], i)
           s == inv[i].state
           t == inv'[i].state
<1>0. Inv /\ GrantOK(i) BY DEF Granted
<1>1. /\ s # "accepted" => answered[i] = 0 /\ \A r \in Requests : ~L(r)
      /\ \A r \in Requests : L(r) => answered[i] = 0
      /\ \A r, q \in Requests : L(r) /\ L(q) => r = q
  BY <1>0 DEF GrantOK
<1>2. GrantOK(i)' <=>
        /\ t # "accepted" => answered'[i] = 0 /\ \A r \in Requests : ~M(r)
        /\ \A r \in Requests : M(r) => answered'[i] = 0
        /\ \A r, q \in Requests : M(r) /\ M(q) => r = q
  BY DEF GrantOK
<1>3. CASE Lapses
  <2>1. t = s \/ (s = "open" /\ t = "lapsed") BY <1>3 DEF Lapses, OnlyInv
  <2>2. \A q \in Requests : M(q) = L(q) BY <1>3 DEF Lapses
  <2>3. answered'[i] = answered[i] BY <1>0, <1>3, AnswersAre DEF Lapses
  <2> HIDE DEF L, M, s, t
  <2> QED BY <1>1, <1>2, <2>1, <2>2, <2>3
<1>4. ASSUME NEW r \in Requests, Turns(r),
             \/ Keeps(call[r], call'[r]) \/ Issues(call[r], call'[r]) \/ Revokes(call[r], call'[r])
      PROVE  GrantOK(i)'
  <2>1. \A q \in Requests \ {r} : M(q) = L(q) BY <1>4 DEF Turns
  <2>2. t = s \/ (s \in {"none", "open", "lapsed"} /\ t \in {"open", "revoked"} /\ ~L(r))
    BY <1>4 DEF Keeps, Issues, Revokes, OnlyInv, Outside
  <2>3. ~M(r) BY <1>4 DEF Keeps, Issues, Revokes, Outside
  <2>4. L(r) \/ answered'[i] = answered[i] BY <1>0, <1>4, AnswersAre
  <2> HIDE DEF L, M, s, t
  <2>5. s # "accepted" => answered'[i] = 0 BY <1>1, <2>4
  <2>6. \A q \in Requests : M(q) => L(q) /\ ~L(r) BY <1>1, <2>1, <2>3
  <2>7. \A q \in Requests : M(q) => answered'[i] = 0 BY <1>1, <2>4, <2>6
  <2>8. t # "accepted" => s # "accepted" BY <2>2
  <2> QED BY <1>1, <1>2, <2>5, <2>6, <2>7, <2>8
<1>5. ASSUME NEW r \in Requests, Turns(r), Takes(call[r], call'[r]) PROVE GrantOK(i)'
  <2>1. PICK k \in Invites : /\ Half(call[r], k) /\ Last(call'[r], k)
                             /\ inv[k].state \in {"open", "lapsed"} /\ inv'[k].state = "accepted" /\ OnlyInv(k)
    BY <1>5 DEF Takes
  <2>2. \A q \in Requests \ {r} : M(q) = L(q) BY <1>5 DEF Turns
  <2>3. ~L(r) BY <2>1 DEF Half, Last
  <2>4. answered'[i] = answered[i] BY <1>0, <1>5, <2>3, AnswersAre
  <2>5. CASE i = k
    <3>1. s # "accepted" /\ t = "accepted" BY <2>1, <2>5
    <3> HIDE DEF L, M, s, t
    <3> QED BY <1>1, <1>2, <2>2, <2>4, <3>1
  <2>6. CASE i # k
    <3>1. t = s BY <2>1, <2>6 DEF OnlyInv
    <3>2. ~M(r) BY <2>1, <2>6 DEF Last
    <3> HIDE DEF L, M, s, t
    <3> QED BY <1>1, <1>2, <2>2, <2>4, <3>1, <3>2
  <2> QED BY <2>5, <2>6
<1> QED BY <1>0, <1>3, <1>4, <1>5, StepKinds

LEMMA GrantedNext == ASSUME Granted, [Next]_vars PROVE Granted'
<1>1. Inv' BY InvNext DEF Granted
<1>2. CASE Next
  <2>1. \A i \in Invites : GrantOK(i)' BY <1>2, GrantKept DEF Next
  <2> QED BY <1>1, <2>1 DEF Granted
<1>3. CASE UNCHANGED vars BY <1>1, <1>3 DEF vars, rows, Granted, GrantOK
<1> QED BY <1>2, <1>3

LEMMA GrantedInit == ASSUME Init PROVE Granted
<1>1. Inv BY InitOK
<1>2. \A i \in Invites : GrantOK(i) BY DEF Init, GrantOK, Last, Joins, Blank
<1> QED BY <1>1, <1>2 DEF Granted

\* A step of the grants: one of them is issued, taken, bears its fruit or dies.
LEMMA GrantMoves ==
    ASSUME grantOf = [i \in Invites |-> grantOf[i]], grantOf' = [i \in Invites |-> grantOf'[i]],
           answered \in [Invites -> Nat], answered' \in [Invites -> Nat],
           NEW k \in Invites, \A j \in Invites \ {k} : grantOf'[j] = grantOf[j] /\ answered'[j] = answered[j],
           \/ grantOf'[k] = grantOf[k] /\ answered'[k] = answered[k]
           \/ grantOf[k] = "none" /\ grantOf'[k] = "open" /\ answered'[k] = answered[k]
           \/ grantOf[k] = "open" /\ grantOf'[k] = "held" /\ answered'[k] = answered[k]
           \/ grantOf[k] = "held" /\ grantOf'[k] = "done" /\ answered'[k] = answered[k] + 1
           \/ grantOf[k] \in {"open", "held"} /\ grantOf'[k] = "dead" /\ answered'[k] = answered[k]
    PROVE  [Grant!Next]_(Grant!vars)
<1>1. answered'[k] = answered[k] => answered' = answered OBVIOUS
<1>2. \A x : grantOf'[k] = x => grantOf' = [grantOf EXCEPT ![k] = x] OBVIOUS
<1>3. CASE grantOf'[k] = grantOf[k] /\ answered'[k] = answered[k]
  <2>1. grantOf' = grantOf BY <1>3
  <2> QED BY <1>1, <1>3, <2>1 DEF Grant!vars
<1>4. CASE grantOf[k] = "none" /\ grantOf'[k] = "open" /\ answered'[k] = answered[k]
  <2>1. Grant!Issue(k) BY <1>1, <1>2, <1>4 DEF Grant!Issue
  <2> QED BY <2>1 DEF Grant!Next
<1>5. CASE grantOf[k] = "open" /\ grantOf'[k] = "held" /\ answered'[k] = answered[k]
  <2>1. Grant!Take(k) BY <1>1, <1>2, <1>5 DEF Grant!Take
  <2> QED BY <2>1 DEF Grant!Next
<1>6. CASE grantOf[k] = "held" /\ grantOf'[k] = "done" /\ answered'[k] = answered[k] + 1
  <2>1. answered' = [answered EXCEPT ![k] = @ + 1] BY <1>6
  <2>2. Grant!Bear(k) BY <1>2, <1>6, <2>1 DEF Grant!Bear
  <2> QED BY <2>2 DEF Grant!Next
<1>7. CASE grantOf[k] \in {"open", "held"} /\ grantOf'[k] = "dead" /\ answered'[k] = answered[k]
  <2>1. grantOf' = [g \in Invites |-> IF g \in {k} THEN "dead" ELSE grantOf[g]] BY <1>7
  <2>2. Grant!Die({k}) BY <1>1, <1>7, <2>1 DEF Grant!Die
  <2>3. {k} \in SUBSET Invites OBVIOUS
  <2> QED BY <2>2, <2>3 DEF Grant!Next
<1> QED BY <1>3, <1>4, <1>5, <1>6, <1>7

\* Every step of the organizations is one of the grants, or none.
LEMMA GrantStep ==
    ASSUME Granted, Granted', Grades, Grades', Step, History
    PROVE  [Grant!Next]_(Grant!vars)
<1>0. /\ Inv /\ \A i \in Invites : GrantOK(i)
      /\ inv \in [Invites -> Invitation]
      /\ answered \in [Invites -> Nat] /\ answered' \in [Invites -> Nat]
  BY DEF Granted, Inv, TypeOK
<1>1. /\ grantOf = [i \in Invites |-> grantOf[i]] /\ grantOf' = [i \in Invites |-> grantOf'[i]]
  BY DEF Grades
<1> DEFINE H(q, i) == Half(call[q], i)
           K(q, i) == Half(call'[q], i)
           L(q, i) == Last(call[q], i)
           M(q, i) == Last(call'[q], i)
           Grade(i) ==
              /\ inv[i].state \in {"none", "open"} => grantOf[i] = inv[i].state
              /\ inv[i].state = "lapsed" /\ (\E r \in Requests : H(r, i)) => grantOf[i] = "open"
              /\ inv[i].state = "lapsed" /\ (\A r \in Requests : ~H(r, i)) => grantOf[i] = "dead"
              /\ inv[i].state = "revoked" => grantOf[i] = "dead"
              /\ inv[i].state = "accepted" =>
                    /\ answered[i] > 0 => grantOf[i] = "done"
                    /\ answered[i] = 0 /\ (\E r \in Requests : L(r, i)) => grantOf[i] = "held"
                    /\ answered[i] = 0 /\ (\A r \in Requests : ~L(r, i)) => grantOf[i] = "dead"
           Regraded(i) ==
              /\ inv'[i].state \in {"none", "open"} => grantOf'[i] = inv'[i].state
              /\ inv'[i].state = "lapsed" /\ (\E r \in Requests : K(r, i)) => grantOf'[i] = "open"
              /\ inv'[i].state = "lapsed" /\ (\A r \in Requests : ~K(r, i)) => grantOf'[i] = "dead"
              /\ inv'[i].state = "revoked" => grantOf'[i] = "dead"
              /\ inv'[i].state = "accepted" =>
                    /\ answered'[i] > 0 => grantOf'[i] = "done"
                    /\ answered'[i] = 0 /\ (\E r \in Requests : M(r, i)) => grantOf'[i] = "held"
                    /\ answered'[i] = 0 /\ (\A r \in Requests : ~M(r, i)) => grantOf'[i] = "dead"
<1>2. \A i \in Invites : Grade(i) /\ Regraded(i) BY DEF Grades
<1>3. ASSUME NEW i \in Invites
      PROVE  /\ inv[i].state \in {"none", "open", "lapsed", "accepted", "revoked"}
             /\ inv[i].state # "accepted" => answered[i] = 0 /\ \A r \in Requests : ~L(r, i)
             /\ \A r \in Requests : L(r, i) => answered[i] = 0
             /\ \A r, q \in Requests : L(r, i) /\ L(q, i) => r = q
             /\ answered[i] \in Nat /\ answered'[i] \in Nat
  <2>1. GrantOK(i) /\ inv[i] \in Invitation BY <1>0
  <2> QED BY <1>0, <2>1 DEF GrantOK, Invitation
\* An invitation the step is not about, or whose accepts do not matter to its grant.
<1>4. ASSUME NEW i \in Invites, inv'[i] = inv[i], answered'[i] = answered[i],
             \A q \in Requests : M(q, i) <=> L(q, i),
             inv[i].state = "open" \/ \A q \in Requests : K(q, i) <=> H(q, i)
      PROVE  grantOf'[i] = grantOf[i]
  BY <1>2, <1>3, <1>4
<1>5. ASSUME NEW r \in Requests, Turns(r)
      PROVE  /\ \A q \in Requests \ {r}, i \in Invites : (K(q, i) <=> H(q, i)) /\ (M(q, i) <=> L(q, i))
             /\ \A i \in Invites :
                   answered'[i] = IF L(r, i) /\ call'[r].route # Withdrawal THEN answered[i] + 1 ELSE answered[i]
             /\ \A i, j \in Invites : (H(r, i) \/ L(r, i)) /\ (H(r, j) \/ L(r, j)) => i = j
             /\ \A i, j \in Invites : (K(r, i) \/ M(r, i)) /\ (K(r, j) \/ M(r, j)) => i = j
             /\ \A i \in Invites : ~(H(r, i) /\ L(r, i)) /\ ~(K(r, i) /\ M(r, i))
  <2>1. \A q \in Requests \ {r}, i \in Invites : (K(q, i) <=> H(q, i)) /\ (M(q, i) <=> L(q, i)) BY <1>5 DEF Turns
  <2>2. \A i \in Invites :
           answered'[i] = IF L(r, i) /\ call'[r].route # Withdrawal THEN answered[i] + 1 ELSE answered[i]
    BY <1>0, <1>5, AnswersAre
  <2> QED BY <2>1, <2>2 DEF Half, Last
<1>6. CASE Lapses
  <2>1. PICK k \in Invites : inv[k].state = "open" /\ inv'[k].state = "lapsed" /\ OnlyInv(k) BY <1>6 DEF Lapses
  <2>2. \A i \in Invites : answered'[i] = answered[i] BY <1>0, <1>6, AnswersAre DEF Lapses
  <2>3. \A q \in Requests, i \in Invites : (K(q, i) <=> H(q, i)) /\ (M(q, i) <=> L(q, i)) BY <1>6 DEF Lapses
  <2> HIDE DEF H, K, L, M
  <2>4. \A j \in Invites \ {k} : grantOf'[j] = grantOf[j] /\ answered'[j] = answered[j]
    BY <1>4, <2>1, <2>2, <2>3 DEF OnlyInv
  <2>5. grantOf[k] = "open" /\ grantOf'[k] \in {"open", "dead"} BY <1>2, <2>1
  <2> QED BY <1>0, <1>1, <2>2, <2>4, <2>5, GrantMoves
<1>7. ASSUME NEW r \in Requests, Turns(r), Keeps(call[r], call'[r]) PROVE [Grant!Next]_(Grant!vars)
  <2>1. inv' = inv /\ \A i \in Invites : ~M(r, i) /\ (K(r, i) => H(r, i) \/ inv[i].state = "open")
    BY <1>7 DEF Keeps
  <2> HIDE DEF H, K, L, M
  <2>2. ASSUME NEW i \in Invites, ~H(r, i), ~L(r, i) PROVE grantOf'[i] = grantOf[i] /\ answered'[i] = answered[i]
    <3>1. answered'[i] = answered[i] BY <1>5, <1>7, <2>2
    <3>2. \A q \in Requests : M(q, i) <=> L(q, i) BY <1>5, <1>7, <2>1, <2>2
    <3>3. inv[i].state = "open" \/ \A q \in Requests : K(q, i) <=> H(q, i) BY <1>5, <1>7, <2>1, <2>2
    <3> QED BY <1>4, <2>1, <3>1, <3>2, <3>3
  <2>3. CASE \A i \in Invites : ~H(r, i) /\ ~L(r, i)
    <3>1. grantOf' = grantOf BY <1>1, <2>2, <2>3
    <3>2. answered' = answered BY <1>0, <2>2, <2>3
    <3> QED BY <3>1, <3>2 DEF Grant!vars
  <2>4. ASSUME NEW k \in Invites, H(r, k) PROVE [Grant!Next]_(Grant!vars)
    <3>1. \A j \in Invites \ {k} : grantOf'[j] = grantOf[j] /\ answered'[j] = answered[j]
      BY <1>5, <1>7, <2>2, <2>4
    <3>2. ~L(r, k) BY <1>5, <1>7, <2>4
    <3>3. answered'[k] = answered[k] BY <1>5, <1>7, <3>2
    <3>4. \A q \in Requests : M(q, k) <=> L(q, k) BY <1>5, <1>7, <2>1, <3>2
    <3>5. CASE inv[k].state = "lapsed"
      <4>1. grantOf[k] = "open" /\ grantOf'[k] \in {"open", "dead"} BY <1>2, <2>1, <2>4, <3>5
      <4> QED BY <1>0, <1>1, <3>1, <3>3, <4>1, GrantMoves
    <3>6. CASE inv[k].state # "lapsed"
      <4>1. grantOf'[k] = grantOf[k] BY <1>2, <1>3, <2>1, <3>3, <3>4, <3>6
      <4> QED BY <1>0, <1>1, <3>1, <3>3, <4>1, GrantMoves
    <3> QED BY <3>5, <3>6
  <2>5. ASSUME NEW k \in Invites, L(r, k) PROVE [Grant!Next]_(Grant!vars)
    <3>1. \A j \in Invites \ {k} : grantOf'[j] = grantOf[j] /\ answered'[j] = answered[j]
      BY <1>5, <1>7, <2>2, <2>5
    <3>2. inv[k].state = "accepted" /\ answered[k] = 0 BY <1>3, <2>5
    <3>3. grantOf[k] = "held" BY <1>2, <2>5, <3>2
    <3>4. CASE call'[r].route # Withdrawal
      <4>1. answered'[k] = answered[k] + 1 BY <1>5, <1>7, <2>5, <3>4
      <4>2. grantOf'[k] = "done" BY <1>2, <2>1, <3>2, <4>1
      <4> QED BY <1>0, <1>1, <3>1, <3>3, <4>1, <4>2, GrantMoves
    <3>5. CASE call'[r].route = Withdrawal
      <4>1. answered'[k] = answered[k] BY <1>5, <1>7, <3>5
      <4>2. \A q \in Requests : ~M(q, k) BY <1>3, <1>5, <1>7, <2>1, <2>5
      <4>3. grantOf'[k] = "dead" BY <1>2, <2>1, <3>2, <4>1, <4>2
      <4> QED BY <1>0, <1>1, <3>1, <3>3, <4>1, <4>3, GrantMoves
    <3> QED BY <3>4, <3>5
  <2> QED BY <2>3, <2>4, <2>5
<1>8. ASSUME NEW r \in Requests, Turns(r), Issues(call[r], call'[r]) \/ Revokes(call[r], call'[r])
      PROVE  [Grant!Next]_(Grant!vars)
  <2>1. \A i \in Invites : ~H(r, i) /\ ~L(r, i) /\ ~K(r, i) /\ ~M(r, i)
    BY <1>8 DEF Issues, Revokes, Outside
  <2>2. PICK k \in Invites :
           /\ OnlyInv(k)
           /\ \/ inv[k].state = "none" /\ inv'[k].state = "open"
              \/ inv[k].state \in {"open", "lapsed"} /\ inv'[k].state = "revoked"
    BY <1>8 DEF Issues, Revokes
  <2> HIDE DEF H, K, L, M
  <2>3. \A i \in Invites : answered'[i] = answered[i] BY <1>5, <1>8, <2>1
  <2>4. \A q \in Requests, i \in Invites : (K(q, i) <=> H(q, i)) /\ (M(q, i) <=> L(q, i)) BY <1>5, <1>8, <2>1
  <2>5. \A j \in Invites \ {k} : grantOf'[j] = grantOf[j] /\ answered'[j] = answered[j]
    BY <1>4, <2>2, <2>3, <2>4 DEF OnlyInv
  <2>6. \/ grantOf[k] = "none" /\ grantOf'[k] = "open"
        \/ grantOf[k] \in {"open", "dead"} /\ grantOf'[k] = "dead"
    BY <1>2, <2>2
  <2> QED BY <1>0, <1>1, <2>3, <2>5, <2>6, GrantMoves
<1>9. ASSUME NEW r \in Requests, Turns(r), Takes(call[r], call'[r]) PROVE [Grant!Next]_(Grant!vars)
  <2>1. PICK k \in Invites :
           /\ H(r, k) /\ M(r, k) /\ OnlyInv(k)
           /\ inv[k].state \in {"open", "lapsed"} /\ inv'[k].state = "accepted"
    BY <1>9 DEF Takes
  <2> HIDE DEF H, K, L, M
  <2>2. \A i \in Invites \ {k} : ~H(r, i) /\ ~L(r, i) /\ ~K(r, i) /\ ~M(r, i) BY <1>5, <1>9, <2>1
  <2>3. \A i \in Invites : answered'[i] = answered[i] BY <1>5, <1>9, <2>1
  <2>4. \A j \in Invites \ {k} : grantOf'[j] = grantOf[j] /\ answered'[j] = answered[j]
    <3>1. \A j \in Invites \ {k}, q \in Requests : (K(q, j) <=> H(q, j)) /\ (M(q, j) <=> L(q, j))
      BY <1>5, <1>9, <2>2
    <3> QED BY <1>4, <2>1, <2>3, <3>1 DEF OnlyInv
  <2>5. grantOf[k] = "open" /\ grantOf'[k] = "held" BY <1>2, <1>3, <2>1, <2>3
  <2> QED BY <1>0, <1>1, <2>3, <2>4, <2>5, GrantMoves
<1> QED BY <1>0, <1>6, <1>7, <1>8, <1>9, StepKinds

\* However often an invitation is presented, at once or after one another, withdrawn or
\* failed half-way: one caller at most is told that it joined, and it is the one whose
\* statement took the invitation while it was open.
THEOREM InvitationsAreOneTime == Spec => InvitationIsOneTime
<1>1. Init => Granted BY GrantedInit
<1>2. Granted /\ [Next]_vars => Granted' BY GrantedNext
<1>3. Init => Grant!Init
  <2>1. ASSUME Init PROVE grantOf = [g \in Invites |-> "none"] /\ answered = [g \in Invites |-> 0]
    BY <2>1 DEF Init, grantOf, NoInvitation
  <2> QED BY <2>1 DEF Grant!Init
<1>4. Granted => Grades BY GradesOK
<1>5. Granted /\ Granted' /\ Grades /\ Grades' /\ [Next]_vars => [Grant!Next]_(Grant!vars)
  <2>1. ASSUME Granted, Granted', Grades, Grades', Next PROVE [Grant!Next]_(Grant!vars)
    BY <2>1, GrantStep DEF Next
  <2>2. ASSUME UNCHANGED vars PROVE UNCHANGED Grant!vars
    BY <2>2 DEF vars, rows, Grant!vars, grantOf, Reading, Joining, InFlight, Now
  <2> QED BY <2>1, <2>2
<1> QED BY <1>1, <1>2, <1>3, <1>4, <1>5, PTL DEF Spec, InvitationIsOneTime, Grant!Spec
=============================================================================
