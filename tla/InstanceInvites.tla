--------------------------- MODULE InstanceInvites ---------------------------
(***************************************************************************)
(* Generic invitations (InviteService): an invitation is redeemed by       *)
(* CreateAccount with a verified address, the assignment of its role, and, *)
(* last because the two databases share no transaction, the mark on the    *)
(* invitation; either failure takes the new account back.                  *)
(*                                                                         *)
(* AssignRoleByName writes a row of user_roles, which a rollback leaves    *)
(* behind for an id that is never used again; only its failure is kept.    *)
(***************************************************************************)
EXTENDS Accounts

CONSTANT Invites

VARIABLE invite \* invite[i]: the row of invitations

inviteVars == <<invite>>

Invite == [state: {"none", "open", "lapsed", "revoked", "redeemed"}, email: Addresses]

InvitesInit == invite = [i \in Invites |-> [state |-> "none", email |-> AnAddress]]

-----------------------------------------------------------------------------
IssueInvite(i, a) ==
    /\ "redeem" \in Ops /\ i \in config.tokens /\ invite[i].state = "none"
    /\ invite' = [invite EXCEPT ![i] = [state |-> "open", email |-> a]]
    /\ UNCHANGED <<rows, call>>

\* The clock: seven days.
InviteLapses(i) ==
    /\ invite[i].state = "open"
    /\ invite' = [invite EXCEPT ![i].state = "lapsed"]
    /\ UNCHANGED <<rows, call>>

\* UPDATE ... WHERE revoked_at IS NULL AND redeemed_at IS NULL: expired or not.
Pending(i) == invite[i].state \in {"open", "lapsed"}

RevokeInvite(i) ==
    /\ Pending(i)
    /\ invite' = [invite EXCEPT ![i].state = "revoked"]
    /\ UNCHANGED <<rows, call>>

Redeem(r, i) ==
    /\ Arrives(r, "redeem") /\ invite[i].state # "none"
    /\ Become(r, [Idle EXCEPT !.at = "validate", !.op = "redeem", !.path = "redeem",
                              !.token = i, !.email = invite[i].email])
    /\ UNCHANGED <<rows, inviteVars>>

\* The one statement that looks at the expiry.
Validate(r) ==
    /\ call[r].at = "validate"
    /\ Goto(r, IF invite[call[r].token].state = "open" THEN "taken" ELSE "refused")
    /\ UNCHANGED <<rows, inviteVars>>

AssignRole(r) ==
    /\ call[r].at = "role"
    /\ \E fails \in May("role") : Goto(r, IF fails THEN "lateCredential" ELSE Then(call[r]))
    /\ UNCHANGED <<rows, inviteVars>>

\* Mutant: the UPDATE names the invitation and nothing else.
MarkRedeemedAlways(r) ==
    /\ call[r].at = "redeem"
    /\ invite' = [invite EXCEPT ![call[r].token].state = "redeemed"]
    /\ Goto(r, Then(call[r]))
    /\ UNCHANGED rows
MarkRedeemed(r) ==
    /\ call[r].at = "redeem"
    /\ IF Pending(call[r].token)
       THEN /\ invite' = [invite EXCEPT ![call[r].token].state = "redeemed"]
            /\ Goto(r, Then(call[r]))
       ELSE Goto(r, "lateCredential") /\ UNCHANGED invite
    /\ UNCHANGED rows

Answer(r) ==
    /\ call[r].at = "answer"
    /\ Goto(r, Then(call[r]))
    /\ UNCHANGED <<rows, inviteVars>>

-----------------------------------------------------------------------------
InviteStep ==
    \/ \E i \in Invites :
          \/ \E a \in config.addresses : IssueInvite(i, a)
          \/ InviteLapses(i) \/ RevokeInvite(i)
    \/ \E r \in Requests :
          \/ \E i \in Invites : Redeem(r, i)
          \/ Validate(r) \/ AssignRole(r) \/ MarkRedeemed(r) \/ Answer(r)

InvitesTypeOK == invite \in [Invites -> Invite]
=============================================================================
