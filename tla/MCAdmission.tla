---------------------------- MODULE MCAdmission ----------------------------
\* Small instances of Admission for TLC: each configuration is one workload.
EXTENDS Admission, TLC

CONSTANTS a1, a2, i1, t1

Server == [allowPasswords |-> FALSE, codeFlow |-> FALSE, publicSignup |-> TRUE,
           ops |-> {}, faults |-> {}, statuses |-> {}, addresses |-> {a1}, tokens |-> Tokens]

\* Two links of one address beside password signups: codes without password
\* accounts, and cookies with them; then codes of users who enrol a factor.
Clicks == [Server EXCEPT !.faults = {"onSignup", "wipe"}, !.statuses = {"active", "inactive"}]
Attendees == [Clicks EXCEPT !.codeFlow = TRUE, !.ops = {"signup", "click", "exchange"}]
Everybody == [Clicks EXCEPT !.allowPasswords = TRUE,
                            !.ops = {"signup", "click", "promote", "enrol"}]
Enrolled == [Server EXCEPT !.codeFlow = TRUE, !.ops = {"click", "exchange", "enrol", "promote"},
                           !.faults = {"onLogin", "pend", "code"}]

\* Two callbacks: one identity that changes its address, or two.
Wanderers == [Server EXCEPT !.ops = {"oauth"}, !.faults = {"lookup", "profile"},
                            !.addresses = {a1, a2}]
\* Callbacks for an account that is locked or enrols a factor, with failing hooks.
Guests == [Server EXCEPT !.ops = {"oauth", "enrol"}, !.statuses = {"active", "locked"},
                         !.faults = {"greet", "onLogin", "pend", "tenancy", "session"}]
\* Callbacks beside signups and links of the same address.
Newcomers == [Server EXCEPT !.ops = {"oauth", "signup"}, !.faults = {"onSignup", "profile"}]
Lookalikes == [Server EXCEPT !.ops = {"oauth", "click"}]
\* Redemptions beside signups, links and callbacks of the invited address.
Invited == [Server EXCEPT !.ops = {"redeem", "signup"}, !.faults = {"role", "session"}]
InvitedClicks == [Server EXCEPT !.ops = {"redeem", "click"}, !.faults = {"role", "onSignup"},
                                !.tokens = Links \cup {i1}]
InvitedGuests == [Server EXCEPT !.ops = {"redeem", "oauth"}, !.faults = {"role"},
                                !.tokens = {i1, t1}]

\* Statements whose errors the code ignores: rollbacks that leave rows behind, and
\* a status or factors that cannot be read.
Leftovers == [Server EXCEPT !.ops = {"signup", "click"}, !.faults = {"onSignup", "undo"}]
Unread == [Server EXCEPT !.ops = {"oauth", "enrol"}, !.statuses = {"active", "locked"},
                         !.faults = {"status", "second"}]

Workloads == {Attendees, Everybody, Enrolled, Wanderers, Guests, Newcomers, Lookalikes,
              Invited, InvitedClicks, InvitedGuests, Leftovers, Unread}

AllTokens == Links \cup Codes \cup States \cup Invites

\* Ids and links are minted at random and slots are alike.
Symmetry == Permutations(Users) \cup Permutations(SessionIds) \cup Permutations(Requests)
              \cup Permutations(Links)
=============================================================================
