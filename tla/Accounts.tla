------------------------------ MODULE Accounts ------------------------------
(***************************************************************************)
(* The accounts of authpad: rows of users_auth with their credential,      *)
(* factors and sessions in the Auth database and their profile in the IdP  *)
(* database, the saga that creates one (AccountService.CreateAccount, with *)
(* its rollbacks), and the end every sign-in shares: session, second       *)
(* factor, hook.  MagicLink, OAuth and InstanceInvites extend it, and      *)
(* Admission runs them side by side.                                       *)
(*                                                                         *)
(* As in Sessions, every SQL statement is an autocommit statement, and a   *)
(* handler, call[r], takes one step per statement.  Sessions are reduced   *)
(* to whether they are usable; tokens and time limits are in Sessions.     *)
(* The signup is the public one: a session is asked for, and the address   *)
(* is not verified by an invitation.                                       *)
(***************************************************************************)
EXTENDS Naturals, FiniteSets, Sequences

CONSTANTS
    Addresses,              \* e-mail addresses, normalised
    Users, NoUser,          \* primary keys a creation may mint
    SessionIds, NoSession,
    Tokens, NoToken,        \* one-time tokens a caller may present
    Identities, NoIdentity, \* accounts at an OAuth provider
    Requests,               \* handler goroutines the server may be running
    Configs                 \* the workloads and configurations of this instance

VARIABLES
    config,     \* what this server was started with and what is asked of it
    user,       \* user[u]: the row of users_auth
    password,   \* users with a password credential
    factored,   \* users with a verified factor
    profile,    \* profile[u]: who inserted the row of users_profile
    staff,      \* users the staff classifier flags
    session,    \* session[s]: the row of sessions
    call        \* call[r]: the handler running in slot r

rows == <<user, password, factored, profile, staff, session>>
accountVars == <<config, rows, call>>

-----------------------------------------------------------------------------
FaultKinds == {"profile", "session", "onSignup", "onLogin", "wipe", "pend", "code",
               "lookup", "greet", "tenancy", "role", "second", "status", "undo"}

\* "inactive" stands for suspended and pending_deletion.
Statuses == {"active", "inactive", "locked"}

\* ops: what callers and hosts do; faults: which statements and hooks may fail;
\* tokens: those that may be issued.  config never changes.
Config == [allowPasswords: BOOLEAN, codeFlow: BOOLEAN, publicSignup: BOOLEAN,
           ops: SUBSET {"signup", "click", "exchange", "oauth", "redeem", "promote", "enrol"},
           faults: SUBSET FaultKinds, statuses: SUBSET Statuses, addresses: SUBSET Addresses,
           tokens: SUBSET Tokens]

ASSUME NullAssumption ==
    /\ NoUser \notin Users /\ NoSession \notin SessionIds
    /\ NoToken \notin Tokens /\ NoIdentity \notin Identities
ASSUME ConfigAssumption == Configs \subseteq Config
\* A server has finitely many calls under way, and some address to serve.
ASSUME InstanceAssumption == IsFiniteSet(Requests) /\ Addresses # {}

Ops == config.ops

\* "free" ids are not minted yet; a rollback leaves "gone".
User == [state: {"free", "row", "gone"}, email: Addresses,
         verified: BOOLEAN, status: Statuses]

Session == [state: {"free", "open", "pending", "revoked", "gone"},
            user: Users \cup {NoUser}, via: Tokens \cup {NoToken}]

\* The statements of a handler, in order, for each way it may go; a sign-in goes
\* on behind its session in SignInTail.
Routes == [
    signup    |-> <<"taken", "insert", "credential", "profile", "session", "onSignup", "ok">>,
    redeem    |-> <<"taken", "insert", "credential", "profile", "mark", "session",
                    "onSignup", "role", "redeem", "answer", "ok">>,
    newcomer  |-> <<"insert", "profile", "mark", "onSignup", "reread">>,
    known     |-> <<"sweep", "unpassword", "unfactor", "mark", "session">>,
    returning |-> <<"mark", "greet", "locked", "session">>,
    matched   |-> <<"link", "look", "profile", "greet", "mark", "locked", "session">>,
    fresh     |-> <<"insert", "mark", "profile", "link", "greet", "locked", "session">>]

Points == (UNION {{Routes[p][i] : i \in DOMAIN Routes[p]} : p \in DOMAIN Routes}) \cup
          {"idle", "unprofile", "uncredential", "unuser",
           "lateCredential", "lateUser", "lateProfile",
           "consume", "find", "again", "staff", "hasPassword", "state", "identify",
           "lookup", "match", "validate", "second", "pend", "onLogin", "code", "tenancy",
           "burn", "issue", "status", "revoke", "refused"}

Call == [at: Points, op: {"none", "signup", "click", "exchange", "oauth", "redeem"},
         path: DOMAIN Routes \cup {"none"}, email: Addresses,
         token: Tokens \cup {NoToken}, who: Identities \cup {NoIdentity},
         u: Users \cup {NoUser}, s: SessionIds \cup {NoSession}, verified: BOOLEAN]

AnAddress == CHOOSE a \in Addresses : TRUE
Idle == [at |-> "idle", op |-> "none", path |-> "none", email |-> AnAddress,
         token |-> NoToken, who |-> NoIdentity, u |-> NoUser, s |-> NoSession,
         verified |-> FALSE]

AccountsInit ==
    /\ config \in Configs
    /\ user = [u \in Users |-> [state |-> "free", email |-> AnAddress,
                                verified |-> FALSE, status |-> "active"]]
    /\ password = {} /\ factored = {} /\ staff = {}
    /\ profile = [u \in Users |-> "none"]
    /\ session = [s \in SessionIds |->
                    [state |-> "free", user |-> NoUser, via |-> NoToken]]
    /\ call = [r \in Requests |-> Idle]

-----------------------------------------------------------------------------
\* What the statements and conditions of the handlers compute.

Exists(u) == u # NoUser /\ user[u].state = "row"

\* GetByEmail, GetByEmailFold: the row of an address, if any.
At(a) == {u \in Users : Exists(u) /\ user[u].email = a}

SessionsOf(u) == {s \in SessionIds : session[s].user = u}
Usable(s) == session[s].state \in {"open", "pending"}

May(fault) == IF fault \in config.faults THEN {TRUE, FALSE} ELSE {FALSE}
Never(fault) == fault \notin config.faults

\* CreateAccount asks for a password and answers with a session of its own.
Signups == {"signup", "redeem"}

\* The statement behind the one the handler is at.
Then(c) == LET route == Routes[c.path]
               i     == CHOOSE j \in DOMAIN route : route[j] = c.at
           IN  route[i + 1]

\* A refused handler forgets what it had read.
Refused(c) == [Idle EXCEPT !.at = "refused", !.op = c.op,
                           !.u = IF c.op \in Signups THEN c.u ELSE NoUser]
Become(r, c) ==
    call' = [call EXCEPT ![r] = IF c.at = "refused" THEN Refused(c) ELSE c]
Goto(r, point) == Become(r, [call[r] EXCEPT !.at = point])

\* The ids bound the accounts and sessions of an instance: a call arrives only
\* when it will find one of each.
Busy == {r \in Requests : call[r].at # "idle"}
Room == /\ Cardinality(Busy) < Cardinality({u \in Users : user[u].state = "free"})
        /\ Cardinality(Busy) < Cardinality({s \in SessionIds : session[s].state = "free"})
Arrives(r, op) == call[r].at = "idle" /\ op \in Ops /\ Room

\* The sessions' state is overwritten for a set of rows.
SetSessions(S, state) ==
    session' = [s \in SessionIds |-> IF s \in S THEN [session[s] EXCEPT !.state = state]
                                     ELSE session[s]]

-----------------------------------------------------------------------------
\* CreateAccount, CreatePasswordlessAccount and the creation in OAuth's Callback.

Signup(r, a) ==
    /\ Arrives(r, "signup")
    /\ Become(r, [Idle EXCEPT !.at = "taken", !.op = "signup", !.path = "signup", !.email = a])
    /\ UNCHANGED rows

Taken(r) ==
    /\ call[r].at = "taken"
    /\ Goto(r, IF At(call[r].email) # {} THEN "refused" ELSE Then(call[r]))
    /\ UNCHANGED rows

\* CreateUserAuth; users_auth.email is UNIQUE.
InsertUser(r) ==
    /\ call[r].at = "insert"
    /\ LET c == call[r]
       IN  \/ /\ At(c.email) # {}
              /\ Goto(r, IF c.op = "click" THEN "again" ELSE "refused")
              /\ UNCHANGED user
           \/ /\ At(c.email) = {}
              /\ \E u \in Users :
                    /\ user[u].state = "free"
                    /\ user' = [user EXCEPT ![u] = [@ EXCEPT !.state = "row", !.email = c.email]]
                    /\ Become(r, [c EXCEPT !.u = u, !.at = Then(c)])
    /\ UNCHANGED <<password, factored, profile, staff, session>>

\* CreateCredential.  A password the policy refuses is found here, after the
\* user row is written; a vanished row fails the foreign key.
InsertCredential(r) ==
    /\ call[r].at = "credential"
    /\ \/ /\ Goto(r, "uncredential")
          /\ UNCHANGED password
       \/ /\ Exists(call[r].u)
          /\ password' = password \cup {call[r].u}
          /\ Goto(r, Then(call[r]))
    /\ UNCHANGED <<user, factored, profile, staff, session>>

\* The profile carries the name of the signup or of the provider.  OAuth rolls
\* nothing back.
InsertProfile(r) ==
    /\ call[r].at = "profile"
    /\ LET c == call[r]
       IN  \E fails \in May("profile") :
             IF fails \/ profile[c.u] # "none"
             THEN /\ Goto(r, IF c.op = "oauth" THEN "refused" ELSE "uncredential")
                  /\ UNCHANGED profile
             ELSE /\ profile' = [profile EXCEPT ![c.u] = IF c.op = "oauth" THEN "provider"
                                                         ELSE "signup"]
                  /\ Goto(r, Then(c))
    /\ UNCHANGED <<user, password, factored, staff, session>>

\* MarkEmailVerified.  Only a take-over heeds its error.
Mark(r) ==
    /\ call[r].at = "mark"
    /\ LET c == call[r]
       IN  \E fails \in May("wipe") :
             /\ user' = IF fails \/ ~Exists(c.u) THEN user
                        ELSE [user EXCEPT ![c.u].verified = TRUE]
             /\ Goto(r, IF fails /\ c.path = "known" THEN "refused" ELSE Then(c))
    /\ UNCHANGED <<password, factored, profile, staff, session>>

\* CreateSessionWithTTL; sessions.user_id references users_auth.
InsertSession(r) ==
    /\ call[r].at = "session"
    /\ LET c == call[r]
       IN  \E fails \in May("session") :
             \/ /\ fails \/ ~Exists(c.u)
                /\ Goto(r, IF c.op \in Signups THEN "unprofile" ELSE "refused")
                /\ UNCHANGED session
             \/ /\ ~fails /\ Exists(c.u)
                /\ \E s \in SessionIds :
                      /\ session[s].state = "free"
                      /\ session' = [session EXCEPT ![s] =
                                       [state |-> "open", user |-> c.u, via |-> c.token]]
                      /\ Become(r, [c EXCEPT !.s = s, !.verified = FALSE,
                                   !.path = IF c.path \in Signups \cup {"fresh"} THEN @ ELSE "none",
                                   !.at = IF c.op \in Signups THEN Then(c) ELSE "second"])
    /\ UNCHANGED <<user, password, factored, profile, staff>>

OnSignup(r) ==
    /\ call[r].at = "onSignup"
    /\ \E fails \in May("onSignup") :
          Goto(r, IF fails THEN "unprofile" ELSE Then(call[r]))
    /\ UNCHANGED rows

-----------------------------------------------------------------------------
\* The rollbacks: RollbackProfile, then RollbackUser; late, as Redeem does it, the
\* other way round.  Their errors are ignored, the handler goes on (fault "undo").

\* Mutant: the rollback forgets the other database.
KeepProfile(r) ==
    /\ call[r].at \in {"unprofile", "lateProfile"}
    /\ Goto(r, IF call[r].at = "unprofile" THEN "uncredential" ELSE "refused")
    /\ UNCHANGED rows
DeleteProfile(r) ==
    /\ call[r].at \in {"unprofile", "lateProfile"}
    /\ \E fails \in May("undo") :
          profile' = IF fails THEN profile ELSE [profile EXCEPT ![call[r].u] = "none"]
    /\ Goto(r, IF call[r].at = "unprofile" THEN "uncredential" ELSE "refused")
    /\ UNCHANGED <<user, password, factored, staff, session>>

DeleteCredential(r) ==
    /\ call[r].at \in {"uncredential", "lateCredential"}
    /\ \E fails \in May("undo") :
          password' = IF fails THEN password ELSE password \ {call[r].u}
    /\ Goto(r, IF call[r].at = "uncredential" THEN "unuser" ELSE "lateUser")
    /\ UNCHANGED <<user, factored, profile, staff, session>>

\* What references the row is deleted with it (ON DELETE CASCADE).
DeleteUser(r) ==
    /\ call[r].at \in {"unuser", "lateUser"}
    /\ \/ /\ ~Never("undo")
          /\ UNCHANGED <<user, password, factored, session>>
       \/ LET u == call[r].u
          IN  /\ user' = [user EXCEPT ![u].state = "gone"]
              /\ password' = password \ {u}
              /\ factored' = factored \ {u}
              /\ SetSessions(SessionsOf(u), "gone")
    /\ Goto(r, IF call[r].at = "lateUser" THEN "lateProfile"
               ELSE IF call[r].op \in Signups THEN "refused"
               ELSE "again")
    /\ UNCHANGED <<profile, staff>>

-----------------------------------------------------------------------------
\* The end of a sign-in by link or provider: UserHasMFA, SetSessionMFAPending,
\* OnLogin, and what is left to do before the answer.

Complete(c) == IF c.op = "click" /\ config.codeFlow THEN "code"
               ELSE IF c.path = "fresh" THEN "tenancy"
               ELSE "ok"

\* An error of UserHasMFA counts as no factor (fault "second").
\* Mutant: the hook runs first and the factors are not looked at.
SecondUnasked(r) ==
    /\ call[r].at = "second"
    /\ Goto(r, "onLogin")
    /\ UNCHANGED rows
Second(r) ==
    /\ call[r].at = "second"
    /\ \E fails \in May("second") :
          Goto(r, IF call[r].u \in factored /\ ~fails THEN "pend" ELSE "onLogin")
    /\ UNCHANGED rows

Pend(r) ==
    /\ call[r].at = "pend"
    /\ \E fails \in May("pend") :
          IF fails THEN Goto(r, "refused") /\ UNCHANGED session
          ELSE /\ SetSessions({call[r].s} \cap {s \in SessionIds : Usable(s)}, "pending")
               /\ Goto(r, Complete(call[r]))
    /\ UNCHANGED <<user, password, factored, profile, staff>>

OnLogin(r) ==
    /\ call[r].at = "onLogin"
    /\ \E fails \in May("onLogin") : Goto(r, IF fails THEN "revoke" ELSE Complete(call[r]))
    /\ UNCHANGED rows

\* RevokeSession: after a failed hook or code, or an exchange for an account that
\* is not active any more.
Revoke(r) ==
    /\ call[r].at = "revoke"
    /\ SetSessions({call[r].s} \cap {s \in SessionIds : Usable(s)}, "revoked")
    /\ Goto(r, "refused")
    /\ UNCHANGED <<user, password, factored, profile, staff>>

-----------------------------------------------------------------------------
\* Everybody else: the host sets a status or grants a staff role, and the holder
\* of a session enrols a factor.

\* SetUserStatus of the host API.  Mutant: a status that SetStatus does not allow.
HostSetStatusUnchecked(u, status) ==
    /\ status \in config.statuses /\ Exists(u)
    /\ user' = [user EXCEPT ![u].status = IF status = "active" THEN "unlocked" ELSE status]
    /\ UNCHANGED <<password, factored, profile, staff, session, call>>
HostSetStatus(u, status) ==
    /\ status \in config.statuses /\ Exists(u)
    /\ user' = [user EXCEPT ![u].status = status]
    /\ UNCHANGED <<password, factored, profile, staff, session, call>>

\* A platform or organisation role that the classifier counts as staff.
Promote(u) ==
    /\ "promote" \in Ops /\ Exists(u)
    /\ staff' = staff \cup {u}
    /\ UNCHANGED <<user, password, factored, profile, session, call>>

\* The gate and the write of the enrolment are one step.
Enrol(s) ==
    /\ "enrol" \in Ops /\ session[s].state = "open"
    /\ factored' = factored \cup {session[s].user}
    /\ UNCHANGED <<user, password, profile, staff, session, call>>

Leave(r) ==
    /\ call[r].at \in {"ok", "refused"}
    /\ Become(r, Idle)
    /\ UNCHANGED rows

\* The next statement of the handler in slot r, of those every creation shares.
Create(r) ==
    \/ Taken(r) \/ InsertUser(r) \/ InsertCredential(r) \/ InsertProfile(r)
    \/ Mark(r) \/ InsertSession(r) \/ OnSignup(r)
    \/ DeleteProfile(r) \/ DeleteCredential(r) \/ DeleteUser(r)

SignInTail(r) == Second(r) \/ Pend(r) \/ OnLogin(r) \/ Revoke(r)

Others ==
    \/ \E u \in Users, status \in Statuses : HostSetStatus(u, status)
    \/ \E u \in Users : Promote(u)
    \/ \E s \in SessionIds : Enrol(s)

AccountStep ==
    \/ Others
    \/ \E r \in Requests :
          \/ \E a \in config.addresses : Signup(r, a)
          \/ Create(r) \/ SignInTail(r) \/ Leave(r)

-----------------------------------------------------------------------------
AccountsTypeOK ==
    /\ config \in Configs
    /\ user \in [Users -> User]
    /\ password \subseteq Users /\ factored \subseteq Users /\ staff \subseteq Users
    /\ profile \in [Users -> {"none", "signup", "provider"}]
    /\ session \in [SessionIds -> Session]
    /\ call \in [Requests -> Call]

\* As long as no deletion of a rollback fails, whose errors the code ignores, a signup
\* that was refused, at whatever statement of CreateAccount or Redeem, has left nothing
\* of its own in either database: no user, no profile, no credential and no session,
\* whatever was found of it meanwhile.  A provider sign-in that found the account
\* half-made may have given it a profile, which stays.
RefusedLeavesNothing == Never("undo") =>
    \A r \in Requests :
        call[r].op \in Signups /\ call[r].at = "refused" /\ call[r].u # NoUser =>
            LET u == call[r].u
            IN  /\ ~Exists(u) /\ u \notin password
                /\ profile[u] # "signup"
                /\ \A s \in SessionsOf(u) : ~Usable(s)
=============================================================================
