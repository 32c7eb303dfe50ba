---------------------------- MODULE Credentials ----------------------------
(***************************************************************************)
(* What the holder of one account proves with: the password, the reset and *)
(* verification tokens that reach the inbox, the authenticators and their  *)
(* recovery codes.  Modelled are the handlers and host calls that use one  *)
(* of these and those that change one: login, SetPassword, reset request   *)
(* and reset, verification, enrolment, confirmation and removal of a       *)
(* factor, the challenge, and the take-over of an unverified account by a  *)
(* magic link.                                                             *)
(*                                                                         *)
(* As in Sessions, every SQL statement is an autocommit statement and a    *)
(* handler, call[r], takes one step per statement; the first read of a     *)
(* handler is its arrival.  A session is reduced to whether it is usable   *)
(* and fresh, a hash to the secret it verifies, and the code of an         *)
(* authenticator to the authenticator: whoever holds it has a valid code.  *)
(***************************************************************************)
EXTENDS Naturals, FiniteSets

CONSTANTS
    Secrets,                \* passwords the policy accepts
    MaxRow,                 \* bound: rows of credentials this instance may insert
    SessionIds, NoSession,
    Resets,                 \* password reset tokens
    Proofs,                 \* e-mail verification tokens
    Factors,                \* authenticators (TOTP factors)
    Codes,                  \* recovery codes
    CodesPerSet,            \* how many one enrolment generates (8 in the code)
    Nil,                    \* an absent argument; as a code, the one of the empty key
    Requests,               \* handler goroutines the server may be running
    Configs                 \* the workloads and initial accounts of this instance

VARIABLES
    config,     \* what is asked of this server and how the account starts
    account,    \* the row of users_auth
    credential, \* the row of credentials; row 0 is none
    lastRow,    \* credential ids are minted 1, 2, ...
    session,    \* session[s]: the row of sessions
    token,      \* token[t]: the row of a reset or verification token
    factor,     \* factor[f]: the row of factors
    recovery,   \* recovery[k]: the row of mfa_recovery_codes
    held,       \* what callers were handed or mailed so far
    call        \* call[r]: the handler running in slot r

\* History: what held or was answered before; no guard reads these.
VARIABLES
    spent,      \* reset and verification tokens whose call was answered
    opened,     \* opened[k]: sessions that passed the challenge with the code k
    since       \* since[r]: facts gathered since call[r] arrived

tables == <<account, credential, lastRow, session, token, factor, recovery>>
history == <<spent, opened, since>>
vars == <<config, tables, held, call, history>>

-----------------------------------------------------------------------------
Tokens == Resets \cup Proofs
Handed == SessionIds \cup Tokens \cup Factors \cup Codes

FaultKinds == {"session", "second", "pend", "hook", "revoke", "spend", "wipe", "code", "confirm"}
Operations == {"login", "hostLogin", "set", "ask", "reset", "resend", "verify", "takeOver",
               "enrol", "hostEnrol", "confirm", "drop", "challenge", "complete",
               "status", "age", "lapse"}

Config == [ops: SUBSET Operations, faults: SUBSET FaultKinds, requireVerification: BOOLEAN,
           verified: BOOLEAN, keyed: BOOLEAN, factored: BOOLEAN]

ASSUME CredentialAssumption ==
    /\ MaxRow \in Nat \ {0} /\ CodesPerSet \in Nat \ {0}
    /\ SessionIds # {} /\ Factors # {} /\ IsFiniteSet(Requests)
    /\ NoSession \notin SessionIds /\ Nil \notin Handed \cup Secrets /\ Secrets \cap Handed = {}
    /\ SessionIds \cap (Tokens \cup Factors \cup Codes) = {}
    /\ Resets \cap Proofs = {} /\ Factors \cap Codes = {} /\ Tokens \cap (Factors \cup Codes) = {}
ASSUME ConfigAssumption == Configs \subseteq Config

\* "inactive" stands for suspended and pending_deletion.
Account == [status: {"active", "inactive", "locked"}, verified: BOOLEAN]
Credential == [row: 0..MaxRow, secret: Secrets \cup {Nil}]
NoCredential == [row |-> 0, secret |-> Nil]
Session == [state: {"free", "open", "pending", "revoked"}, fresh: BOOLEAN]

Points == {"idle", "reread", "user", "match", "session", "second", "pend", "hook", "revoke",
           "reload", "read", "owner", "create", "update", "others",
           "lookup", "issue", "spend", "clear", "mint", "mark",
           "sweep", "unpassword", "unfactor",
           "factor", "wipe", "code", "totp", "confirm", "drop", "list", "recover", "unpend",
           "ok", "refused"}

\* given: what the caller presents (a secret, a token, a code); new: the password it
\* asks for; factor: the authenticator it names; admits, row: what the handler has
\* read so far; codes: the recovery codes it will show.
Call == [at: Points, op: Operations \cup {"none"}, s: SessionIds \cup {NoSession},
         given: Secrets \cup Tokens \cup Factors \cup Codes \cup {Nil}, new: Secrets \cup {Nil},
         factor: Factors \cup {Nil}, admits: BOOLEAN, row: 0..MaxRow, codes: SUBSET Codes]
Idle == [at |-> "idle", op |-> "none", s |-> NoSession, given |-> Nil, new |-> Nil,
         factor |-> Nil, admits |-> FALSE, row |-> 0, codes |-> {}]

Since == [rows: SUBSET Credential, factors: SUBSET Factors, spent: SUBSET Tokens,
          others: SUBSET SessionIds, alone: BOOLEAN]
NoSince == [rows |-> {}, factors |-> {}, spent |-> {}, others |-> {}, alone |-> TRUE]

\* Ids and tokens are random: which fresh one is minted tells nothing.
Fresh(rows, empty) == {x \in DOMAIN rows : rows[x] = empty}
Minted(rows, empty) == CHOOSE x \in Fresh(rows, empty) : TRUE
NoSessionRow == [state |-> "free", fresh |-> TRUE]

\* The account starts with one session in its holder's hands, with or without a
\* password, and with or without an authenticator (whose recovery codes are used up).
Init ==
    /\ config \in Configs
    /\ account = [status |-> "active", verified |-> config.verified]
    /\ lastRow = IF config.keyed THEN 1 ELSE 0
    /\ credential \in (IF config.keyed THEN {[row |-> 1, secret |-> x] : x \in Secrets}
                       ELSE {NoCredential})
    /\ token = [t \in Tokens |-> "none"]
    /\ LET empty == [s \in SessionIds |-> NoSessionRow] IN LET s == Minted(empty, NoSessionRow)
           none == [f \in Factors |-> "none"] IN LET f == Minted(none, "none")
       IN  /\ session = [empty EXCEPT ![s].state = "open"]
           /\ factor = IF config.factored THEN [none EXCEPT ![f] = "verified"] ELSE none
           /\ held = {s} \cup (IF config.factored THEN {f} ELSE {})
    /\ recovery = [k \in Codes |-> "none"]
    /\ call = [r \in Requests |-> Idle]
    /\ spent = {} /\ opened = [k \in Codes |-> 0]
    /\ since = [r \in Requests |-> NoSince]

-----------------------------------------------------------------------------
\* What the statements and conditions of the handlers compute.

May(fault) == IF fault \in config.faults THEN {TRUE, FALSE} ELSE {FALSE}

HasPassword == credential # NoCredential
Usable(s) == session[s].state \in {"open", "pending"}
Enrolled(f) == factor[f] \in {"new", "verified"}

\* Mutant: the list is left at its first factor, verified or not.
NewestDecides == (\E f \in Factors : factor[f] = "verified") /\ \A f \in Factors : factor[f] # "new"
UserHasMFA == \E f \in Factors : factor[f] = "verified"

\* What ValidatePassword asks of the user row.
MayLogIn == account.status = "active" /\ (config.requireVerification => account.verified)

ByHost == {"hostLogin", "hostEnrol", "complete"}

Become(r, c) ==
    call' = [call EXCEPT ![r] = IF c.at = "refused"
                                THEN [Idle EXCEPT !.at = "refused", !.op = c.op] ELSE c]
Goto(r, point) == Become(r, [call[r] EXCEPT !.at = point])

SetSessions(S, state) ==
    session' = [s \in SessionIds |-> IF s \in S THEN [session[s] EXCEPT !.state = state]
                                     ELSE session[s]]

\* A call arrives when the session it may insert fits in the instance.
Room == Cardinality({r \in Requests : call[r].at # "idle"})
          < Cardinality(Fresh(session, NoSessionRow))
Arrive(r, op, c) ==
    /\ call[r].at = "idle" /\ op \in config.ops
    /\ Become(r, [c EXCEPT !.op = op])
    /\ UNCHANGED <<tables, held>>

\* The gate of a request that presents the session s, a statement of its own.
Gate(s, state) == s \in held /\ session[s].state = state

-----------------------------------------------------------------------------
\* Login by password: the host's Login reads the user once more in front.  Status
\* and verification are judged on the row read before the credential is.

LogIn(r, x) ==
    /\ Room
    /\ Arrive(r, "login", [Idle EXCEPT !.at = "match", !.given = x, !.admits = MayLogIn])

HostLogIn(r, x) ==
    /\ Room /\ account.status # "inactive"
    /\ Arrive(r, "hostLogin", [Idle EXCEPT !.at = "reread", !.given = x])

ReadUser(r) ==
    /\ call[r].at = "reread"
    /\ Become(r, [call[r] EXCEPT !.at = "match", !.admits = MayLogIn])
    /\ UNCHANGED <<tables, held>>

Match(r) ==
    /\ call[r].at = "match"
    /\ Goto(r, IF call[r].admits /\ HasPassword /\ credential.secret = call[r].given
               THEN "session" ELSE "refused")
    /\ UNCHANGED <<tables, held>>

InsertSession(r) ==
    /\ call[r].at = "session"
    /\ \/ /\ TRUE \in May("session")
          /\ Goto(r, "refused")
          /\ UNCHANGED session
       \/ /\ Fresh(session, NoSessionRow) # {}
          /\ LET s == Minted(session, NoSessionRow)
             IN  /\ session' = [session EXCEPT ![s].state = "open"]
                 /\ Become(r, [call[r] EXCEPT !.at = "second", !.s = s])
    /\ UNCHANGED <<account, credential, lastRow, token, factor, recovery, held>>

\* An error of UserHasMFA counts as no factor.
Second(r) ==
    /\ call[r].at = "second"
    /\ \E fails \in May("second") :
          Goto(r, IF UserHasMFA /\ ~fails THEN "pend"
                  ELSE IF call[r].op \in ByHost THEN "ok" ELSE "hook")
    /\ UNCHANGED <<tables, held>>

Pend(r) ==
    /\ call[r].at = "pend"
    /\ \E fails \in May("pend") :
          IF fails THEN Goto(r, "refused") /\ UNCHANGED session
          ELSE /\ SetSessions({call[r].s} \cap {s \in SessionIds : Usable(s)}, "pending")
               /\ Goto(r, "ok")
    /\ UNCHANGED <<account, credential, lastRow, token, factor, recovery, held>>

OnLogin(r) ==
    /\ call[r].at = "hook"
    /\ \E fails \in May("hook") : Goto(r, IF fails THEN "revoke" ELSE "ok")
    /\ UNCHANGED <<tables, held>>

\* RevokeSession, whose error is ignored.
Revoke(r) ==
    /\ call[r].at = "revoke"
    /\ \E fails \in May("revoke") :
          IF fails THEN UNCHANGED session
          ELSE SetSessions({call[r].s} \cap {s \in SessionIds : Usable(s)}, "revoked")
    /\ Goto(r, "refused")
    /\ UNCHANGED <<account, credential, lastRow, token, factor, recovery, held>>

-----------------------------------------------------------------------------
\* SetPassword and ResetPassword.

SetPassword(r, s, current, new) ==
    /\ Gate(s, "open")
    /\ Arrive(r, "set", [Idle EXCEPT !.at = "reload", !.s = s, !.given = current, !.new = new])

\* The handler reads its session again, then SetPassword the user.
Reload(r) ==
    /\ call[r].at = "reload"
    /\ Goto(r, IF Usable(call[r].s) THEN "user" ELSE "refused")
    /\ UNCHANGED <<tables, held>>

CheckActive(r) ==
    /\ call[r].at = "user"
    /\ Become(r, [call[r] EXCEPT !.admits = account.verified,
                                 !.at = IF account.status = "active" THEN "read" ELSE "refused"])
    /\ UNCHANGED <<tables, held>>

ReadCredential(r) ==
    /\ call[r].at = "read"
    /\ LET c == call[r]
       IN  Become(r, [c EXCEPT !.row = credential.row, !.at =
             IF c.op = "reset" THEN IF HasPassword THEN "update" ELSE "owner"
             ELSE IF HasPassword
                  THEN IF credential.secret = c.given THEN "update" ELSE "refused"
                  ELSE IF c.admits /\ session[c.s].fresh THEN "create" ELSE "refused"])
    /\ UNCHANGED <<tables, held>>

\* CreateCredential; UNIQUE (user_id, credential_type).
CreateCredential(r) ==
    /\ call[r].at = "create"
    /\ \/ /\ HasPassword
          /\ Goto(r, "refused")
          /\ UNCHANGED <<credential, lastRow>>
       \/ /\ ~HasPassword /\ lastRow < MaxRow
          /\ lastRow' = lastRow + 1
          /\ credential' = [row |-> lastRow', secret |-> call[r].new]
          /\ Goto(r, IF call[r].op = "set" THEN "others" ELSE "spend")
    /\ UNCHANGED <<account, session, token, factor, recovery, held>>

\* UpdateHash, by the id of the row read.
\* Mutant: by the user instead.
UpdateHashOfUser(r) ==
    /\ call[r].at = "update"
    /\ credential' = IF HasPassword THEN [credential EXCEPT !.secret = call[r].new]
                     ELSE credential
    /\ Goto(r, IF call[r].op = "set" THEN "others" ELSE "spend")
    /\ UNCHANGED <<account, lastRow, session, token, factor, recovery, held>>
UpdateHash(r) ==
    /\ call[r].at = "update"
    /\ credential' = IF credential.row = call[r].row
                     THEN [credential EXCEPT !.secret = call[r].new] ELSE credential
    /\ Goto(r, IF call[r].op = "set" THEN "others" ELSE "spend")
    /\ UNCHANGED <<account, lastRow, session, token, factor, recovery, held>>

\* Mutant: sessions that still await their challenge are spared.
RevokeOpenOthers(r) ==
    /\ call[r].at = "others"
    /\ SetSessions({s \in SessionIds \ {call[r].s} : session[s].state = "open"}, "revoked")
    /\ Goto(r, "ok")
    /\ UNCHANGED <<account, credential, lastRow, token, factor, recovery, held>>
RevokeOthers(r) ==
    /\ call[r].at = "others"
    /\ \E fails \in May("revoke") :
          IF fails THEN Goto(r, "refused") /\ UNCHANGED session
          ELSE /\ SetSessions({s \in SessionIds \ {call[r].s} : Usable(s)}, "revoked")
               /\ Goto(r, "ok")
    /\ UNCHANGED <<account, credential, lastRow, token, factor, recovery, held>>

AskReset(r) ==
    /\ account.status = "active"
    /\ Arrive(r, "ask", [Idle EXCEPT !.at = "lookup", !.admits = account.verified])

LookUp(r) ==
    /\ call[r].at = "lookup"
    /\ Goto(r, IF HasPassword \/ call[r].admits THEN "issue" ELSE "refused")
    /\ UNCHANGED <<tables, held>>

\* CreatePasswordResetToken; any number of tokens of one user may be open.
IssueReset(r) ==
    /\ call[r].at = "issue"
    /\ Fresh(token, "none") \cap Resets # {}
    /\ LET t == Minted([x \in Resets |-> token[x]], "none")
       IN /\ token' = [token EXCEPT ![t] = "open"]
          /\ Become(r, [call[r] EXCEPT !.at = "ok", !.given = t])
    /\ UNCHANGED <<account, credential, lastRow, session, factor, recovery, held>>

\* Neither the status of the account nor its sessions are looked at.
ResetPassword(r, t, new) ==
    /\ t \in held /\ token[t] = "open"
    /\ Arrive(r, "reset", [Idle EXCEPT !.at = "read", !.given = t, !.new = new])

CheckOwner(r) ==
    /\ call[r].at = "owner"
    /\ Goto(r, IF account.verified THEN "create" ELSE "refused")
    /\ UNCHANGED <<tables, held>>

\* DeleteByID, last: its error is returned after the password has changed.
\* Mutant: the token is left to expire.
SpendLater(r) ==
    /\ call[r].at = "spend"
    /\ Goto(r, "ok")
    /\ UNCHANGED <<tables, held>>
SpendReset(r) ==
    /\ call[r].at = "spend"
    /\ \E fails \in May("spend") :
          IF fails THEN Goto(r, "refused") /\ UNCHANGED token
          ELSE token' = [token EXCEPT ![call[r].given] = "gone"] /\ Goto(r, "ok")
    /\ UNCHANGED <<account, credential, lastRow, session, factor, recovery, held>>

-----------------------------------------------------------------------------
\* E-mail verification.

Resend(r) ==
    /\ ~account.verified
    /\ Arrive(r, "resend", [Idle EXCEPT !.at = "clear"])

VerifyEmail(r, t) ==
    /\ t \in held /\ token[t] = "open"
    /\ Arrive(r, "verify", [Idle EXCEPT !.at = "mark", !.given = t])

\* DeleteByUserID: the first statement of a resend, the last of a verification.
ClearProofs(r) ==
    /\ call[r].at = "clear"
    /\ token' = [t \in Tokens |-> IF t \in Proofs /\ token[t] = "open" THEN "gone" ELSE token[t]]
    /\ Goto(r, IF call[r].op = "resend" THEN "mint" ELSE "ok")
    /\ UNCHANGED <<account, credential, lastRow, session, factor, recovery, held>>

MintProof(r) ==
    /\ call[r].at = "mint"
    /\ Fresh(token, "none") \cap Proofs # {}
    /\ LET t == Minted([x \in Proofs |-> token[x]], "none")
       IN /\ token' = [token EXCEPT ![t] = "open"]
          /\ Become(r, [call[r] EXCEPT !.at = "ok", !.given = t])
    /\ UNCHANGED <<account, credential, lastRow, session, factor, recovery, held>>

MarkVerified(r) ==
    /\ call[r].at = "mark"
    /\ account' = [account EXCEPT !.verified = TRUE]
    /\ Goto(r, IF call[r].op = "verify" THEN "clear" ELSE "session")
    /\ UNCHANGED <<credential, lastRow, session, token, factor, recovery, held>>

-----------------------------------------------------------------------------
\* The take-over of an unverified account by a magic link (MagicLink has the link):
\* its sessions, its password, its factors and codes; then the sign-in.

TakeOver(r) ==
    /\ Room /\ ~account.verified
    /\ Arrive(r, "takeOver", [Idle EXCEPT !.at = "sweep"])

Sweep(r) ==
    /\ call[r].at = "sweep"
    /\ SetSessions({s \in SessionIds : Usable(s)}, "revoked")
    /\ Goto(r, "unpassword")
    /\ UNCHANGED <<account, credential, lastRow, token, factor, recovery, held>>

RemovePassword(r) ==
    /\ call[r].at = "unpassword"
    /\ credential' = NoCredential
    /\ Goto(r, "unfactor")
    /\ UNCHANGED <<account, lastRow, session, token, factor, recovery, held>>

\* One step for the deletions of the factors and of the codes.
RemoveFactors(r) ==
    /\ call[r].at = "unfactor"
    /\ factor' = [f \in Factors |-> IF Enrolled(f) THEN "gone" ELSE factor[f]]
    /\ recovery' = [k \in Codes |-> IF recovery[k] = "none" THEN "none" ELSE "gone"]
    /\ Goto(r, "mark")
    /\ UNCHANGED <<account, credential, lastRow, session, token, held>>

-----------------------------------------------------------------------------
\* Factors and recovery codes.

\* EnrollTOTP of a request or of the host, which names the user.
Enrol(r, s) ==
    /\ Gate(s, "open")
    /\ Arrive(r, "enrol", [Idle EXCEPT !.at = "factor", !.s = s])
HostEnrol(r) == Arrive(r, "hostEnrol", [Idle EXCEPT !.at = "factor"])

InsertFactor(r) ==
    /\ call[r].at = "factor"
    /\ Fresh(factor, "none") # {}
    /\ LET f == Minted(factor, "none")
       IN /\ factor' = [factor EXCEPT ![f] = "new"]
          /\ Become(r, [call[r] EXCEPT !.at = "wipe", !.factor = f])
    /\ UNCHANGED <<account, credential, lastRow, session, token, recovery, held>>

\* GenerateRecoveryCodes: all old codes go, whatever factor they came with, and an
\* error of that is ignored.
WipeCodes(r) ==
    /\ call[r].at = "wipe"
    /\ \E fails \in May("wipe") :
          recovery' = [k \in Codes |-> IF fails \/ recovery[k] = "none" THEN recovery[k]
                                       ELSE "gone"]
    /\ Goto(r, "code")
    /\ UNCHANGED <<account, credential, lastRow, session, token, factor, held>>

\* One row at a time; the handler answers without codes when one fails, the host
\* call with the error.  Mutant: the deletion is in the loop.
InsertCodeAlone(r) ==
    /\ call[r].at = "code"
    /\ Fresh(recovery, "none") # {}
    /\ LET c == call[r] IN LET k == Minted(recovery, "none")
       IN    /\ recovery' = [i \in Codes |-> IF i = k THEN "open"
                                             ELSE IF recovery[i] = "none" THEN "none" ELSE "gone"]
             /\ Become(r, [c EXCEPT !.codes = @ \cup {k},
                   !.at = IF Cardinality(c.codes) + 1 = CodesPerSet THEN "ok" ELSE "code"])
    /\ UNCHANGED <<account, credential, lastRow, session, token, factor, held>>
InsertCode(r) ==
    /\ call[r].at = "code"
    /\ LET c == call[r]
       IN  \/ /\ TRUE \in May("code")
              /\ Become(r, [c EXCEPT !.codes = {}, !.at = IF c.op = "enrol" THEN "ok" ELSE "refused"])
              /\ UNCHANGED recovery
           \/ /\ Fresh(recovery, "none") # {}
              /\ LET k == Minted(recovery, "none") IN
                 /\ recovery' = [recovery EXCEPT ![k] = "open"]
                 /\ Become(r, [c EXCEPT !.codes = @ \cup {k},
                       !.at = IF Cardinality(c.codes) + 1 = CodesPerSet THEN "ok" ELSE "code"])
    /\ UNCHANGED <<account, credential, lastRow, session, token, factor, held>>

\* VerifyTOTP behind the gate.  Whoever was shown the authenticator has its code.
Confirm(r, s, f) ==
    /\ Gate(s, "open") /\ f \in held
    /\ Arrive(r, "confirm", [Idle EXCEPT !.at = "totp", !.s = s, !.factor = f, !.given = f])

Drop(r, s, f) ==
    /\ Gate(s, "open") /\ factor[f] # "none"
    /\ Arrive(r, "drop", [Idle EXCEPT !.at = "drop", !.s = s, !.factor = f])

DeleteFactor(r) ==
    /\ call[r].at = "drop"
    /\ factor' = [factor EXCEPT ![call[r].factor] = "gone"]
    /\ Goto(r, "ok")
    /\ UNCHANGED <<account, credential, lastRow, session, token, recovery, held>>

\* The challenge of a request, with or without the id of a factor.
Challenge(r, s, f, code) ==
    /\ Gate(s, "pending") /\ code \in held \cup {Nil}
    /\ Arrive(r, "challenge", [Idle EXCEPT !.at = IF f = Nil THEN "list" ELSE "totp",
                                           !.s = s, !.factor = f, !.given = code])

\* CompleteMFA of the host names no factor.
CompleteMFA(r, s, code) ==
    /\ s \in held /\ code \in held \cup {Nil}
    /\ Arrive(r, "complete", [Idle EXCEPT !.at = "list", !.s = s, !.given = code])

\* ListByUserID leaves the secrets of the factors out, and codes are validated against
\* what is left, the empty key: no authenticator's code is found in the list, and the
\* one of the empty key is, as soon as there is a verified factor.
ListFactors(r) ==
    /\ call[r].at = "list"
    /\ \E fails \in May("second") :
          Goto(r, IF fails THEN "refused"
                  ELSE IF call[r].given = Nil /\ UserHasMFA THEN "unpend" ELSE "recover")
    /\ UNCHANGED <<tables, held>>

\* GetByID and Validate: a factor need not be verified to be used.
CheckTOTP(r) ==
    /\ call[r].at = "totp"
    /\ LET c == call[r]
       IN  Goto(r, IF ~Enrolled(c.factor) \/ c.given # c.factor
                   THEN IF c.op = "challenge" THEN "recover" ELSE "refused"
                   ELSE IF factor[c.factor] = "new" THEN "confirm"
                   ELSE IF c.op = "challenge" THEN "unpend" ELSE "ok")
    /\ UNCHANGED <<tables, held>>

\* MarkVerified; a challenge whose factor could not be marked tries its code once
\* more as a recovery code.
ConfirmFactor(r) ==
    /\ call[r].at = "confirm"
    /\ LET c == call[r]
       IN  \/ /\ factor' = [factor EXCEPT ![c.factor] = IF @ = "new" THEN "verified" ELSE @]
              /\ Goto(r, IF c.op = "challenge" THEN "unpend" ELSE "ok")
           \/ /\ TRUE \in May("confirm")
              /\ Goto(r, IF c.op = "challenge" THEN "recover" ELSE "refused")
              /\ UNCHANGED factor
    /\ UNCHANGED <<account, credential, lastRow, session, token, recovery, held>>

\* UseRecoveryCode: UPDATE ... SET used = true WHERE ... used = false.
\* Mutant: the row is not marked.
RecoverUnmarked(r) ==
    /\ call[r].at = "recover"
    /\ Goto(r, IF call[r].given \in {k \in Codes : recovery[k] = "open"} THEN "unpend" ELSE "refused")
    /\ UNCHANGED <<tables, held>>
Recover(r) ==
    /\ call[r].at = "recover"
    /\ LET k == call[r].given
       IN  \/ /\ k \in Codes /\ recovery[k] = "open"
              /\ recovery' = [recovery EXCEPT ![k] = "used"]
              /\ Goto(r, "unpend")
           \/ /\ ~(k \in Codes /\ recovery[k] = "open")
              /\ Goto(r, "refused")
              /\ UNCHANGED recovery
    /\ UNCHANGED <<account, credential, lastRow, session, token, factor, held>>

Unpend(r) ==
    /\ call[r].at = "unpend"
    /\ \E fails \in May("pend") :
          IF fails THEN Goto(r, "refused") /\ UNCHANGED session
          ELSE /\ SetSessions({call[r].s} \cap {s \in SessionIds : Usable(s)}, "open")
               /\ Goto(r, IF call[r].op \in ByHost THEN "ok" ELSE "hook")
    /\ UNCHANGED <<account, credential, lastRow, token, factor, recovery, held>>

-----------------------------------------------------------------------------
\* Everybody else, and the answer.

\* SetUserStatus of the host; what it does to the sessions is in Sessions.
\* Mutant: a status that SetStatus does not allow.
SetStatusUnchecked(status) ==
    /\ "status" \in config.ops
    /\ account' = [account EXCEPT !.status = IF status = "active" THEN "unlocked" ELSE status]
    /\ UNCHANGED <<credential, lastRow, session, token, factor, recovery, held, call>>
SetStatus(status) ==
    /\ "status" \in config.ops
    /\ account' = [account EXCEPT !.status = status]
    /\ UNCHANGED <<credential, lastRow, session, token, factor, recovery, held, call>>

\* PasswordSetMaxSessionAge passes.
Age(s) ==
    /\ "age" \in config.ops /\ Usable(s)
    /\ session' = [session EXCEPT ![s].fresh = FALSE]
    /\ UNCHANGED <<account, credential, lastRow, token, factor, recovery, held, call>>

\* expires_at > NOW() does not hold any more.
Lapse(t) ==
    /\ "lapse" \in config.ops /\ token[t] = "open"
    /\ token' = [token EXCEPT ![t] = "gone"]
    /\ UNCHANGED <<account, credential, lastRow, session, factor, recovery, held, call>>

\* What the answer, or the mail it sent, puts into the caller's hands.
Shown(c) ==
    IF c.at # "ok" THEN {}
    ELSE CASE c.op \in {"login", "hostLogin", "takeOver"} -> {c.s}
           [] c.op \in {"ask", "resend"} -> {c.given}
           [] c.op \in {"enrol", "hostEnrol"} -> {c.factor} \cup c.codes
           [] OTHER -> {}

Leave(r) ==
    /\ call[r].at \in {"ok", "refused"}
    /\ held' = held \cup Shown(call[r])
    /\ Become(r, Idle)
    /\ UNCHANGED tables

Calls(r) ==
    \/ \E x \in Secrets : LogIn(r, x) \/ HostLogIn(r, x)
    \/ \E s \in SessionIds, x \in Secrets \cup {Nil}, y \in Secrets : SetPassword(r, s, x, y)
    \/ \E t \in Resets, x \in Secrets : ResetPassword(r, t, x)
    \/ \E t \in Proofs : VerifyEmail(r, t)
    \/ AskReset(r) \/ Resend(r) \/ TakeOver(r) \/ HostEnrol(r)
    \/ \E s \in SessionIds :
          \/ Enrol(r, s)
          \/ \E f \in Factors : Confirm(r, s, f) \/ Drop(r, s, f)
          \/ \E code \in Factors \cup Codes \cup {Nil} :
                \/ CompleteMFA(r, s, code)
                \/ \E f \in Factors \cup {Nil} : Challenge(r, s, f, code)

Statements(r) ==
    \/ ReadUser(r) \/ Match(r) \/ InsertSession(r) \/ Second(r) \/ Pend(r) \/ OnLogin(r) \/ Revoke(r)
    \/ Reload(r) \/ CheckActive(r) \/ ReadCredential(r) \/ CreateCredential(r) \/ UpdateHash(r)
    \/ RevokeOthers(r) \/ LookUp(r) \/ IssueReset(r) \/ CheckOwner(r) \/ SpendReset(r)
    \/ ClearProofs(r) \/ MintProof(r) \/ MarkVerified(r)
    \/ Sweep(r) \/ RemovePassword(r) \/ RemoveFactors(r)
    \/ InsertFactor(r) \/ WipeCodes(r) \/ InsertCode(r) \/ DeleteFactor(r)
    \/ ListFactors(r) \/ CheckTOTP(r) \/ ConfirmFactor(r) \/ Recover(r) \/ Unpend(r) \/ Leave(r)

Others ==
    \/ \E status \in {"active", "inactive", "locked"} : SetStatus(status)
    \/ \E s \in SessionIds : Age(s)
    \/ \E t \in Tokens : Lapse(t)

-----------------------------------------------------------------------------
\* History.

Renewing == {"enrol", "hostEnrol", "takeOver"}
Verified == {f \in Factors : factor[f] = "verified"}

Gather(r) ==
    LET c == call[r] IN LET d == call'[r] IN LET x == since[r]
    IN  IF d.at \in {"idle", "refused"} THEN NoSince
        ELSE [rows    |-> IF d.op = "set" THEN x.rows \cup {credential'} ELSE {},
              factors |-> IF d.op \notin {"login", "hostLogin"} THEN {}
                          ELSE IF c.at = "idle" THEN Verified ELSE x.factors \cap Verified',
              spent   |-> IF d.op \notin {"reset", "verify"} THEN {}
                          ELSE IF c.at = "idle" THEN spent ELSE x.spent,
              others  |-> IF d.at = "others" /\ c.at # "others"
                          THEN {s \in SessionIds \ {d.s} : Usable(s)} ELSE x.others,
              alone   |-> x.alone /\ (d.op \in {"enrol", "hostEnrol"} =>
                            \A q \in Requests \ {r} : call'[q].op \notin Renewing)]

History ==
    /\ spent' = spent \cup {call'[r].given : r \in {q \in Requests :
                    /\ call'[q].at = "ok" /\ call[q].at # "ok"
                    /\ call'[q].op \in {"reset", "verify"}}}
    /\ opened' = [k \in Codes |-> opened[k] + Cardinality({r \in Requests :
                    call'[r].at = "ok" /\ call[r].at # "ok" /\ call'[r].given = k})]
    /\ since' = [r \in Requests |-> Gather(r)]

Next ==
    /\ UNCHANGED config
    /\ Others \/ \E r \in Requests : Calls(r) \/ Statements(r)
    /\ History

Spec == Init /\ [][Next]_vars

-----------------------------------------------------------------------------
\* Properties.

\* Type invariant.
TypeOK ==
    /\ config \in Configs
    /\ account \in Account /\ credential \in Credential /\ lastRow \in 0..MaxRow
    /\ session \in [SessionIds -> Session]
    /\ token \in [Tokens -> {"none", "open", "gone"}]
    /\ factor \in [Factors -> {"none", "new", "verified", "gone"}]
    /\ recovery \in [Codes -> {"none", "open", "used", "gone"}]
    /\ held \subseteq Handed
    /\ call \in [Requests -> Call]
    /\ spent \subseteq Tokens /\ opened \in [Codes -> Nat]
    /\ since \in [Requests -> Since]

\* A password is replaced only by one who has shown that very password, or holds a
\* reset token nobody had used before: who knew the one a take-over removed cannot
\* replace the one its owner has set meanwhile.  A first password needs a verified
\* address.
PasswordProved ==
    [][credential' \notin {credential, NoCredential} =>
          \E r \in Requests :
             LET c == call[r]
             IN  /\ c.at \in {"create", "update"} /\ call'[r].at # c.at
                 /\ c.op = "reset" => c.given \notin since[r].spent
                 /\ c.op = "set" /\ HasPassword =>
                       [row |-> credential.row, secret |-> c.given] \in since[r].rows
                 /\ ~HasPassword => account.verified]_vars

\* Once a change of password is answered, no session is left, beside the one that
\* made it, of those that were in the database when the hash changed, awaiting
\* their challenge or not, and whatever was done to them meanwhile.
OthersRevoked ==
    \A r \in Requests :
        call[r].op = "set" /\ call[r].at = "ok" => \A s \in since[r].others : ~Usable(s)

\* A reset or verification link that has been used does nothing for a call that
\* arrives later, whatever resends, resets and verifications race with it.  (Two
\* calls that read the token before either deletes it both succeed.)
UsedTokensDie ==
    \A r \in Requests :
        call[r].op \in {"reset", "verify"} /\ call[r].at = "ok"
            => call[r].given \notin since[r].spent

\* The recovery codes an enrolment shows are the ones that work: all of them, and no
\* others, if no other enrolment or take-over overlapped it and nothing was lost.
ShownCodesWork ==
    \A r \in Requests :
        LET c == call[r]
        IN  c.op \in {"enrol", "hostEnrol"} /\ c.at = "ok" /\ c.codes # {} /\ since[r].alone =>
              /\ \A k \in c.codes : recovery[k] = "open"
              /\ "wipe" \notin config.faults => \A k \in Codes \ c.codes : recovery[k] # "open"

\* A user who has a verified factor from the login to its answer gets a session that
\* must pass the challenge, also while further factors are enrolled and others
\* confirmed or removed.
SecondFactorAsked ==
    \A r \in Requests :
        call[r].op \in {"login", "hostLogin"} /\ call[r].at = "ok" /\ since[r].factors # {}
            /\ "second" \notin config.faults
        => session[call[r].s].state # "open"

\* A recovery code is a one-time grant whose fruit is a challenge passed.
Carried(k) == \E r \in Requests : call[r].given = k /\ call[r].at \in {"unpend", "hook"}
codeGrant == [k \in Codes |->
                IF recovery[k] \in {"none", "open"} THEN recovery[k]
                ELSE IF opened[k] > 0 THEN "done"
                ELSE IF Carried(k) THEN "held"
                ELSE "dead"]

CodeGrants == INSTANCE OneTimeGrant
    WITH Grants <- Codes, grant <- codeGrant, fruits <- opened

\* However many challenges a recovery code is presented to, by browser or host, it
\* passes one at most, and none once it was replaced, lost to a failed statement, or
\* removed with the account's factors.
CodeIsOneTime == CodeGrants!Spec
=============================================================================
