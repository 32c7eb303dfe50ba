------------------------------ MODULE Sessions ------------------------------
(***************************************************************************)
(* Server-side sessions of authpad: the sessions table, the gate every     *)
(* authenticated request passes (AuthService.GetSessionByToken), token     *)
(* rotation, login, the MFA challenge, the four ways to end a session and  *)
(* the account operations that must end sessions (lock, delete).           *)
(*                                                                         *)
(* Every SQL statement of a handler is an autocommit statement of its own, *)
(* so a handler is a process, call[r], that takes one step per statement   *)
(* and interleaves with every other handler between two of them.  The      *)
(* application's clock and the database's NOW() are one clock, `now'.      *)
(***************************************************************************)
EXTENDS Naturals, FiniteSets

CONSTANTS
    Users, NoUser,        \* rows of users_auth; NoUser marks an unused session row
    SessionIds, NoSession,\* primary keys that CreateSessionWithTTL may mint
    Clients,              \* browsers and API callers
    Requests,             \* handler goroutines the server may be running
    Owner,                \* Owner[r]: the client (or administrator) behind slot r
    Ops,                  \* the operations callers use in this instance
    MFAUsers,             \* users with a verified factor (mfa_factors)
    StaffFlags,           \* what the host's staff classifier may answer
    TTL, RememberMeTTL, IdleTimeout, StaffIdleTimeout, MaxLifetime,
    RotateInterval,       \* SessionConfig; 0 switches a limit off
    RememberThreshold,    \* the 20 days by which the gate recognises remember-me
    Faults,               \* which swallowed errors may happen, see FaultKinds
    MaxTime, MaxToken     \* bounds of the model: the clock and the tokens minted

VARIABLES
    now,        \* wall clock
    account,    \* account[u]: users_auth.status ("deleted" stands for deleted_at)
    erased,     \* users whose e-mail and credential Anonymize has wiped
    row,        \* row[s]: the sessions table
    lastToken,  \* tokens are minted 1, 2, ...; 0 is "no token"
    kept,       \* kept[c]: every token client c was ever handed
    jar,        \* jar[c]: the session cookie in c's browser
    call        \* call[r]: the handler running in slot r

\* History: what callers did or were told; no action's guard reads these.
VARIABLES
    remembered, \* sessions whose login asked for "remember me"
    proved,     \* sessions on which an MFA code was verified
    told,       \* sessions some caller was told are over
    arrival     \* arrival[r]: facts recorded when call[r] arrived

hvars == <<remembered, proved, told>>
vars == <<now, account, erased, row, lastToken, kept, jar, call,
          remembered, proved, told, arrival>>

-----------------------------------------------------------------------------
\* The user or the factors cannot be read; RevokeByID or RevokeAllForUser,
\* UpdateLastActive, RotateToken or SetMFAPending fails; the host's hook returns
\* an error; the response is lost.
FaultKinds == {"statusRead", "factorRead", "revoke", "touch", "rotate", "pending",
               "hook", "reply"}

Gated == {"request", "full", "revokeOther", "delete"}   \* behind requireSession
\* "direct": isAdmin and canAccessUser ask GetSessionByToken themselves, for an
\* admin (every administration handler) or for a caller asking about himself;
\* they neither look at mfa_pending nor rotate.
ByToken == Gated \cup {"direct", "logout", "logoutAll", "challenge"}
ByAdmin == {"lock", "unlock"}

Statuses == {"active", "suspended", "pending_deletion", "locked"}
AccountStates == Statuses \cup {"deleted"}

ASSUME UserAssumption == NoUser \notin Users /\ MFAUsers \subseteq Users
ASSUME SessionAssumption == NoSession \notin SessionIds
ASSUME OwnerAssumption == Owner \in [Requests -> Clients]
ASSUME StaffAssumption == StaffFlags \subseteq BOOLEAN
ASSUME FaultAssumption == Faults \subseteq FaultKinds
ASSUME ConfigAssumption ==
    /\ TTL \in Nat \ {0} /\ RememberMeTTL \in Nat \ {0}
    /\ RememberThreshold \in Nat \ {0}
    /\ IdleTimeout \in Nat /\ StaffIdleTimeout \in Nat
    /\ MaxLifetime \in Nat /\ RotateInterval \in Nat
ASSUME BoundAssumption == MaxTime \in Nat /\ MaxToken \in Nat

Tokens == 0..MaxToken

Row == [user: Users \cup {NoUser}, token: Tokens, created: Nat, expires: Nat,
        active: Nat, revoked: BOOLEAN, mfaPending: BOOLEAN, staff: BOOLEAN]

Blank == [user |-> NoUser, token |-> 0, created |-> 0, expires |-> 0,
          active |-> 0, revoked |-> FALSE, mfaPending |-> FALSE, staff |-> FALSE]

Points == {"idle", "lookup", "gate", "evict", "touch", "rotate", "list",
           "revoke", "revokeAll", "verify", "clear", "hook", "validate",
           "insert", "factors", "pend", "anonymize", "read", "write",
           "ok", "refused"}

Call == [at: Points, op: ByToken \cup ByAdmin \cup {"again", "login", "none"},
         token: Tokens, who: Users \cup {NoUser}, remember: BOOLEAN,
         target: SessionIds \cup {NoSession}, s: SessionIds \cup {NoSession},
         snap: Row, out: Tokens]

Idle == [at |-> "idle", op |-> "none", token |-> 0, who |-> NoUser,
         remember |-> FALSE, target |-> NoSession, s |-> NoSession,
         snap |-> Blank, out |-> 0]

Arrival == [aim: SUBSET SessionIds, born: SUBSET SessionIds,
            over: SUBSET SessionIds, locked: SUBSET Users, gone: SUBSET Users]

NoArrival == [aim |-> {}, born |-> {}, over |-> {}, locked |-> {}, gone |-> {}]

Init ==
    /\ now = 0
    /\ account = [u \in Users |-> "active"]
    /\ erased = {}
    /\ row = [s \in SessionIds |-> Blank]
    /\ lastToken = 0
    /\ kept = [c \in Clients |-> {}]
    /\ jar = [c \in Clients |-> 0]
    /\ call = [r \in Requests |-> Idle]
    /\ remembered = {} /\ proved = {} /\ told = {}
    /\ arrival = [r \in Requests |-> NoArrival]

-----------------------------------------------------------------------------
\* What a statement's WHERE clause or a Go condition computes.

\* Mutant: the statement forgets "revoked = false".
LiveWhenRevoked(s) == row[s].user # NoUser /\ row[s].expires > now
Live(s) == row[s].user # NoUser /\ ~row[s].revoked /\ row[s].expires > now

\* GetByTokenHash's WHERE clause.  Mutant: no expiry in it.
MatchesExpired(s, token) ==
    row[s].user # NoUser /\ ~row[s].revoked /\ row[s].token = token
Matches(s, token) == Live(s) /\ row[s].token = token

SessionsOf(u) == {s \in SessionIds : row[s].user = u}

\* Mutant: a remembered session is let off before staff is looked at.
IdleLimitRememberFirst(staff, remember) ==
    IF remember THEN 0
    ELSE IF staff /\ StaffIdleTimeout > 0 THEN StaffIdleTimeout ELSE IdleTimeout
IdleLimit(staff, remember) ==
    IF staff /\ StaffIdleTimeout > 0 THEN StaffIdleTimeout
    ELSE IF remember THEN 0 ELSE IdleTimeout

\* The gate tells remember-me by the length of the session's lifetime.
\* Mutants: by what is left of it; by more than the default lifetime.
LooksRememberedFromNow(x) == x.expires - now >= RememberThreshold
LooksRememberedEarly(x) == x.expires - x.created >= TTL
LooksRemembered(x) == x.expires - x.created >= RememberThreshold

Overdue(x) ==
    LET limit == IdleLimit(x.staff, LooksRemembered(x))
    IN  \/ limit > 0 /\ now - x.active > limit
        \/ ~LooksRemembered(x) /\ MaxLifetime > 0 /\ now - x.created > MaxLifetime

\* Mutant: the wrong status.
LockedOutWrongStatus(u) == account[u] = "suspended"
LockedOut(u) == account[u] = "locked"

\* MaxToken bounds the rotations of an instance.
RotateDue(x) ==
    RotateInterval > 0 /\ now - x.created >= RotateInterval /\ lastToken < MaxToken

May(fault) == IF fault \in Faults THEN {TRUE, FALSE} ELSE {FALSE}

\* The call as the handler leaves it when it writes its response.
Ok(c) == [c EXCEPT !.at = "ok", !.snap = Blank]
Refusal(c) == [c EXCEPT !.at = "refused", !.snap = Blank,
                        !.out = IF c.op = "login" THEN 0 ELSE c.out]

Become(r, c) == call' = [call EXCEPT ![r] = c]
Goto(r, point) == Become(r, [call[r] EXCEPT !.at = point])

\* What a handler behind requireSession does once the session is accepted.
\* requireFullSession passes the gate again with the token it now holds.
Work(c) ==
    CASE c.op = "full" -> [c EXCEPT !.at = "lookup", !.op = "again",
                                    !.token = IF c.out # 0 THEN c.out ELSE c.token]
      [] c.op = "revokeOther" -> [c EXCEPT !.at = "list"]
      [] c.op = "delete" -> [c EXCEPT !.at = "hook"]
      [] OTHER -> Ok(c)

-----------------------------------------------------------------------------
\* Callers.

Arrived(r, token) ==
    arrival' = [arrival EXCEPT ![r] =
                  [aim |-> {s \in SessionIds : Live(s) /\ row[s].token = token},
                   born |-> {s \in SessionIds : row[s].user # NoUser},
                   over |-> told,
                   locked |-> {u \in Users : account[u] = "locked"},
                   gone |-> erased]]

\* A client presents a token it was handed at some time.
Present(r, op, token, target) ==
    /\ call[r].at = "idle" /\ op \in Ops \cap ByToken
    /\ token \in kept[Owner[r]]
    /\ Become(r, [Idle EXCEPT !.at = "lookup", !.op = op, !.token = token,
                              !.target = target])
    /\ Arrived(r, token)
    /\ UNCHANGED <<now, account, erased, row, lastToken, kept, jar, hvars>>

Login(r, u, remember) ==
    /\ call[r].at = "idle" /\ "login" \in Ops /\ (remember => "remember" \in Ops)
    /\ Become(r, [Idle EXCEPT !.at = "validate", !.op = "login", !.who = u,
                              !.remember = remember])
    /\ Arrived(r, 0)
    /\ UNCHANGED <<now, account, erased, row, lastToken, kept, jar, hvars>>

Administer(r, op, u) ==
    /\ call[r].at = "idle" /\ op \in Ops \cap ByAdmin
    /\ Become(r, [Idle EXCEPT !.at = "read", !.op = op, !.who = u])
    /\ Arrived(r, 0)
    /\ UNCHANGED <<now, account, erased, row, lastToken, kept, jar, hvars>>

\* The response reaches the client, or ("reply") is lost on the way.  Both
\* logout handlers clear the cookie whatever they found.
Clears(c) == c.op \in {"logout", "logoutAll"} \/ (c.op = "delete" /\ c.at = "ok")

\* Sessions the answer tells the caller are over.  Logout-all answers 204 even
\* when the gate refused it; that says nothing about the other sessions.
Promised(r) ==
    LET c == call[r]
        a == arrival[r]
    IN  CASE c.op \in {"logoutAll", "lock", "delete"} /\ c.at = "ok" ->
                a.born \cap SessionsOf(c.who)
          [] c.op = "logout" \/ (c.op = "logoutAll" /\ c.at # "ok") -> a.aim
          [] c.op = "revokeOther" /\ c.at = "ok" -> {c.target}
          [] OTHER -> {}

Receive(r) ==
    /\ call[r].at \in {"ok", "refused"}
    /\ Become(r, Idle)
    /\ arrival' = [arrival EXCEPT ![r] = NoArrival]
    /\ \/ LET c == Owner[r]
           IN  /\ told' = told \cup Promised(r)
               /\ jar' = IF Clears(call[r]) THEN [jar EXCEPT ![c] = 0]
                         ELSE IF call[r].out # 0 THEN [jar EXCEPT ![c] = call[r].out]
                         ELSE jar
               /\ kept' = [kept EXCEPT ![c] = @ \cup ({call[r].out} \ {0})]
       \/ /\ "reply" \in Faults
          /\ UNCHANGED <<told, jar, kept>>
    /\ UNCHANGED <<now, account, erased, row, lastToken, remembered, proved>>

-----------------------------------------------------------------------------
\* GetSessionByToken, shared by every operation that presents a token.

Lookup(r) ==
    /\ call[r].at = "lookup"
    /\ LET hits == {s \in SessionIds : Matches(s, call[r].token)}
       IN  \/ \E s \in hits : Become(r, [call[r] EXCEPT !.at = "gate", !.s = s,
                                       !.who = row[s].user, !.snap = row[s]])
           \/ hits = {} /\ Become(r, Refusal(call[r]))
    /\ UNCHANGED <<now, account, erased, row, lastToken, kept, jar, hvars, arrival>>

\* Reads the user; an error of that read lets the request through.  The
\* limits are computed on the row as Lookup read it.
Gate(r) ==
    /\ call[r].at = "gate"
    /\ \E unread \in May("statusRead") :
          Goto(r, IF (LockedOut(call[r].who) /\ ~unread) \/ Overdue(call[r].snap)
                  THEN "evict" ELSE "touch")
    /\ UNCHANGED <<now, account, erased, row, lastToken, kept, jar, hvars, arrival>>

\* RevokeByID; every caller ignores its error.  Mutant: it does nothing.
RevokeRowNever(s) == UNCHANGED row
RevokeRow(s) ==
    \E lost \in May("revoke") :
        row' = IF lost THEN row ELSE [row EXCEPT ![s].revoked = TRUE]

Evict(r) ==
    /\ call[r].at = "evict"
    /\ RevokeRow(call[r].s)
    /\ Become(r, Refusal(call[r]))
    /\ UNCHANGED <<now, account, erased, lastToken, kept, jar, hvars, arrival>>

\* Mutant: only requireSession looks at mfa_pending, requireFullSession does not.
PendingUnlessFull(c) == c.snap.mfaPending /\ c.op # "full"
Pending(c) == c.snap.mfaPending

\* The caller's own checks, on the row as Lookup read it.
Admitted(c) ==
    CASE c.op = "logout" -> [c EXCEPT !.at = "revoke"]
      [] c.op = "logoutAll" -> [c EXCEPT !.at = "revokeAll"]
      [] c.op \in {"again", "direct"} -> Ok(c)
      [] c.op = "challenge" ->
            IF Pending(c) THEN [c EXCEPT !.at = "verify"] ELSE Refusal(c)
      [] OTHER ->
            IF Pending(c) THEN Refusal(c)
            ELSE IF RotateDue(c.snap)
                 THEN [c EXCEPT !.at = "rotate", !.out = lastToken + 1]
                 ELSE Work(c)

\* UpdateLastActive, whose error is ignored, and what the caller makes of it.
Touch(r) ==
    /\ call[r].at = "touch"
    /\ \E lost \in May("touch") :
          row' = IF lost THEN row ELSE [row EXCEPT ![call[r].s].active = now]
    /\ LET c == Admitted(call[r])
       IN  /\ Become(r, c)
           /\ lastToken' = IF c.at = "rotate" THEN c.out ELSE lastToken
    /\ UNCHANGED <<now, account, erased, kept, jar, hvars, arrival>>

\* RotateToken's WHERE clause asks for an unrevoked row only; when it matches
\* none the handler hands out the fresh token all the same.  When it fails the
\* handler goes on with the old one.
Rotated(c) == IF row[c.s].revoked THEN row
              ELSE [row EXCEPT ![c.s] = [@ EXCEPT !.token = c.out,
                                         !.expires = now + TTL, !.active = now]]

\* Mutant: the handler answers without the fresh token.
RotateSilently(r) ==
    /\ call[r].at = "rotate"
    /\ row' = Rotated(call[r])
    /\ Become(r, Work([call[r] EXCEPT !.out = 0]))
    /\ UNCHANGED <<now, account, erased, lastToken, kept, jar, hvars, arrival>>

Rotate(r) ==
    /\ call[r].at = "rotate"
    /\ \E fails \in May("rotate") :
          /\ row' = IF fails THEN row ELSE Rotated(call[r])
          /\ Become(r, Work(IF fails THEN [call[r] EXCEPT !.out = 0] ELSE call[r]))
    /\ UNCHANGED <<now, account, erased, lastToken, kept, jar, hvars, arrival>>

-----------------------------------------------------------------------------
\* Ending sessions.

\* The device list: a session of the caller that is live, or 404.  Mutant: any
\* live session.
ListedAnybody(c) == Live(c.target)
Listed(c) == c.target \in SessionsOf(c.who) /\ Live(c.target)

List(r) ==
    /\ call[r].at = "list"
    /\ LET c == call[r]
       IN  IF Listed(c) THEN Goto(r, "revoke") ELSE Become(r, Refusal(c))
    /\ UNCHANGED <<now, account, erased, row, lastToken, kept, jar, hvars, arrival>>

\* RevokeByID of the named session, or of the call's own after a failed hook.
Revoke(r) ==
    /\ call[r].at = "revoke"
    /\ LET c == call[r]
       IN  /\ RevokeRow(IF c.op = "revokeOther" THEN c.target ELSE c.s)
           /\ Become(r, IF c.op \in {"login", "challenge"} THEN Refusal(c) ELSE Ok(c))
    /\ UNCHANGED <<now, account, erased, lastToken, kept, jar, hvars, arrival>>

\* RevokeAllForUser: logout-all and account deletion ignore its error.
RevokeAll(r) ==
    /\ call[r].at = "revokeAll"
    /\ LET c == call[r]
       IN  \E lost \in May("revoke") :
             /\ row' = IF lost THEN row
                       ELSE [s \in SessionIds |->
                               IF s \in SessionsOf(c.who)
                               THEN [row[s] EXCEPT !.revoked = TRUE] ELSE row[s]]
             /\ Become(r, CASE c.op = "delete" -> [c EXCEPT !.at = "anonymize"]
                            [] c.op = "lock" /\ lost -> Refusal(c)
                            [] OTHER -> Ok(c))
    /\ UNCHANGED <<now, account, erased, lastToken, kept, jar, hvars, arrival>>

-----------------------------------------------------------------------------
\* Login and the MFA challenge.

\* ValidatePassword: a wrong password is refused, a right one of an active
\* account goes on.  SessionIds and MaxToken bound the logins of an instance.
Fresh(s) == row[s].user = NoUser /\ \A q \in Requests : call[q].s # s

Validate(r) ==
    /\ call[r].at = "validate"
    /\ \/ /\ Become(r, Refusal(call[r]))
          /\ UNCHANGED lastToken
       \/ /\ account[call[r].who] = "active" /\ call[r].who \notin erased
          /\ lastToken < MaxToken
          /\ lastToken' = lastToken + 1
          /\ \E s \in SessionIds :
                Fresh(s) /\ Become(r, [call[r] EXCEPT !.at = "insert", !.s = s,
                                                      !.out = lastToken + 1])
    /\ UNCHANGED <<now, account, erased, row, kept, jar, hvars, arrival>>

\* CreateSessionWithTTL; its cap by MaxLifetime can never apply (a ttl of at
\* most MaxLifetime does not end after now + MaxLifetime).
Insert(r) ==
    /\ call[r].at = "insert"
    /\ LET c == call[r]
       IN  /\ \E staff \in StaffFlags :
                row' = [row EXCEPT ![c.s] =
                          [user |-> c.who, token |-> c.out, created |-> now,
                           expires |-> now + (IF c.remember THEN RememberMeTTL ELSE TTL),
                           active |-> now, revoked |-> FALSE,
                           mfaPending |-> FALSE, staff |-> staff]]
           /\ remembered' = IF c.remember THEN remembered \cup {c.s} ELSE remembered
    /\ Goto(r, "factors")
    /\ UNCHANGED <<now, account, erased, lastToken, kept, jar, proved, told, arrival>>

\* UserHasMFA; an error of that read counts as "no factor".
Factors(r) ==
    /\ call[r].at = "factors"
    /\ \E unread \in May("factorRead") :
          Goto(r, IF call[r].who \in MFAUsers /\ ~unread THEN "pend" ELSE "hook")
    /\ UNCHANGED <<now, account, erased, row, lastToken, kept, jar, hvars, arrival>>

\* SetSessionMFAPending; when it fails the session stays as it was inserted and
\* its token goes to nobody.
Pend(r) ==
    /\ call[r].at = "pend"
    /\ \E fails \in May("pending") :
          /\ row' = IF fails THEN row ELSE [row EXCEPT ![call[r].s].mfaPending = TRUE]
          /\ Become(r, IF fails THEN Refusal(call[r]) ELSE Ok(call[r]))
    /\ UNCHANGED <<now, account, erased, lastToken, kept, jar, hvars, arrival>>

\* VerifyLoginCode: a right code or a wrong one.
Verify(r) ==
    /\ call[r].at = "verify"
    /\ \/ /\ Goto(r, "clear")
          /\ proved' = proved \cup {call[r].s}
       \/ /\ Become(r, Refusal(call[r]))
          /\ UNCHANGED proved
    /\ UNCHANGED <<now, account, erased, row, lastToken, kept, jar, remembered, told, arrival>>

Clear(r) ==
    /\ call[r].at = "clear"
    /\ \E fails \in May("pending") :
          /\ row' = IF fails THEN row ELSE [row EXCEPT ![call[r].s].mfaPending = FALSE]
          /\ Become(r, IF fails THEN Refusal(call[r]) ELSE [call[r] EXCEPT !.at = "hook"])
    /\ UNCHANGED <<now, account, erased, lastToken, kept, jar, hvars, arrival>>

\* The host's OnLogin or OnDelete hook.
Hook(r) ==
    /\ call[r].at = "hook"
    /\ LET c == call[r]
       IN  \E fails \in May("hook") :
             Become(r, CASE c.op = "delete" /\ fails -> Refusal(c)
                        [] c.op = "delete" /\ ~fails -> [c EXCEPT !.at = "revokeAll"]
                        [] c.op # "delete" /\ fails -> [c EXCEPT !.at = "revoke"]
                        [] OTHER -> Ok(c))
    /\ UNCHANGED <<now, account, erased, row, lastToken, kept, jar, hvars, arrival>>

-----------------------------------------------------------------------------
\* Account operations.

\* UpdateStatus always writes deleted_at = NULL with the status.  Mutant: a
\* status that SetStatus does not allow.
UpdateStatusUnchecked(u, status) ==
    /\ account' = [account EXCEPT ![u] = IF status = "active" THEN "unlocked" ELSE status]
    /\ UNCHANGED arrival
UpdateStatus(u, status) ==
    /\ account' = [account EXCEPT ![u] = status]
    /\ arrival' = IF status = "locked" THEN arrival
                  ELSE [r \in Requests |-> [arrival[r] EXCEPT !.locked = @ \ {u}]]

\* SetUserStatus of the host API: one statement.
HostSetStatus(u, status) ==
    /\ "setStatus" \in Ops
    /\ UpdateStatus(u, status)
    /\ UNCHANGED <<now, erased, row, lastToken, kept, jar, call, hvars>>

\* LockUser and UnlockUser read the user, decide, and write afterwards.
ReadUser(r) ==
    /\ call[r].at = "read"
    /\ LET c == call[r]
           may == IF c.op = "lock" THEN account[c.who] # "deleted"
                                   ELSE account[c.who] = "locked"
       IN  IF may THEN Goto(r, "write") ELSE Become(r, Refusal(c))
    /\ UNCHANGED <<now, account, erased, row, lastToken, kept, jar, hvars, arrival>>

\* Mutant: LockUser returns without sweeping the sessions.
WriteStatusOnly(r) ==
    /\ call[r].at = "write"
    /\ UpdateStatus(call[r].who, IF call[r].op = "lock" THEN "locked" ELSE "active")
    /\ Become(r, Ok(call[r]))
    /\ UNCHANGED <<now, erased, row, lastToken, kept, jar, hvars>>

WriteStatus(r) ==
    /\ call[r].at = "write"
    /\ LET c == call[r]
       IN  /\ UpdateStatus(c.who, IF c.op = "lock" THEN "locked" ELSE "active")
           /\ Become(r, IF c.op = "lock" THEN [c EXCEPT !.at = "revokeAll"] ELSE Ok(c))
    /\ UNCHANGED <<now, erased, row, lastToken, kept, jar, hvars>>

Anonymize(r) ==
    /\ call[r].at = "anonymize"
    /\ UpdateStatus(call[r].who, "deleted")
    /\ erased' = erased \cup {call[r].who}
    /\ Become(r, Ok(call[r]))
    /\ UNCHANGED <<now, row, lastToken, kept, jar, hvars>>

-----------------------------------------------------------------------------
Tick ==
    /\ now < MaxTime
    /\ now' = now + 1
    /\ UNCHANGED <<account, erased, row, lastToken, kept, jar, call, hvars, arrival>>

Arrive(r) ==
    \/ \E op \in ByToken \ {"revokeOther"}, t \in Tokens \ {0} : Present(r, op, t, NoSession)
    \/ \E t \in Tokens \ {0}, s \in SessionIds : Present(r, "revokeOther", t, s)
    \/ \E u \in Users, remember \in BOOLEAN : Login(r, u, remember)
    \/ \E op \in ByAdmin, u \in Users : Administer(r, op, u)

\* The next statement of the handler in slot r.
Serve(r) ==
    \/ Lookup(r) \/ Gate(r) \/ Evict(r) \/ Touch(r) \/ Rotate(r)
    \/ List(r) \/ Revoke(r) \/ RevokeAll(r)
    \/ Validate(r) \/ Insert(r) \/ Factors(r) \/ Pend(r)
    \/ Verify(r) \/ Clear(r) \/ Hook(r)
    \/ ReadUser(r) \/ WriteStatus(r) \/ Anonymize(r)

Next ==
    \/ Tick
    \/ \E u \in Users, status \in Statuses : HostSetStatus(u, status)
    \/ \E r \in Requests : Arrive(r) \/ Receive(r) \/ Serve(r)

Spec == Init /\ [][Next]_vars

\* A handler goroutine keeps running; clients, administrators and the clock
\* owe nothing.
FairSpec == Spec /\ \A r \in Requests : WF_vars(Serve(r))

-----------------------------------------------------------------------------
\* Properties.

\* Type invariant: one line per variable.
TypeOK ==
    /\ now \in Nat
    /\ account \in [Users -> AccountStates]
    /\ erased \subseteq Users
    /\ row \in [SessionIds -> Row]
    /\ lastToken \in Tokens
    /\ kept \in [Clients -> SUBSET Tokens]
    /\ jar \in [Clients -> Tokens]
    /\ call \in [Requests -> Call]
    /\ remembered \subseteq SessionIds
    /\ proved \subseteq SessionIds
    /\ told \subseteq SessionIds
    /\ arrival \in [Requests -> Arrival]

\* Where a handler of each operation can be, and what it then knows.
GatePoints == {"lookup", "gate", "evict", "touch", "refused"}
PointsOf(op) ==
    CASE op = "none" -> {"idle"}
      [] op = "login" -> {"validate", "insert", "factors", "pend", "hook", "revoke",
                          "ok", "refused"}
      [] op \in ByAdmin -> {"read", "write", "revokeAll", "ok", "refused"}
      [] op = "logout" -> GatePoints \cup {"revoke", "ok"}
      [] op = "logoutAll" -> GatePoints \cup {"revokeAll", "ok"}
      [] op = "challenge" -> GatePoints \cup {"verify", "clear", "hook", "revoke", "ok"}
      [] op \in {"again", "direct"} -> GatePoints \cup {"ok"}
      [] op = "request" -> GatePoints \cup {"rotate", "ok"}
      [] op = "full" -> GatePoints \cup {"rotate"}
      [] op = "revokeOther" -> GatePoints \cup {"rotate", "list", "revoke", "ok"}
      [] op = "delete" -> GatePoints \cup {"rotate", "hook", "revokeAll", "anonymize", "ok"}
      [] OTHER -> {}

Known(c) == c.s \in SessionIds /\ c.who \in Users
Flowing(c) ==
    /\ c.at \in PointsOf(c.op)
    /\ c.at \notin {"idle", "lookup", "validate", "read", "write", "refused"}
            /\ c.op \notin ByAdmin
        => Known(c)
    /\ c.op \in ByAdmin \cup {"login"} => c.who \in Users
    /\ c.op = "revokeOther" => c.target \in SessionIds

\* The strengthening that makes TypeOK inductive.
FlowOK == \A r \in Requests : Flowing(call[r])

\* A call that presented a token and was answered as signed in.
Accepted(r) == call[r].at = "ok" /\ call[r].op \in ByToken \cup {"again"}

\* Once a caller was told that a session is over (logout, logout-all, device
\* revocation, account lock or deletion), no request that arrives later is
\* accepted with it, whatever handlers were in flight in between.
EndIsFinal == \A r \in Requests : Accepted(r) => call[r].s \notin arrival[r].over

\* A request is never accepted when the account was locked from its arrival to
\* its answer: the gate catches the session a login inserts after LockUser's
\* sweep.
LockedNotServed == \A r \in Requests : Accepted(r) => call[r].who \notin arrival[r].locked

\* No request is served with the session of an account that was deleted before
\* the request arrived.
DeletedNotServed == \A r \in Requests : Accepted(r) => call[r].who \notin arrival[r].gone

\* Behind requireSession and requireFullSession a user with a second factor is
\* served only on a session on which the challenge was passed.  Callers that ask
\* GetSessionByToken themselves ("direct") are not behind them, and are served while
\* it is pending, whatever docs/magic-link.md says of the token.
MfaProvedBehindGuard ==
    \A r \in Requests :
        Accepted(r) /\ call[r].op \in Gated \cup {"again"} /\ call[r].who \in MFAUsers
            => call[r].s \in proved

Passes(r) == call[r].at = "gate" /\ call'[r].at = "touch"
Evicts(r) == call[r].at = "gate" /\ call'[r].at = "evict"
Age(r) == now - row[call[r].s].created
Rest(r) == now - row[call[r].s].active
Limit(r) ==
    IF row[call[r].s].staff /\ StaffIdleTimeout > 0 THEN StaffIdleTimeout
    ELSE IF call[r].s \in remembered THEN 0
    ELSE IdleTimeout

\* SESSION_MAX_LIFETIME: the gate passes no session older than the absolute
\* cap, except those that were asked to be remembered.
AbsoluteCap ==
    [][\A r \in Requests :
          Passes(r) /\ call[r].s \notin remembered /\ MaxLifetime > 0
              => Age(r) <= MaxLifetime]_vars

\* SESSION_IDLE_TIMEOUT and SESSION_STAFF_IDLE_TIMEOUT: the gate passes no
\* session unused for longer than the limit its login earned it.
IdleCap == [][\A r \in Requests : Passes(r) /\ Limit(r) > 0 => Rest(r) <= Limit(r)]_vars

\* Remember-me skips both limits: the gate turns a remembered session of a
\* user who is not staff away only when the account is locked.
RememberedStays ==
    [][\A r \in Requests :
          Evicts(r) /\ call[r].s \in remembered /\ ~row[call[r].s].staff
              => account[call[r].who] = "locked"]_vars

\* As long as nobody has ended a session, the cookie a browser holds between its
\* calls is the token of some session: rotation hands the new token to whoever
\* used the old one.
CookieCurrent ==
    (\A s \in SessionIds : ~row[s].revoked) =>
        \A c \in Clients :
            jar[c] # 0 /\ (\A r \in Requests : Owner[r] = c => call[r].at = "idle")
                => \E s \in SessionIds : row[s].token = jar[c]

\* UnlockUser returns only a locked account to active.
UnlockOnlyLocked ==
    [][\A r \in Requests :
          call[r].at = "write" /\ call[r].op = "unlock" /\ call'[r].at # "write"
              => account[call[r].who] = "locked"]_vars

\* A leftover session of a locked account is revoked by the next request that
\* presents it (unless the account is unlocked or the session expires first).
LeftoverRevoked ==
    \A r \in Requests, s \in SessionIds :
        (call[r].at = "lookup" /\ s \in arrival[r].aim
            /\ row[s].user \in arrival[r].locked)
        ~> (~Live(s) \/ account[row[s].user] # "locked")

\* Sessions come to an end only through a statement of a handler that runs for
\* their own user, or by their expiry.
OwnSessionsOnly ==
    [][\A s \in SessionIds :
          row'[s].revoked /\ ~row[s].revoked
              => \E r \in Requests : call'[r] # call[r] /\ call[r].who = row[s].user]_vars

-----------------------------------------------------------------------------
\* Without rotation the component implements SessionLife.

lifeOf == [s \in SessionIds |->
             IF row[s].user = NoUser THEN "unborn" ELSE IF Live(s) THEN "open" ELSE "over"]

admittedOf == [r \in Requests |->
                 IF /\ call[r].op \in ByToken \cup {"again"}
                    /\ call[r].at \notin {"idle", "lookup", "refused"}
                 THEN call[r].s ELSE NoSession]

Life == INSTANCE SessionLife WITH life <- lifeOf, admitted <- admittedOf

\* The session life cycle: opened once, ended once, and every request answered as
\* signed in was admitted by a session that was open at that moment.
ImplementsLife == Life!Spec
=============================================================================
