# authpad in TLA+

A verification development for authpad, the embeddable Go authentication service
in `src/`. It models the parts of authpad in which several handlers, statements or
clients can meet, checks them with TLC on small instances, and proves the central
facts for every instance with TLAPS.

## The system

authpad is one Go process (or several) in front of two PostgreSQL databases, *Auth*
(users, credentials, sessions, tokens, factors) and *IdP* (profiles, roles,
organisations, invitations). Handlers run concurrently, one goroutine per HTTP
request. There are no transactions: every repository method is one autocommit
statement, so **two handlers interleave between any two statements**, and a handler
that fails half-way leaves what it has written. That is the concurrency every module
here models: a handler is a process that takes one step per statement. The one place
with goroutines of its own, the magic-link jobs and the purge, is modelled with them.

| component | state | operations | what is hard | what makes it correct |
|---|---|---|---|---|
| sessions (`auth_service.go`, `session_repo.go`, `helpers.go`, `auth_handlers.go`) | `sessions` rows, tokens, cookies | gate (`GetSessionByToken`), rotation, login, logout, logout-all, device revocation, MFA pending | stale reads between statements, rotation against parallel requests, ignored errors, time limits | an ended session is never accepted; limits are those the login earned; nothing behind the session guard is served before MFA |
| account status (`auth_service.go`, `user_auth_repo.go`) | `users_auth.status`, `deleted_at` | lock, unlock, set status, delete | check-then-act, sweeps racing logins | locked accounts are not served, unlock clears only a lock |
| accounts and passwords (`auth_service.go`, `account_service.go`) | users, credentials, reset and verification tokens | signup and its rollback, change, reset and first setting of a password, verification | sagas over two databases, tokens read first and deleted last, updates by a row read before | a failed signup leaves nothing; a password is replaced only on proof of that very password or an unused token |
| magic link (`magic_link_service.go`, `magic_link_code_service.go`) | link tokens, exchange codes | issue, verify, find-or-create, take-over, exchange, expiry | concurrent clicks, creation races, take-over | one session for one caller per link; a take-over leaves nothing of the squatter |
| link requests and shutdown (`magic_link_service.go`, `server.go`) | job pool, wait group, purge goroutine | submit, the job, purge, `Close` | a full pool, jobs that fail or panic, closing with work in flight | no job keeps its place; `Close` returns with nothing at work |
| rate limiting (`window_limiter.go`, `security.go`) | counters in memory or Redis | allow, sweep | window edges, `INCR` without its `EXPIRE` | at most two windows' worth in any window; who waited gets in |
| oauth (`oauth_service.go`) | states, linked identities | redirect, callback, link or create | state replay, two callbacks of one identity, failing statements nobody rolls back | one session per state; an identity reaches one account |
| instance invites (`invite_service.go`) | invitations | issue, validate, redeem, revoke | a saga with a late rollback, expiry and revocation on the way | one account per invitation |
| organisations (`org_service.go`, `org_repo.go`, `org_handlers.go`) | organisations, role catalogs, memberships, departments, levels, invitations, active organisation | found, edit, invite, accept, change role, remove, switch, units | count-then-update, authority checked long before the write, upserts, foreign keys | authority is held at some moment of the call; `PATCH` and `DELETE` of members spare a sole owner; one caller per invitation is told that he joined; units and roles belong to their organisation |
| MFA factors (`mfa_service.go`) | factors, recovery codes | enrol, confirm, remove, challenge | delete-then-insert, a code presented twice | a recovery code works once; the codes shown work |
| profiles, roles, groups; audit; mail; middleware; configuration; security helpers | — | single-statement or pure | — | not modelled, see the end |

Interaction: every authenticated handler passes the session gate; password login,
OAuth, magic link, redeemed invitations and the host API create sessions; account
status, password change, take-over and deletion end them; organisations and MFA write
fields of the session row; all of them share the user row.

## Modules

| module | models | composed of |
|---|---|---|
| `SessionLife` | the abstract promise of sessions: opened once, ended once; a request is admitted only by an open session and answered as signed in only if admitted | |
| `Sessions` | sessions, the gate, rotation, login, the ways to end a session, account status | refines `SessionLife` |
| `SessionsProofs`, `SessionsSafety`, `SessionsTokens` | proofs about `Sessions`: types; locks, whose session ends, and the life cycle; tokens, the second factor, the time limits and endings | |
| `OneTimeGrant` | the abstract promise of every one-time token: issued, taken at most once while open, bearing one fruit, by the one that took it | |
| `Accounts` | user, credential, profile, factor and session rows; the signup saga with its rollbacks; the end every sign-in shares | |
| `MagicLink`, `OAuth`, `InstanceInvites` | one way in each | extend `Accounts` |
| `Admission` | all of these on one set of rows, with history and properties | links, states and invitations each refine `OneTimeGrant` |
| `AdmissionProofs` | proofs about `Admission` | |
| `Credentials` | what the holder of one account proves with: password, reset and verification tokens, authenticators, recovery codes | recovery codes refine `OneTimeGrant` |
| `CredentialsProofs`, `CredentialsFactors` | proofs about `Credentials`: types, tokens and passwords; the challenge and recovery codes | |
| `Organizations` | tenancy | invitations refine `OneTimeGrant` |
| `OrganizationsProofs` | proofs about `Organizations` | |
| `LinkRequests` | the way from `POST /magic-link` to the mail, the limiters, shutdown | |
| `LinkRequestsProofs` | proofs about `LinkRequests` | |
| `MCSessions`, `MCAdmission`, `MCCredentials`, `MCOrganizations`, `MCLinkRequests` | instances, workloads and symmetry for TLC | |

`Accounts` and `Credentials` see the same tables from two sides. The first has many
accounts, whose password and factors are only there or not; the second has one account,
whose password and factors have identities, rows and codes. Each has the sign-in in as
much detail as its properties need, and `Sessions` has sessions in full.

### Sessions

`row[s]` is the sessions table, `account[u]` the user's status (`"deleted"` stands for
`deleted_at`), `call[r]` the handler in slot `r`: `at` is its next statement, `snap` the
row it has read, `out` the fresh token its response will carry. `kept` and `jar` are
what clients hold: every token they were ever handed, and the browser cookie.
`remembered`, `proved`, `told` and `arrival` are history: what callers asked for, proved
and were told. No guard reads them.

| code | actions |
|---|---|
| `GetSessionByToken` | `Lookup` (token row), `Gate` (user row, limits), `Evict` or `Touch` |
| `requireSession`, `RotateSession` | `Touch` decides (pending, rotation due), `Rotate` |
| `requireFullSession` | operation `full`, whose second pass is operation `again` |
| `isAdmin`, `canAccessUser` | operation `direct`: the gate alone, with neither the pending check nor rotation |
| `Login`, `CreateSessionWithTTL` | `Validate`, `Insert`, `Factors`, `Pend` or `Hook` (`Revoke` when it fails) |
| `Challenge` | gate, `Verify`, `Clear`, `Hook` |
| `Logout`, `LogoutAll`, device `RevokeSession` | gate, `Revoke`; gate, `RevokeAll`; gate, `List`, `Revoke` |
| `LockUser`, `UnlockUser` | `ReadUser`, `WriteStatus`, (`RevokeAll`) |
| `DeleteAccount` | gate, `Hook`, `RevokeAll`, `Anonymize` |
| `SetUserStatus` (host API) | `HostSetStatus` |
| response and cookies | `Receive` |

Errors the code swallows are the constant `Faults`: `statusRead` (the gate lets a
request through when the user cannot be read), `factorRead` (login skips MFA), `revoke`
(ignored errors of `RevokeByID` and `RevokeAllForUser`), `touch` (that of
`UpdateLastActive`), `rotate` (a failed rotation is answered with the old token), `pending`
(`SetSessionMFAPending` fails), `hook` (a host hook fails), `reply` (a response is lost).
Errors answered before anything is written are a refusal. The application's clock and the
database's are one; the timestamps a login computes are those of its `INSERT`; a password
check is a choice here; whether a user is staff is a choice made at login, as the flag is
stored on the row then; the credential and profile deletions of `DeleteAccount` touch no
state of this module. `CreateSessionWithTTL`'s cap by `MaxLifetime` is left out because it
can never apply (a `ttl` of at most `MaxLifetime` does not end after `now + MaxLifetime`).

### Admission: Accounts, MagicLink, OAuth, InstanceInvites

`user`, `password`, `factored` and `profile` are the rows of both databases for each
user, `session` the sessions reduced to whether they are usable, `staff` what the
classifier answers. The statements of a handler follow `Routes`, one list for each way
it may go; refusals and rollbacks branch off. `config` is what the server was started
with and what is asked of it. `handed` and `since` are history: how many sessions a
token has brought to callers, and what held without interruption since a call arrived.

| code | actions |
|---|---|
| `CreateAccount` | `Signup`, `Taken`, `InsertUser`, `InsertCredential`, `InsertProfile`, `InsertSession`, `OnSignup` |
| `CreatePasswordlessAccount` | `InsertUser`, `InsertProfile`, `Mark`, `OnSignup` |
| `RollbackProfile`, `RollbackUser` | `DeleteProfile`; `DeleteCredential`, `DeleteUser` (with what cascades) |
| `process` (store and mail a link) | `Issue`; the way there is `LinkRequests` |
| `MagicLinkService.Verify`, `FindOrCreate` | `ConsumeLink`, `Find`, (the creation, `Again` or `Reread`), `CheckStaff`, `CheckPassword` |
| `TakeOver` | `Sweep`, `RemovePassword`, `RemoveFactors`, `Mark` |
| `MagicLinkHandlers.Verify`, `complete`; OAuth `finishSession` | `InsertSession`, `Second`, `Pend` or `OnLogin` (`Revoke` when it fails), `CreateCode` |
| `Exchange` | `Exchange`, `BurnCode`, `IssueToken`, `CheckStatus` (`Revoke`) |
| OAuth `AuthURL`, `Callback` | `AuthURL`; `Callback`, `ConsumeState`, `Identify`, `Lookup`, `Match`, `InsertLink`, `Look`, `Greet`, `CheckLocked`, `CompleteTenancy` |
| `InviteService` | `IssueInvite`, `RevokeInvite`; `Redeem`, `Validate`, (the creation), `AssignRole`, `MarkRedeemed`, `Answer` |
| expiry, `PurgeExpired` | `Lapse`, `StateLapses`, `InviteLapses` |
| host `SetUserStatus`; role grants; enrolment | `HostSetStatus`; `Promote`; `Enrol` |

`"inactive"` stands for every status but active and locked. `RemoveFactors` lists and
deletes in one step, and an enrolment is one step (`Credentials` has its statements); the
form nonce, the redirect's allow-list, PKCE and the origin are one choice (`right` in
`BurnCode`); the provider is external and names any identity with any address; tenants,
the session's own expiry and audit are left out. A workload names the statements that may
fail; among them are three whose errors the code ignores: `second` (factors that cannot be
read count as none), `status` (so does the status of a provider sign-in) and `undo` (a
deletion of a rollback).

### Credentials

`credential` is the one row of the account's password with its id (`UpdateHash` goes by
the id read before), `token` the reset and verification tokens, `factor` and `recovery`
the MFA tables, `held` everything callers were handed or mailed. A hash is the secret it
verifies, a TOTP code the authenticator that makes it, and `Nil` that of the empty key.
`spent`, `opened` and `since` are history.

| code | actions |
|---|---|
| `Login`, `ValidatePassword`, host `Login` | `LogIn` or `HostLogIn`, `ReadUser`; `Match`, `InsertSession`, `Second`, `Pend` or `OnLogin` (`Revoke`) |
| `SetPassword` | `SetPassword`, `Reload`, `CheckActive`, `ReadCredential`, `CreateCredential` or `UpdateHash`, `RevokeOthers` |
| `PasswordResetRequest`, `ResetPassword` | `AskReset`, `LookUp`, `IssueReset`; `ResetPassword`, `ReadCredential`, `CheckOwner`, `CreateCredential` or `UpdateHash`, `SpendReset` |
| `ResendVerification`, `VerifyEmail` | `Resend`, `ClearProofs`, `MintProof`; `VerifyEmail`, `MarkVerified`, `ClearProofs` |
| `EnrollTOTP`, `GenerateRecoveryCodes` | `Enrol` or `HostEnrol`, `InsertFactor`, `WipeCodes`, `InsertCode` per code |
| `VerifyTOTP`, `DeleteFactor` | `Confirm`, `CheckTOTP`, `ConfirmFactor`; `Drop`, `DeleteFactor` |
| `Challenge`, host `CompleteMFA` | `Challenge` or `CompleteMFA`, `CheckTOTP` and `ConfirmFactor` or `ListFactors`, `Recover`, `Unpend`, `OnLogin` |
| `TakeOver` | `TakeOver`, `Sweep`, `RemovePassword`, `RemoveFactors`, `MarkVerified` |

### Organizations

A call carries the list of its statements (`route`), named for the queries, the number
of the one it runs next, and what earlier ones have read; `Create == <<"limit",
"insertOrg", "seed", "extra", "add">>` is `OrgService.Create`. One action per statement, one
per route and host call (`On...`, `Host...`). `seen` is history: every authority the caller
has had, every rank the target has had, whether the target was the only owner throughout,
whether there was a free seat once, all since the call arrived. A name is a slug, which is
unique and never reused; each user has one session.

### LinkRequests

A slot is one request and the job it starts (or a rate-limited call of another route);
`sem` is the number of tokens in the channel, `wg` the wait group, `entry` the counters
(of `MemoryWindowLimiter` or in Redis) with the time they have left, `sweep` the time to
the next sweep, `server` the stage of the shutdown, `purge` the cleanup goroutine.
`admitted` is history: how many hits were allowed, by age.

| code | actions |
|---|---|
| `POST /magic-link`, `Submit` | `Arrive`, `Submit` (a place or dropped), `Begin` (`wg.Add`, 202) |
| `process` | `Allow` for the address, `AskEmail`, `Allow` for the e-mail, `Judge`, `Work`; `Panic`; the deferred `Release`, `Done` |
| `MemoryWindowLimiter.Allow`, `RedisWindowLimiter.Allow` | `InMemory` (one critical section), `InRedis` and `Expire`; `NoLimit`, `Unanswered` |
| exchange limit, Redis variant of `RateLimiter` | `Allow`, `Expire`, `End` |
| `StartCleanup`, `PurgeExpired` | `Purged`, `PurgeAgain`, `PurgeEnds` |
| `srv.Shutdown`, `Server.Close` | `Shutdown`; `StopCleanup`, `AwaitCleanup`, `Close` |

Time is relative: `left` counts down, so nothing grows. The jobs are fast beside the
unit, but nothing forces that: `Tick` may fall between any two statements of a slot, save
between `INCR` and its `EXPIRE` (a crash there is the fault `expire`).

Mutants (`...WhenRevoked`, `...Unchecked`, `Panic...`, and so on, each marked in its
comment) are plausible bugs kept beside the definition they replace; no specification
uses them.

## Runs

Two handler slots are enough for every race the code has here: each is between one
handler stopped between two of its statements and one other. Beyond that an instance
does not do everything at once: `Init` of the larger modules chooses one of several
*workloads* (`Configs`, `Scenes`), each a set of operations, faults and rows at the
start, and one run explores them all. The MC modules say what each is for.

| run | instance | shows |
|---|---|---|
| `sessions_timeouts` | 1 user, 1 session, 2 slots, clock to 7, staff or not, remembered or not, fault `touch` | `AbsoluteCap`, `IdleCap`, `RememberedStays` |
| `sessions_endings` | 2 users, 2 sessions, 2 devices with 1 slot each, rotation due at once, deletion, fault `rotate` | `EndIsFinal`, `CookieCurrent`, `OwnSessionsOnly` |
| `sessions_life` | 1 user with a factor, 2 sessions, one tick, lock, callers behind both guards and behind none, faults `statusRead`, `revoke`, `hook` | `MfaProvedBehindGuard`, `ImplementsLife` (refinement) |
| `sessions_lock` | 1 user with a factor, 1 session, 2 slots, behind the guard or not, lock, unlock, host status, faults `pending`, `reply` | `TypeOK`, `EndIsFinal`, `LockedNotServed`, `LeftoverRevoked` |
| `admission` | 2 addresses, 2 users, 2 sessions, 2 identities, 2 links, 1 code, 2 states, 2 invitations, 2 slots; twelve workloads | `TypeOK`, `BarredNotSignedIn`, `SecondFactorAsked`, `OwnIdentity`, `RefusedLeavesNothing`, `WipedBeforeVerified`, `LinkIsOneTime`, `StateIsOneTime`, `InviteIsOneTime` (refinements) |
| `credentials` | 1 account, 2 secrets, 3 sessions, 2 reset and 2 verification tokens, 2 authenticators, 3 recovery codes (2 a set), 2 slots; eleven workloads | `TypeOK`, `PasswordProved`, `OthersRevoked`, `UsedTokensDie`, `ShownCodesWork`, `SecondFactorAsked`, `CodeIsOneTime` (refinement) |
| `organizations` | 2 organisations, 3 users, 1 invitation, 1 department, 1 level, 1 extra role, 2 slots; thirteen workloads | `TypeOK`, `UnitsAtHome`, `RolesInCatalog`, `AuthorityHeld`, `RankRespected`, `SoleOwnerKept`, `SeatAvailable`, `InvitationIsOneTime` (refinement) |
| `link_requests` | 3 slots, pool of 2, 2 e-mails, 1 address, windows of 3 and 1, limits of 1 and 2; six workloads | `LimitKept`, `RefusedOnlyWhenSpent`, `DroppedOnlyWhenFull`, `ShutdownInOrder` |

**Bounds.** `Sessions`: `MaxTime` and `MaxToken` bound the clock and the tokens ever
minted; the durations keep the order of the defaults (idle < TTL < 20 days <
remember-me), so that every comparison in the gate goes both ways within `MaxTime`; two
sessions separate "this one" from "all of the user's", two users own from foreign.
`Admission`: one address is enough except where a provider changes it, as handlers of
different addresses share no row; two user ids let an account be created, rolled back
and created again; two tokens of a kind give the double presentation and its rival; `Room` keeps
a call from arriving when the ids would run out under it; no deadline needs counting, as
expiry is an action of its own. `Credentials`: `CodesPerSet` is 2 for the code's 8, which
separates the first, the others and all; `MaxRow` bounds the rows of the credential, and
three are a password, its removal, and a rival's. `Organizations`: limits of one seat,
any ranks of up to three members. `LinkRequests`: a capacity of 2 for 64 with three
requests; a limit of 2 and windows of two lengths give the last hit, the first refused
one and a sweep paced by the other window; counters saturate one past the limit, as the
code tells no difference beyond.

**Fairness** is used for two properties. `LeftoverRevoked` (`Sessions`): weak fairness of
each handler's next statement, as a goroutine keeps running; clients, administrators and
the clock owe nothing. `ShutdownInOrder` (`LinkRequests`): weak fairness of each slot
(contexts bound what a job waits for), of a purge under way and of the closing
goroutine; strong fairness of the end of the purge, because a `select` that finds both
ticker and context ready picks at random and may prefer the ticker, but not for ever.
Nobody has to send a request. It holds for programs that stop their handlers before
`Close`, as `cmd/example` does with `srv.Shutdown`; `examples/embed-chi` does not, and a
handler still running there may add to the wait group while `Close` waits for it.

The runs of `Sessions` keep the deadlock check: a client may always try a password. The
others cannot, since an instance comes to rest when its ids are used up or the server is
closed. `EndIsFinal` holds, and is proved, with rotation off (`sessions_lock`) and, with
rotation on, where a device has one call at a time (`sessions_endings`).

The refinement mappings are what make the one-time properties say something. A link, for
instance, is *held* while the handler that consumed it is on its way, while a code of
its session is open, or while an exchange has burned that code; *done* when a session
reached a caller; *dead* when it lapsed or its handler was refused. An invitation that
expires stays open to those who read it before, as its last `UPDATE` does not look at
the expiry; a recovery code is held between its `UPDATE` and the end of the challenge.

### Disagreements of code and documents

Runs of their own (`finding_*`), one property each:

* `finding_rotation_cap` — the gate tells remember-me by `expires_at - created_at`, and
  rotation moves `expires_at`. Old ordinary sessions therefore escape the absolute cap
  (and the idle limit), and remembered sessions lose their exemption at the first
  rotation: `IdleCap` and `RememberedStays` fail with rotation on as well.
* `finding_unlock` — unlock clears a suspension set after its check.
* `finding_delete` — a login in flight during deletion leaves a session that is served
  for the deleted account.
* `finding_last_owner` — two owners who leave at once both count two owners, and the
  organisation is left without one.

Four more have no run of their own. The models contain each of them, and the properties of
the passing runs are stated so that they stop where these begin:

* `isAdmin` and `canAccessUser` look a session up and do not ask whether it awaits its
  challenge (`helpers.go:209`, `:187`), so administration handlers and the user endpoints of
  `idp_handlers.go` serve it, while `docs/magic-link.md:85` has its token work for the
  challenge only. They are the operation `direct` of `Sessions`; `MfaProvedBehindGuard`
  speaks of `requireSession` and `requireFullSession`.
* `RevokeInvite` checks its caller in the organisation the slug names and revokes by the
  id of the invitation, which may be of another one (`org_service.go:552`);
  `docs/tenancy.md:50` has callers be members. `AuthorityHeld` leaves such a call out
  (`Foreign`); the workload `Meddling` has it.
* The only owner who accepts an invitation to his own organisation takes its role
  (`org_service.go:523`), which is never owner; `docs/tenancy.md:46` has the last owner stay.
  `SoleOwnerKept` speaks of `PATCH` and `DELETE` of a member.
* `CompleteMFA` turns away the code of a verified authenticator, which its comment
  (`host_ops.go:188`) says it verifies: it names no factor, and `ListByUserID` leaves the
  secrets out (`ListFactors` of `Credentials`).

### What else the models do

Modelled, and seen in their behaviours, without a run of their own:

* Sessions. Two requests of one browser that both rotate can leave it the token that
  lost. A request stalled inside the gate evicts, for inactivity, a session used
  meanwhile. A logout racing a rotation of the same browser answers 204 and ends nothing
  (so `sessions_endings` has one call at a time per device). Logout-all answers 204 when
  the gate refused the caller. Every status write also sets `deleted_at` to NULL
  (`user_auth_repo.go:83`). `RotateToken` checks `revoked` but not `expires_at`
  (`session_repo.go:102`). A lost response that carried a rotated token signs the browser
  out (`helpers.go:125`). An error of `UserHasMFA` skips the challenge
  (`auth_handlers.go:184`).
* Sign-in. Two links of one new address: the second reads the account before the first
  has marked it verified, takes it over and revokes the session the first has just
  opened (`magic_link_service.go:318`; the comment at `:69` speaks of unverified accounts only). A
  password signup that inserts its credential after a take-over removed it leaves a verified
  account with that password; a signup that rolls back deletes an account that a link
  has verified and signed in meanwhile. The OAuth callback rolls nothing back, refuses
  only `locked` (a suspended account gets a session, which the gate then refuses), takes over
  nothing from an unverified account it matches, and treats a lookup that failed as "not
  found". The profile a provider inserted may survive the rollback of a signup, and a rolled-back
  redemption leaves its `user_roles` row.
* Credentials. `ResetPassword` looks neither at the status nor at the sessions; two
  resets that read one token before either deletes it both succeed. A login in flight
  while the password changes keeps its session. `SetPassword` answers 204 although a
  take-over removed the row meanwhile. `ListByUserID` of the factors leaves the secret
  out, so a challenge without a `factor_id`, like `CompleteMFA`, validates codes against an
  empty secret (`mfa_service.go:177`): of all authenticators' codes only that of the empty
  key passes, and recovery codes do (`ListFactors`).
* Organisations. Two accepts of one invitation both join, and only one of them is told so;
  two joins that each count before the other inserts exceed the limit; `AddMember` skips the
  limit for a removed row, and `SetMemberRole` may revive a membership removed meanwhile;
  `PATCH` writes all columns back, so one of two edits is lost; a signup that deletes its
  account leaves its membership (`auth_handlers.go:92`).
* Link requests. The purge goroutine ends for good after a panic. A counter whose
  `EXPIRE` was lost refuses for ever, and a Redis that is down refuses nobody: F9 and F10 of
  `docs/magic-link.md`.

## Proofs

**Sessions.** `SessionsProofs!TypeCorrect` proves `Spec => []TypeOK` for all constants
satisfying the assumptions of `Sessions`. `TypeOK` alone is not inductive: that `proved`
stays a set of sessions needs that a handler at `verify` has looked one up. The invariant
`IInv` adds `FlowOK`: a handler is at a point of its own operation (`PointsOf`), and past
its lookup it knows its session and user. The proof has one lemma per action;
`BecomeOK`, `CallOnly` and `CallAndRow` carry what all of them share.

`SessionsSafety!LockIsEffective` proves `[]LockedNotServed` when the gate can read the
user (`"statusRead" \notin Faults`). The invariant `LockInv` says that the accounts
recorded as locked since a call's arrival still are, and that no handler inside the gate
runs for one of them; the gate's read of the status is the only way in.

`SessionsSafety!EndingsAreOwn` proves the action property `OwnSessionsOnly` with rotation
and every fault. `Ties` says that the session of a handler past its lookup, of a second
pass of the gate and of a login that has inserted is its user's, and that a device
revocation names a session of its user from `List` to `Revoke`; a login inserts into a
row no other handler knows, so no row changes its user.

`SessionsSafety!LifeIsKept` proves that `Sessions` implements `SessionLife` when rotation
is off, whatever errors are swallowed. With `Ties` the rows a step revokes, or `Tick`
lets expire, are the sessions the abstract step ends, and a handler is admitted by
`Lookup`, which reads an unrevoked, unexpired row, and by nothing else.

`SessionsTokens!SecondFactorBehindGuard` proves `[]MfaProvedBehindGuard` when the factors can
be read at login (`"factorRead" \notin Faults`; with that error the code skips the
challenge). It speaks of what `requireSession` and `requireFullSession` let through; the
operation `direct` is in the model, with the others, and is not behind them. What
has to be excluded is a request on a session whose login has inserted the row and not
yet set `mfa_pending`. `TokenInv` says why there is none: tokens identify rows, and a
token that a login or a rotation has minted is in no other handler and with no client
until it is answered (`Secret`); what a handler carries opens its own session only
(`OpensOnly`), so the second pass of the gate sees the session of the first even after
a rotation. `ProvedInv` then says that a session of such a user that is not pending was
proved, but for one its login has still to look at (`Opening`), and so was the session
of every handler that will not ask again (`Settling`).

`SessionsTokens!CookieOpens` proves `[]CookieCurrent` under `OneCallEach`: each client runs
one call at a time and no answer is lost (`"reply" \notin Faults`). Both are needed: of
two calls that rotate, the answer of the first may reach the browser last, and a lost
answer takes the new token with it. Rotation, the second pass of the gate and
every other fault stay in. `OwnerInv` says that every session has one client
that knows its token or runs the handler that does, so nobody else rotates it; `CookieInv`
that what a handler will hand over is the token of its session (`Backed`), and that a
browser's cookie is that of a session or is about to be replaced (`Current`).

`SessionsTokens!EndingIsFinal` proves `[]EndIsFinal` when no revocation is lost and calls
are `Orderly`: rotation is off, or each client makes one call at a time. Lost answers,
failing hooks and the other faults stay in. A lost revocation makes it false, and so do a
rotation and a logout of one client side by side. `RotateToken` does not look at the expiry,
so an expired session is not over while a handler at the gate or behind it may still rotate
it: `Over` holds the sessions that are revoked, or expired with no such handler left
(`Reviving`). A handler gets hold of an open session only, hence nothing leaves `Over`
(`ServeOver`), with any number of calls. `EndInv` says that `told` is within `Over` and,
per handler (`Honest`): the session it holds was not over when it arrived; the session a
logout was aimed at is the one it looked up, or is over; a sweep has ended what its user had
when the caller arrived; a device revocation has ended the session it names. `OwnerInv` is
needed for one step, the lookup of a logout that finds nothing: nobody has rotated the
token away, and nobody is left to revive the session (`OneHandler`).

`CapHolds`, `IdleHolds` and `RememberedAreLetIn` (same module) prove the three limits of the
gate, `AbsoluteCap`, `IdleCap` and `RememberedStays`, under `Telling`: rotation off, and
`TTL < RememberThreshold <= RememberMeTTL`, as with the defaults of 7, 20 and 30 days. With
rotation on all three fail (`finding_rotation_cap`), and with lifetimes in another order the
gate cannot tell remembered sessions from ordinary ones. `TimeInv` says that each
row's lifetime is what its login asked for, that no use lies in the future (`Dated`), and
that the row a handler judges at the gate differs from the one in the database only in an older
`last_active_at` (`Outdated`): what was not over by the older time is not over by the newer.

**Link requests.** `LinkRequestsProofs!PlacesComeBack` proves
`Spec => DroppedOnlyWhenFull`, and `NothingAfterClose` the safety half of
`ShutdownInOrder`, for every capacity, every finite set of slots and every configuration,
under `SizeAssumption`. Their invariant has three parts: `SlotsOK` (a slot is at a point
of its own kind), `CountsOK` (`sem` is the number of jobs that hold a place and `wg`
the number of those counted in and not done) and `StopsOK` (from `stopping` on no slot is in
a handler, from `waiting` on the purge has ended, and at `closed` no slot is at work).
That `sem` and `wg` count sets is what makes `Submit`'s and `Close`'s conditions mean
what they should; each step moves at most one slot in or out of either set.

`WindowsAreKept` proves `[]LimitKept` and `RefusalsAreEarned` the action property
`RefusedOnlyWhenSpent`, for every limit and window. Neither speaks of a counter: both relate the
hits of the history, by age, to the limit. `LimitsInv` ties them: for each counter there is a
moment, `b` units ago, when it began to count, such that the hits since are no
more than its count up to the limit, and those before, as far as a window reaches, no more than
the limit (`Upper`, unless `INCR` fails); and no fewer than its count (`Lower`, unless its
`EXPIRE` is lost). The time a counter has left and `b` make up its window, so when it
is opened again what it counted before is the part that must leave the window in time. `Turn`
lists the six things a step can do to one counter (`StepTurns`), and hits are counted
as finite sets, which a unit of time maps one to one into those a unit older.

**Credentials.** All seven properties its run checks are theorems, for any set of
requests, sessions, tokens, factors, codes and secrets that satisfy
`CredentialAssumption` (the kinds of values are told apart; finitely many requests).

* `CredentialsProofs!TypeCorrect` proves `TypeOK` from `Inv`, which adds `FlowOK`: a
  handler is at a point of its own operation, with what the statement there needs.
* Its second invariant, `Safe`, says of each handler what it knows of
  the tables: the token it presents was unspent when it arrived (`TokenFacts`), the row it
  is about to change is one whose secret its caller has shown (`PasswordFacts`), the
  sessions it must revoke are rows of others, and revoked once it is answered
  (`OthersFacts`). Other handlers cannot spoil this knowledge because rows only go one way
  (`Grown`): a spent token stays spent, a revoked session revoked, a verified address
  verified. From it `LinksDie` proves `[]UsedTokensDie`, `ChangeEndsOthers`
  `[]OthersRevoked` and `ChangeIsProved` the action property `PasswordProved`.
* `CredentialsFactors!FactorIsAsked` proves `[]SecondFactorAsked`. A second look at the
  factors is not enough: a challenge could open the session between the login's own
  statements. `Asked` adds that the session of a login under way has been handed to nobody
  (`OwnSession`), belongs to no other login (`Apart`), and that challenges are passed only
  for sessions handed out (`Presented`).
* `CredentialsFactors!CodesAreOneTime` proves `CodeIsOneTime`, that each recovery code refines
  `OneTimeGrant`: the initial states are initial there, and each step issues, takes, opens,
  revokes or stutters. `Coded` says who carries a code: at most one handler, the one that
  marked its row used, and only while the code has opened nothing.
* `CredentialsFactors!CodesWork` proves `[]ShownCodesWork`. `Renewed` says of an enrolment that
  nobody has overlapped that what it has written is open and in nobody's hands, and that
  nothing else is open once the old codes were deleted (`Shows`). Codes are handed out only by
  the enrolment that wrote them, and presented only by those who hold them (`Offered`), so no
  challenge can use one up before the answer; a code that is held or kept by a
  handler is a row (`Written`, `HeldWritten`), so the next one minted is new to all.

**Admission.** All nine properties its run checks are proved, in `AdmissionProofs`, for any
sets of accounts, addresses, sessions, identities and tokens (no token of two kinds:
`TokenAssumption`), any workload, and finitely many slots (`InstanceAssumption`; `Room`
counts the calls under way). Each of the forty-odd steps is described once, as `Good`: rows
keep their types and what foreign keys keep, and nothing comes back that was gone
(`RowsGood`); and at most one handler moves, in one of eight ways (`Moves`: it enters,
leaves, is refused, walks on, has made or found an account, has opened a session, has traded
its code), with what the statement has just read or written. `StepGood` rests on two lemmas
per statement; all else looks only at `Good`. The invariant `AllInv` has four parts:

* `Inv`: `TypeOK`; `Keyed`, that a usable session, a password or a factor has its
  user; and `FlowOK`, that a handler is at a point of its path, with the account and
  the session it needs there.
* `SinceNow`: the sessions the history holds are usable now.
* `Owned`: no two handlers have made the same account. Without it a rollback could delete the
  user of another signup, and a refusal leave that one's profile.
* `Facts`, per handler. What a check has seen otherwise, the history no longer holds, and the
  history only shrinks (`Shrunk`): so a guard passed once serves to the end, however long
  ago it was (`BarredFacts`, `FactorFacts`, `WipeFacts`). An identity is linked anew only when
  its account is gone (`IdentityFacts`); a profile is written in the name of a signup only
  by that signup (`SignupFacts`).

From it follow `TypeCorrect`, `BarredStayOut`, `FactorAsked`, `IdentityIsOwn`, `RefusalIsClean`
and, for the step of a take-over, `WipeComesFirst`. Three of these hold only while errors the
code ignores do not occur, and their properties say so: the provider half of `BarredStayOut`
when the status can be read (no fault `status`), `FactorAsked` when the factors can
(`second`), `RefusalIsClean` when no deletion of a rollback fails (`undo`).

The three refinements of `OneTimeGrant` need a second invariant, `Once`: who carries a token that
was taken. For a state it is at most one callback past its consumption (`Bound`), for an
invitation at most one redemption past the mark (`Marked`), and as long as there is one
nothing has been handed over. A link is carried by one of three in turn: its click
(`Clicked`), the code that the click stored (`Coded`), the exchange that burned the code
(`Traded`); `Via` says that the session each of them holds is the link's. `LinkOnce` lets at
most one of the three exist, none before the link is spent, none once a session was handed
over. A step then either leaves a grant, turns it, or takes its carrier away and lets it die.
The hand-overs are `HandsIs` (click to code) and `BurnsIs` (code to exchange). A deleted account
may let several links die at once, since the sessions behind their codes go with it;
`CarriedStep` shows that such a step answers nobody (`Deletions`, `DeleteUserIs`). `GrantStep`
turns what is known grant by grant into a step on all of them: `LinksAreOneTime`,
`StatesAreOneTime`, `InvitesAreOneTime`.

**Organizations.** All eight properties its run checks are theorems, in
`OrganizationsProofs`, for every set of organizations, users, invitations, units, roles,
slots and workloads that satisfies the three assumptions of `Organizations`. `Flow` (a call
is at a statement of the route of its operation, and knows what its request had to name)
and `Where` (which operations a statement belongs to, and at which place) let the proofs
speak of places in a route; `Moves` and `Begins` say what any statement and any request
do to the calls, `Found` and `Carried` what a statement has seen when its call goes on.
Four invariants rest on them, each over `Inv`, which is `TypeOK`, `Flow` and that an accept
has the terms of its invitation:

* `Housed`: a unit that a call will write is of its organization, or was and is deleted. A
  deleted unit's id never comes back, so the write fails on its foreign key. Hence
  `UnitsStayHome`.
* `Listed`: the role a call will write is in the catalog, since catalogs only grow. Hence
  `RolesStayListed`.
* `Known`: the history holds what is true now (`Current`) and everything the checks behind
  a call have shown (`Shown`), such as the two roles a decision was taken on. Hence
  `ActsOnAuthority`, `RanksAreRespected`, `SoleOwnerStays` and `SeatWasFree`. Authority is
  that of the organisation whose row is written (`Subject`), which for a revocation is the
  invitation's; `Shown` claims it only where that is the one the call names.
* `Granted`: a call that is about to be told that it joined is the only one, its invitation
  is accepted, and nobody was told before. Hence `InvitationsAreOneTime`: each
  turn of a call keeps every grant, issues, revokes or takes one (`StatementGrants`), and
  `GrantStep` maps it to a step of `OneTimeGrant` or to none.

**Only model-checked**: liveness under fairness, which the provers cannot treat:
`LeftoverRevoked`, and the first half of `ShutdownInOrder` (its second half is
`NothingAfterClose`). Every other property of a passing run is a theorem. Some theorems have
a hypothesis on the configuration, which is named with each above; beyond it the property is
false (the findings show it, or the list of what else the models do).

## Not modelled

* Token bucket of `RateLimiter` without Redis: its arithmetic is `golang.org/x/time/rate`;
  several processes that each count in memory.
* `ImportAccount` of the host (a creation without a session), the signup that asks for a
  verified address first, the password policy (pure), WebAuthn (its routes answer 501 and
  `StoreWebAuthnFactor` has no caller).
* Reads that gate nothing (lists, `ResolveTenant`, `ActivePayload`), how a name becomes a
  slug, the tenant of a link and the membership an exchange reports.
* Mail templates and SMTP, configuration parsing, migrations, CORS, logging, request ids,
  panic recovery of handlers, password hashing, opaque-token generation, redirect parsing,
  HTML pages, audit records (nothing reads them to decide), and single-statement profile,
  role and group access: pure functions or I/O without state that handlers could
  interleave on.

What would come next: the in-memory token bucket, as a component of its own; and the signup
that asks for a verified address first, as a further operation of `Admission`.
