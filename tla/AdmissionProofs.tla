--------------------------- MODULE AdmissionProofs ---------------------------
(***************************************************************************)
(* Proofs about Admission, for every number of accounts, sessions, tokens, *)
(* identities, handlers and workloads.  Each statement is described twice: *)
(* by what it does to the rows (RowsGood) and by how it moves its handler  *)
(* (Moves), which is one of eight ways.  That every step is Good is shown  *)
(* once, statement by statement; the invariants then only look at the      *)
(* eight ways.  They are Facts: what a handler at its point knows of the   *)
(* rows, and of what has held since its call arrived; and Once: which one  *)
(* handler or code carries a token that was taken.                         *)
(***************************************************************************)
EXTENDS Admission, FiniteSetTheorems, TLAPS

\* Where a handler of an operation can be, on each path.
Ending == {"second", "pend", "onLogin", "revoke", "ok"}
Rollback == {"unprofile", "uncredential", "unuser"}

AtHome(c) ==
    \/ c.op = "none" /\ c.at = "idle"
    \/ c.op # "none" /\ c.at = "refused"
    \/ /\ c.op = "signup" /\ c.path = "signup"
       /\ c.at \in {"taken", "insert", "credential", "profile", "session", "onSignup", "ok"}
                     \cup Rollback
    \/ /\ c.op = "redeem" /\ c.path = "redeem"
       /\ c.at \in {"validate", "taken", "insert", "credential", "profile", "mark", "session",
                    "onSignup", "role", "redeem", "answer", "ok", "lateCredential",
                    "lateUser", "lateProfile"} \cup Rollback
    \/ c.op = "exchange" /\ c.path = "none" /\ c.at \in {"burn", "issue", "status", "revoke", "ok"}
    \/ c.op = "click" /\ c.path = "none" /\ c.at \in {"consume", "find", "code"} \cup Ending
    \/ /\ c.op = "click" /\ c.path = "newcomer"
       /\ c.at \in {"insert", "profile", "mark", "onSignup", "reread", "again"} \cup Rollback
    \/ /\ c.op = "click" /\ c.path = "known"
       /\ c.at \in {"staff", "hasPassword", "sweep", "unpassword", "unfactor", "mark", "session"}
    \/ /\ c.op = "oauth" /\ c.path = "none"
       /\ c.at \in {"state", "identify", "lookup", "match"} \cup Ending
    \/ c.op = "oauth" /\ c.path = "returning" /\ c.at \in {"mark", "greet", "locked", "session"}
    \/ /\ c.op = "oauth" /\ c.path = "matched"
       /\ c.at \in {"link", "look", "profile", "greet", "mark", "locked", "session"}
    \/ /\ c.op = "oauth" /\ c.path = "fresh"
       /\ c.at \in {"insert", "mark", "profile", "link", "greet", "locked", "session", "tenancy"}
                     \cup Ending

\* The points at which a handler has no account yet, and those at which it has a session.
Unknown == {"idle", "consume", "find", "again", "burn", "issue", "state", "identify",
            "lookup", "match", "validate", "taken", "insert", "refused"}
HasUser(c) == c.at \notin Unknown
HasSession(c) ==
    \/ c.at \in {"second", "pend", "onLogin", "code", "tenancy", "revoke", "issue", "status", "ok"}
    \/ c.op \in Signups /\ c.at \in {"onSignup", "role", "redeem", "answer"}

TokensOf(op) == CASE op = "click" -> Links [] op = "exchange" -> Codes
                  [] op = "oauth" -> States [] op = "redeem" -> Invites [] OTHER -> {NoToken}

Flowing(c) ==
    /\ AtHome(c)
    /\ HasUser(c) => c.u \in Users /\ user[c.u].state # "free"
    /\ HasSession(c) => c.s \in SessionIds /\ session[c.s].state # "free"
    /\ c.at # "refused" => c.token \in TokensOf(c.op)
    /\ c.op = "oauth" /\ c.at \notin {"state", "identify", "refused"} => c.who \in Identities
    /\ ~HasUser(c) /\ c.at \notin {"again", "refused"} => c.u = NoUser
    /\ c.u # NoUser => user[c.u].state # "free"

\* What the foreign keys and the DEFAULTs of the tables keep.
Keyed ==
    /\ \A u \in Users : user[u].state = "free" =>
          user[u].status = "active" /\ u \notin staff /\ profile[u] = "none"
    /\ \A u \in password \cup factored : Exists(u)
    /\ \A s \in SessionIds :
          /\ session[s].state # "free" => session[s].user \in Users
                                          /\ user[session[s].user].state # "free"
          /\ Usable(s) => Exists(session[s].user)
    /\ \A k \in Codes : code[k].state # "none" =>
          code[k].s \in SessionIds /\ session[code[k].s].state # "free"
    /\ \A p \in Identities : linked[p] # NoUser => user[linked[p]].state # "free"

FlowOK == \A r \in Requests : Flowing(call[r])

Inv == TypeOK /\ Keyed /\ FlowOK

\* What was held without interruption is held now; the sessions need it.
SinceNow == \A r \in Requests : \A s \in since[r].open : s \in SessionIds /\ Usable(s)

\* An account of the handler's own making.
Owns(c) == c.u # NoUser /\ (c.op \in Signups \/ (c.path = "newcomer" /\ c.at # "again"))

Owned == \A r, q \in Requests : r # q /\ Owns(call[r]) /\ Owns(call[q]) => call[r].u # call[q].u

\* An account that a click has found or made was let in: not inactive, staff or, where
\* that is refused, with a password all the while; nor a provider's that was locked.
BarredFacts(r) ==
    LET c == call[r]
    IN  /\ c.op = "click" /\ HasUser(c) =>
             /\ c.u \notin since[r].inactive
             /\ c.at # "staff" => c.u \notin since[r].staff
             /\ ~AllowPasswordAccounts /\ c.at \notin {"staff", "hasPassword"}
                  => c.u \notin since[r].keyed
        /\ c.op = "oauth" /\ Never("status") =>
             /\ c.at = "session" /\ Exists(c.u) => c.u \notin since[r].locked
             /\ HasSession(c) => c.u \notin since[r].locked

\* Past the question for the second factor, nobody who had one holds an open session.
FactorFacts(r) ==
    LET c == call[r]
    IN  c.op \in SignIns /\ Never("second") =>
        /\ c.at = "onLogin" => c.u \notin since[r].factored
        /\ c.at \in {"code", "tenancy", "ok"} /\ c.u \in since[r].factored
              => session[c.s].state # "open"

\* A callback that has still to link the account it found or made.
Linking(c) == \/ c.path = "matched" /\ c.at = "link"
              \/ c.path = "fresh" /\ c.at \in {"mark", "profile", "link"}

\* From then on the identity is linked to the account the callback signs in.
IdentityFacts(r) ==
    LET c == call[r]
    IN  c.op = "oauth" /\ Exists(c.u) /\ HasUser(c) /\ ~Linking(c) => linked[c.who] = c.u

\* What a signup has not written yet or has taken back, on its way to the refusal.
SignupFacts(r) ==
    LET c == call[r]
    IN  c.op \in Signups /\ c.u # NoUser /\ Never("undo") =>
        /\ c.at \in {"credential", "profile", "uncredential", "unuser", "refused"}
              => profile[c.u] # "signup"
        /\ c.at \in {"lateProfile", "refused"} => user[c.u].state = "gone"

\* What a take-over has swept stays swept.
WipeFacts(r) ==
    LET c == call[r]
    IN  c.path = "known" =>
        /\ c.at \in {"unpassword", "unfactor", "mark"} =>
              \A s \in SessionsOf(c.u) : s \notin since[r].open
        /\ c.at \in {"unfactor", "mark"} => c.u \notin since[r].keyed
        /\ c.at = "mark" => c.u \notin since[r].factored

Facts == \A r \in Requests :
    BarredFacts(r) /\ FactorFacts(r) /\ IdentityFacts(r) /\ SignupFacts(r) /\ WipeFacts(r)
-----------------------------------------------------------------------------
\* What a step may do to the rows ...

RowTypes ==
    /\ user \in [Users -> User]
    /\ password \subseteq Users /\ factored \subseteq Users /\ staff \subseteq Users
    /\ profile \in [Users -> {"none", "signup", "provider"}]
    /\ session \in [SessionIds -> Session]
    /\ code \in [Codes -> Code]
    /\ linked \in [Identities -> Users \cup {NoUser}]

BoxTypes ==
    /\ link \in [Links -> Link]
    /\ state \in [States -> {"none", "open", "spent", "lapsed"}]
    /\ invite \in [Invites -> Invite]

\* Rows do not come back, sessions keep what they were made with, and an identity is
\* linked anew only when its account is gone.
Grown ==
    /\ \A u \in Users : user[u].state # "free" => user'[u].state # "free"
    /\ \A u \in Users : user[u].state = "gone" => user'[u].state = "gone"
    /\ \A s \in SessionIds : session[s].state # "free" =>
          /\ session'[s].state # "free"
          /\ session'[s].user = session[s].user /\ session'[s].via = session[s].via
          /\ session'[s].state = "open" => session[s].state = "open"
          /\ session[s].state = "gone" => session'[s].state = "gone"
    /\ \A p \in Identities : linked'[p] # linked[p] => ~Exists(linked[p])

RowsGood == RowTypes' /\ Keyed' /\ Grown

\* A profile is written in the name of a signup by its own handler.
Signed(r) ==
    \A u \in Users : profile'[u] = "signup" /\ profile[u] # "signup" =>
        call[r].at = "profile" /\ call[r].op # "oauth" /\ call[r].u = u

\* ... and how it may move its handler: on to another point, or to its refusal.

Like(c, d, p) ==
    /\ d.at = p /\ d.op = c.op /\ d.path = c.path /\ d.token = c.token /\ d.who = c.who
    /\ d.email = c.email /\ d.u = c.u /\ d.s = c.s /\ d.verified = c.verified

Left(c, d) ==
    /\ d.at = "refused" /\ d.op = c.op /\ d.path = "none" /\ d.token = NoToken
    /\ d.who = NoIdentity /\ d.s = NoSession
    /\ d.u = IF c.op \in Signups THEN c.u ELSE NoUser

Alone(r) == \A q \in Requests : q # r => call'[q] = call[q]

Enters(r) ==
    LET d == call'[r]
    IN  /\ call[r].at = "idle" /\ AtHome(d)
        /\ d.at \in {"taken", "consume", "burn", "state", "validate"}
        /\ d.at = "taken" => d.op = "signup"
        /\ d.token \in TokensOf(d.op) /\ d.u = NoUser

Leaves(r) ==
    LET d == call'[r]
    IN  d.at = "idle" /\ d.op = "none" /\ d.path = "none" /\ d.token = NoToken /\ d.u = NoUser

Refuses(r) ==
    LET c == call[r]
    IN  /\ Left(c, call'[r]) /\ c.op # "none"
        /\ c.op \in Signups /\ c.u # NoUser /\ Never("undo") =>
              user'[c.u].state = "gone" /\ profile'[c.u] # "signup"

\* It goes on with what it has.
OnAsBefore(c, d) ==
    /\ Like(c, d, d.at) /\ AtHome(d)
    /\ d.at \notin {"idle", "refused"} /\ c.at \notin {"idle", "refused"}
    /\ HasUser(d) => HasUser(c)
    /\ HasSession(d) => HasSession(c)
    /\ ~HasUser(d) /\ d.at # "again" => ~HasUser(c) /\ c.at # "again"
    /\ c.op = "oauth" /\ d.at \notin {"state", "identify"} => c.at \notin {"state", "identify"}

ClickChecks(c, d) ==
    /\ d.at # "staff"
    /\ c.at = "staff" => c.u \notin staff' /\ (~AllowPasswordAccounts => d.at = "hasPassword")
    /\ d.at = "hasPassword" => c.at = "staff"
    /\ c.at = "hasPassword" => c.u \notin password'

WipeChecks(c, d) ==
    /\ d.at = "unpassword" =>
          \A s \in SessionIds : session'[s].user = c.u => session'[s].state \notin {"open", "pending"}
    /\ d.at = "unfactor" => c.at = "unpassword" /\ c.u \notin password'
    /\ d.at = "mark" => c.at = "unfactor" /\ c.u \notin factored'

OAuthChecks(c, d) ==
    /\ d.at = "session" =>
          /\ c.at = "locked"
          /\ Never("status") => ~(user'[c.u].state = "row" /\ user'[c.u].status = "locked")
    /\ c.at = "link" => linked'[c.who] = c.u
    /\ Linking(c) /\ c.at # "link" => Linking(d)

FactorChecks(c, d) ==
    /\ d.at = "onLogin" => c.at = "second" /\ (Never("second") => c.u \notin factored')
    /\ d.at \in {"code", "tenancy", "ok"} =>
          c.at \in {"onLogin", "code", "tenancy"} \/ session'[c.s].state # "open"

SignupChecks(c, d) == Never("undo") =>
    /\ d.at \in {"credential", "profile", "uncredential", "unuser"} => profile'[c.u] # "signup"
    /\ d.at = "lateProfile" => user'[c.u].state = "gone"

\* How a click and a redemption come to their answers.
HandChecks(c, d) ==
    /\ c.op = "click" /\ d.at = "code" => CodeFlow
    /\ c.op = "click" /\ d.at = "ok" /\ CodeFlow => c.at = "code"
    /\ c.op = "redeem" /\ d.at = "ok" => c.at = "answer"
    /\ c.op = "redeem" /\ d.at = "answer" => c.at = "redeem"

Walks(r) ==
    LET c == call[r]
        d == call'[r]
    IN  /\ OnAsBefore(c, d)
        /\ c.op = "click" => ClickChecks(c, d)
        /\ c.path = "known" => WipeChecks(c, d)
        /\ c.op = "oauth" => OAuthChecks(c, d)
        /\ c.op \in SignIns => FactorChecks(c, d)
        /\ c.op \in Signups => SignupChecks(c, d)
        /\ HandChecks(c, d)

\* It has made an account.
Mints(r) ==
    LET c == call[r]
        d == call'[r]
    IN  /\ Like([c EXCEPT !.u = d.u], d, d.at) /\ AtHome(d) /\ c.at = "insert"
        /\ d.at \in {"credential", "profile", "mark"} /\ (c.op = "oauth" => Linking(d))
        /\ c.op = "click" => c.path = "newcomer"
        /\ d.u \in Users /\ user[d.u].state = "free" /\ user'[d.u].state # "free"
        /\ user'[d.u].status = "active" /\ profile'[d.u] = "none"
        /\ d.u \notin staff' \cup password'

\* It has found an account, or found none.
Turns(r) ==
    LET c == call[r]
        d == call'[r]
    IN  /\ d.op = c.op /\ d.token = c.token /\ AtHome(d) /\ c.op \in SignIns
        /\ c.at \in {"find", "again", "reread", "identify", "lookup", "match"}
        /\ \/ /\ c.op = "click" /\ d.at = "staff"
              /\ d.u \in Users /\ user'[d.u].state # "free" /\ user'[d.u].status = "active"
           \/ c.at = "reread" /\ d.path = "known" /\ d.at = "session" /\ d.u = c.u
           \/ d.at = "insert" /\ d.u = c.u /\ d.who = c.who /\ (c.op = "oauth" => c.at = "match")
                /\ (c.op = "click" => c.at = "find")
           \/ c.op = "oauth" /\ c.at = "identify" /\ d.at = "lookup" /\ d.u = c.u /\ d.who \in Identities
           \/ c.op = "oauth" /\ c.at = "lookup" /\ d.at = "match" /\ d.u = c.u /\ d.who = c.who
           \/ /\ c.op = "oauth" /\ c.at \in {"lookup", "match"} /\ d.who = c.who
              /\ d.u \in Users /\ user'[d.u].state # "free"
              /\ \/ d.path = "returning" /\ d.at = "mark" /\ linked'[d.who] = d.u
                 \/ d.path = "matched" /\ d.at = "link"

\* It has made a session.
Opens(r) ==
    LET c == call[r]
        d == call'[r]
    IN  /\ d.op = c.op /\ d.token = c.token /\ d.u = c.u /\ d.who = c.who /\ AtHome(d)
        /\ c.at = "session" /\ Exists(c.u)
        /\ d.at = IF c.op \in Signups THEN "onSignup" ELSE "second"
        /\ d.path # "newcomer" /\ d.path # "known"
        /\ d.s \in SessionIds /\ session'[d.s].state # "free"
        /\ session'[d.s].via = c.token

\* An exchange has found its session, and its account.
Trades(r) ==
    LET c == call[r]
        d == call'[r]
    IN  /\ c.op = "exchange" /\ d.op = "exchange" /\ d.token = c.token /\ AtHome(d)
        /\ \/ /\ c.at = "burn" /\ d.at = "issue" /\ d.s = code[c.token].s
              /\ code[c.token].state = "open" /\ session[d.s].state # "gone"
           \/ c.at = "issue" /\ d.at = "status" /\ d.s = c.s
        /\ d.s \in SessionIds /\ session'[d.s].state # "free"
        /\ d.u # NoUser => user'[d.u].state # "free"
        /\ IF d.at = "status" THEN d.u \in Users ELSE d.u = NoUser

Moves(r) == Enters(r) \/ Leaves(r) \/ Refuses(r) \/ Walks(r) \/ Mints(r) \/ Turns(r)
              \/ Opens(r) \/ Trades(r)

\* A step: nobody moves, or one handler does.
Good == /\ RowsGood /\ BoxTypes' /\ call' \in [Requests -> Call]
        /\ \/ call' = call /\ profile' = profile
           \/ \E r \in Requests : Alone(r) /\ Signed(r) /\ Moves(r)
-----------------------------------------------------------------------------
\* The routes.
LEMMA ThenIs ==
    ASSUME NEW c, NEW i, NEW route, route = Routes[c.path], i \in DOMAIN route,
           \A j \in DOMAIN route : route[j] = c.at <=> j = i
    PROVE  Then(c) = route[i + 1]
<1> DEFINE k == CHOOSE j \in DOMAIN route : route[j] = c.at
<1>1. k = i OBVIOUS
<1> QED BY <1>1 DEF Then

LEMMA SignupRoute ==
    ASSUME NEW c, c.path = "signup"
    PROVE  /\ c.at = "taken" => Then(c) = "insert"
           /\ c.at = "insert" => Then(c) = "credential"
           /\ c.at = "credential" => Then(c) = "profile"
           /\ c.at = "profile" => Then(c) = "session"
           /\ c.at = "session" => Then(c) = "onSignup"
           /\ c.at = "onSignup" => Then(c) = "ok"
<1> DEFINE route == Routes[c.path]
<1>1. route = <<"taken", "insert", "credential", "profile", "session", "onSignup", "ok">>
  BY DEF Routes
<1>2. \A i, j \in 1..7 : route[i] = route[j] => i = j
  BY <1>1
<1>3. DOMAIN route = 1..7
  BY <1>1
<1>4. \A i \in 1..6 : c.at = route[i] => Then(c) = route[i + 1]
  <2> SUFFICES ASSUME NEW i \in 1..6, c.at = route[i]
               PROVE  Then(c) = route[i + 1]
    OBVIOUS
  <2>1. i \in DOMAIN route /\ \A j \in DOMAIN route : route[j] = c.at <=> j = i
    BY <1>2, <1>3
  <2> HIDE DEF route
  <2>2. QED BY <2>1, ThenIs DEF route
<1>5. QED BY <1>1, <1>4

LEMMA RedeemRoute ==
    ASSUME NEW c, c.path = "redeem"
    PROVE  /\ c.at = "taken" => Then(c) = "insert"
           /\ c.at = "insert" => Then(c) = "credential"
           /\ c.at = "credential" => Then(c) = "profile"
           /\ c.at = "profile" => Then(c) = "mark"
           /\ c.at = "mark" => Then(c) = "session"
           /\ c.at = "session" => Then(c) = "onSignup"
           /\ c.at = "onSignup" => Then(c) = "role"
           /\ c.at = "role" => Then(c) = "redeem"
           /\ c.at = "redeem" => Then(c) = "answer"
           /\ c.at = "answer" => Then(c) = "ok"
<1> DEFINE route == Routes[c.path]
<1>1. route = <<"taken", "insert", "credential", "profile", "mark", "session",
                  "onSignup", "role", "redeem", "answer", "ok">>
  BY DEF Routes
<1>2. \A i, j \in 1..11 : route[i] = route[j] => i = j
  BY <1>1
<1>3. DOMAIN route = 1..11
  BY <1>1
<1>4. \A i \in 1..10 : c.at = route[i] => Then(c) = route[i + 1]
  <2> SUFFICES ASSUME NEW i \in 1..10, c.at = route[i]
               PROVE  Then(c) = route[i + 1]
    OBVIOUS
  <2>1. i \in DOMAIN route /\ \A j \in DOMAIN route : route[j] = c.at <=> j = i
    BY <1>2, <1>3
  <2> HIDE DEF route
  <2>2. QED BY <2>1, ThenIs DEF route
<1>5. QED BY <1>1, <1>4

LEMMA NewcomerRoute ==
    ASSUME NEW c, c.path = "newcomer"
    PROVE  /\ c.at = "insert" => Then(c) = "profile"
           /\ c.at = "profile" => Then(c) = "mark"
           /\ c.at = "mark" => Then(c) = "onSignup"
           /\ c.at = "onSignup" => Then(c) = "reread"
<1> DEFINE route == Routes[c.path]
<1>1. route = <<"insert", "profile", "mark", "onSignup", "reread">>
  BY DEF Routes
<1>2. \A i, j \in 1..5 : route[i] = route[j] => i = j
  BY <1>1
<1>3. DOMAIN route = 1..5
  BY <1>1
<1>4. \A i \in 1..4 : c.at = route[i] => Then(c) = route[i + 1]
  <2> SUFFICES ASSUME NEW i \in 1..4, c.at = route[i]
               PROVE  Then(c) = route[i + 1]
    OBVIOUS
  <2>1. i \in DOMAIN route /\ \A j \in DOMAIN route : route[j] = c.at <=> j = i
    BY <1>2, <1>3
  <2> HIDE DEF route
  <2>2. QED BY <2>1, ThenIs DEF route
<1>5. QED BY <1>1, <1>4

LEMMA KnownRoute ==
    ASSUME NEW c, c.path = "known"
    PROVE  /\ c.at = "sweep" => Then(c) = "unpassword"
           /\ c.at = "unpassword" => Then(c) = "unfactor"
           /\ c.at = "unfactor" => Then(c) = "mark"
           /\ c.at = "mark" => Then(c) = "session"
<1> DEFINE route == Routes[c.path]
<1>1. route = <<"sweep", "unpassword", "unfactor", "mark", "session">>
  BY DEF Routes
<1>2. \A i, j \in 1..5 : route[i] = route[j] => i = j
  BY <1>1
<1>3. DOMAIN route = 1..5
  BY <1>1
<1>4. \A i \in 1..4 : c.at = route[i] => Then(c) = route[i + 1]
  <2> SUFFICES ASSUME NEW i \in 1..4, c.at = route[i]
               PROVE  Then(c) = route[i + 1]
    OBVIOUS
  <2>1. i \in DOMAIN route /\ \A j \in DOMAIN route : route[j] = c.at <=> j = i
    BY <1>2, <1>3
  <2> HIDE DEF route
  <2>2. QED BY <2>1, ThenIs DEF route
<1>5. QED BY <1>1, <1>4

LEMMA ReturningRoute ==
    ASSUME NEW c, c.path = "returning"
    PROVE  /\ c.at = "mark" => Then(c) = "greet"
           /\ c.at = "greet" => Then(c) = "locked"
           /\ c.at = "locked" => Then(c) = "session"
<1> DEFINE route == Routes[c.path]
<1>1. route = <<"mark", "greet", "locked", "session">>
  BY DEF Routes
<1>2. \A i, j \in 1..4 : route[i] = route[j] => i = j
  BY <1>1
<1>3. DOMAIN route = 1..4
  BY <1>1
<1>4. \A i \in 1..3 : c.at = route[i] => Then(c) = route[i + 1]
  <2> SUFFICES ASSUME NEW i \in 1..3, c.at = route[i]
               PROVE  Then(c) = route[i + 1]
    OBVIOUS
  <2>1. i \in DOMAIN route /\ \A j \in DOMAIN route : route[j] = c.at <=> j = i
    BY <1>2, <1>3
  <2> HIDE DEF route
  <2>2. QED BY <2>1, ThenIs DEF route
<1>5. QED BY <1>1, <1>4

LEMMA MatchedRoute ==
    ASSUME NEW c, c.path = "matched"
    PROVE  /\ c.at = "link" => Then(c) = "look"
           /\ c.at = "look" => Then(c) = "profile"
           /\ c.at = "profile" => Then(c) = "greet"
           /\ c.at = "greet" => Then(c) = "mark"
           /\ c.at = "mark" => Then(c) = "locked"
           /\ c.at = "locked" => Then(c) = "session"
<1> DEFINE route == Routes[c.path]
<1>1. route = <<"link", "look", "profile", "greet", "mark", "locked", "session">>
  BY DEF Routes
<1>2. \A i, j \in 1..7 : route[i] = route[j] => i = j
  BY <1>1
<1>3. DOMAIN route = 1..7
  BY <1>1
<1>4. \A i \in 1..6 : c.at = route[i] => Then(c) = route[i + 1]
  <2> SUFFICES ASSUME NEW i \in 1..6, c.at = route[i]
               PROVE  Then(c) = route[i + 1]
    OBVIOUS
  <2>1. i \in DOMAIN route /\ \A j \in DOMAIN route : route[j] = c.at <=> j = i
    BY <1>2, <1>3
  <2> HIDE DEF route
  <2>2. QED BY <2>1, ThenIs DEF route
<1>5. QED BY <1>1, <1>4

LEMMA FreshRoute ==
    ASSUME NEW c, c.path = "fresh"
    PROVE  /\ c.at = "insert" => Then(c) = "mark"
           /\ c.at = "mark" => Then(c) = "profile"
           /\ c.at = "profile" => Then(c) = "link"
           /\ c.at = "link" => Then(c) = "greet"
           /\ c.at = "greet" => Then(c) = "locked"
           /\ c.at = "locked" => Then(c) = "session"
<1> DEFINE route == Routes[c.path]
<1>1. route = <<"insert", "mark", "profile", "link", "greet", "locked", "session">>
  BY DEF Routes
<1>2. \A i, j \in 1..7 : route[i] = route[j] => i = j
  BY <1>1
<1>3. DOMAIN route = 1..7
  BY <1>1
<1>4. \A i \in 1..6 : c.at = route[i] => Then(c) = route[i + 1]
  <2> SUFFICES ASSUME NEW i \in 1..6, c.at = route[i]
               PROVE  Then(c) = route[i + 1]
    OBVIOUS
  <2>1. i \in DOMAIN route /\ \A j \in DOMAIN route : route[j] = c.at <=> j = i
    BY <1>2, <1>3
  <2> HIDE DEF route
  <2>2. QED BY <2>1, ThenIs DEF route
<1>5. QED BY <1>1, <1>4

\* What comes next, by the point a handler is at.
LEMMA NextPoint ==
    ASSUME NEW c, AtHome(c)
    PROVE  /\ c.at = "taken" => Then(c) = "insert"
           /\ c.at = "insert" => Then(c) = IF c.op \in Signups THEN "credential"
                                           ELSE IF c.op = "click" THEN "profile" ELSE "mark"
           /\ c.at = "credential" => Then(c) = "profile"
           /\ c.at = "profile" => Then(c) = IF c.path = "signup" THEN "session"
                                            ELSE IF c.path = "matched" THEN "greet"
                                            ELSE IF c.path = "fresh" THEN "link" ELSE "mark"
           /\ c.at = "mark" => Then(c) = IF c.path \in {"redeem", "known"} THEN "session"
                                         ELSE IF c.path = "newcomer" THEN "onSignup"
                                         ELSE IF c.path = "returning" THEN "greet"
                                         ELSE IF c.path = "matched" THEN "locked" ELSE "profile"
           /\ c.at = "session" /\ c.op \in Signups => Then(c) = "onSignup"
           /\ c.at = "onSignup" => Then(c) = IF c.op = "signup" THEN "ok"
                                             ELSE IF c.op = "redeem" THEN "role" ELSE "reread"
           /\ c.at = "role" => Then(c) = "redeem"
           /\ c.at = "redeem" => Then(c) = "answer"
           /\ c.at = "answer" => Then(c) = "ok"
           /\ c.at = "sweep" => Then(c) = "unpassword"
           /\ c.at = "unpassword" => Then(c) = "unfactor"
           /\ c.at = "unfactor" => Then(c) = "mark"
           /\ c.at = "link" => Then(c) = IF c.path = "matched" THEN "look" ELSE "greet"
           /\ c.at = "look" => Then(c) = "profile"
           /\ c.at = "greet" => Then(c) = IF c.path = "matched" THEN "mark" ELSE "locked"
           /\ c.at = "locked" => Then(c) = "session"
<1>1. c.path = "signup" \/ c.path = "redeem" \/ c.path = "newcomer" \/ c.path = "known"
        \/ c.path = "returning" \/ c.path = "matched" \/ c.path = "fresh"
        \/ c.path = "none" \/ c.at = "idle" \/ c.at = "refused"
  BY DEF AtHome
<1>2. CASE c.path = "signup"
  <2>1. c.at \in {"idle", "refused"} \/ c.op = "signup"
    BY <1>2 DEF AtHome
  <2>2. QED BY <1>2, <2>1, SignupRoute DEF AtHome, Rollback, Ending, Signups
<1>3. CASE c.path = "redeem"
  <2>1. c.at \in {"idle", "refused"} \/ c.op = "redeem"
    BY <1>3 DEF AtHome
  <2>2. QED BY <1>3, <2>1, RedeemRoute DEF AtHome, Rollback, Ending, Signups
<1>4. CASE c.path = "newcomer"
  <2>1. c.at \in {"idle", "refused"} \/ c.op = "click"
    BY <1>4 DEF AtHome
  <2>2. QED BY <1>4, <2>1, NewcomerRoute DEF AtHome, Rollback, Ending, Signups
<1>5. CASE c.path = "known"
  <2>1. c.at \in {"idle", "refused"} \/ c.op = "click"
    BY <1>5 DEF AtHome
  <2>2. QED BY <1>5, <2>1, KnownRoute DEF AtHome, Rollback, Ending, Signups
<1>6. CASE c.path = "returning"
  <2>1. c.at \in {"idle", "refused"} \/ c.op = "oauth"
    BY <1>6 DEF AtHome
  <2>2. QED BY <1>6, <2>1, ReturningRoute DEF AtHome, Rollback, Ending, Signups
<1>7. CASE c.path = "matched"
  <2>1. c.at \in {"idle", "refused"} \/ c.op = "oauth"
    BY <1>7 DEF AtHome
  <2>2. QED BY <1>7, <2>1, MatchedRoute DEF AtHome, Rollback, Ending, Signups
<1>8. CASE c.path = "fresh"
  <2>1. c.at \in {"idle", "refused"} \/ c.op = "oauth"
    BY <1>8 DEF AtHome
  <2>2. QED BY <1>8, <2>1, FreshRoute DEF AtHome, Rollback, Ending, Signups
<1>9. CASE c.path = "none" \/ c.at = "idle" \/ c.at = "refused"
  BY <1>9 DEF AtHome, Ending
<1> QED BY <1>1, <1>2, <1>3, <1>4, <1>5, <1>6, <1>7, <1>8, <1>9

\* Every point named anywhere is one of Points.
LEMMA PointsAre ==
    {"taken", "insert", "credential", "profile", "mark", "session", "onSignup", "role",
     "redeem", "answer", "ok", "reread", "sweep", "unpassword", "unfactor", "greet", "locked",
     "link", "look", "idle", "unprofile", "uncredential", "unuser", "lateCredential",
     "lateUser", "lateProfile", "consume", "find", "again", "staff", "hasPassword", "state",
     "identify", "lookup", "match", "validate", "second", "pend", "onLogin", "code", "tenancy",
     "burn", "issue", "status", "revoke", "refused"} \subseteq Points
<1> DEFINE On(p) == {Routes[p][i] : i \in DOMAIN Routes[p]}
<1>1. /\ {"signup", "redeem", "newcomer", "known", "returning", "matched", "fresh"}
            = DOMAIN Routes
  BY DEF Routes
<1> DEFINE all == UNION {On(p) : p \in DOMAIN Routes}
<1>2. \A p \in DOMAIN Routes : On(p) \subseteq all
  <2>1. ASSUME NEW p \in DOMAIN Routes, NEW x \in On(p)
        PROVE  x \in all
    <3> HIDE DEF On
    <3> QED OBVIOUS
  <2> HIDE DEF On, all
  <2> QED BY <2>1
<1>8. all \subseteq Points
  BY Zenon DEF Points
<1>3. {"taken", "insert", "credential", "profile", "mark", "session", "onSignup", "role",
       "redeem", "answer", "ok"} \subseteq On("redeem")
  <2>1. Routes["redeem"] = <<"taken", "insert", "credential", "profile", "mark", "session",
                              "onSignup", "role", "redeem", "answer", "ok">>
    BY DEF Routes
  <2>2. QED BY <2>1
<1>4. "reread" \in On("newcomer")
  <2>1. Routes["newcomer"] = <<"insert", "profile", "mark", "onSignup", "reread">>
    BY DEF Routes
  <2>2. QED BY <2>1
<1>5. {"sweep", "unpassword", "unfactor"} \subseteq On("known")
  <2>1. Routes["known"] = <<"sweep", "unpassword", "unfactor", "mark", "session">>
    BY DEF Routes
  <2>2. QED BY <2>1
<1>6. {"link", "look", "greet", "locked"} \subseteq On("matched")
  <2>1. Routes["matched"] = <<"link", "look", "profile", "greet", "mark", "locked", "session">>
    BY DEF Routes
  <2>2. QED BY <2>1
<1>7. {"idle", "unprofile", "uncredential", "unuser", "lateCredential", "lateUser", "lateProfile",
       "consume", "find", "again", "staff", "hasPassword", "state", "identify",
       "lookup", "match", "validate", "second", "pend", "onLogin", "code", "tenancy",
       "burn", "issue", "status", "revoke", "refused"} \subseteq Points
  BY DEF Points
<1> HIDE DEF On, all
<1> QED BY <1>1, <1>2, <1>3, <1>4, <1>5, <1>6, <1>7, <1>8

-----------------------------------------------------------------------------
\* How a handler moves.
LEMMA IdleIsCall == Idle \in Call
<1>1. AnAddress \in Addresses
  BY InstanceAssumption DEF AnAddress
<1>2. "none" \in DOMAIN Routes \cup {"none"} /\ "idle" \in Points
  BY PointsAre
<1> QED BY <1>1, <1>2, SMT DEF Idle, Call

LEMMA BecomeIs ==
    ASSUME call \in [Requests -> Call], NEW r \in Requests, NEW c \in Call, Become(r, c)
    PROVE  /\ call' \in [Requests -> Call] /\ Alone(r)
           /\ c.at # "refused" => call'[r] = c
           /\ c.at = "refused" => Left(c, call'[r])
<1>1. Refused(c) \in Call /\ Left(c, Refused(c))
  <2>1. Idle \in Call
    BY IdleIsCall
  <2>2. "refused" \in Points
    BY PointsAre
  <2>3. Refused(c) \in Call
    <3> DEFINE v == IF c.op \in Signups THEN c.u ELSE NoUser
               d == [Idle EXCEPT !.at = "refused"]
               e == [d EXCEPT !.op = c.op]
    <3>1. v \in Users \cup {NoUser} /\ c.op \in {"none", "signup", "click", "exchange", "oauth", "redeem"}
      BY DEF Call
    <3>2. [e EXCEPT !.u = v] = Refused(c)
      BY Zenon DEF Refused
    <3> HIDE DEF v
    <3>3. d \in Call
      <4> HIDE DEF d
      <4> QED BY <2>1, <2>2, SMT DEF d, Call
    <3> HIDE DEF d
    <3>4. e \in Call
      BY <3>1, <3>3, SMT DEF Call
    <3> HIDE DEF e
    <3>5. [e EXCEPT !.u = v] \in Call
      BY <3>1, <3>4, SMT DEF Call
    <3> QED BY <3>2, <3>5, Zenon
  <2>4. Left(c, Refused(c))
    BY SMT DEF Refused, Left, Idle
  <2> QED BY <2>3, <2>4
<1>2. call' = [call EXCEPT ![r] = IF c.at = "refused" THEN Refused(c) ELSE c]
  BY DEF Become
<1> QED BY <1>1, <1>2 DEF Alone

LEMMA GotoIs ==
    ASSUME call \in [Requests -> Call], NEW r \in Requests, NEW p \in Points, Goto(r, p)
    PROVE  /\ call' \in [Requests -> Call] /\ Alone(r)
           /\ p # "refused" => Like(call[r], call'[r], p)
           /\ p = "refused" => Left(call[r], call'[r])
<1> DEFINE c == [call[r] EXCEPT !.at = p]
<1>1. call[r] \in Call
  OBVIOUS
<1>2. c \in Call /\ Like(call[r], c, p)
  BY <1>1, SMT DEF Call, Like
<1>3. Become(r, c)
  BY DEF Goto
<1> HIDE DEF c
<1>4. c.at = p
  BY <1>2 DEF Like
<1>5. /\ call' \in [Requests -> Call] /\ Alone(r)
      /\ c.at # "refused" => call'[r] = c
      /\ c.at = "refused" => Left(c, call'[r])
  BY <1>2, <1>3, BecomeIs
<1>6. Left(c, call'[r]) => Left(call[r], call'[r])
  BY <1>2 DEF Like, Left
<1> QED BY <1>2, <1>4, <1>5, <1>6

LEMMA RowsStay ==
    ASSUME Inv, UNCHANGED <<rows, code, linked>>
    PROVE  RowsGood /\ profile' = profile
<1>1. UNCHANGED <<user, password, factored, profile, staff, session, code, linked>>
  BY DEF rows
<1>2. RowTypes'
  BY <1>1 DEF Inv, TypeOK, AccountsTypeOK, LinksTypeOK, OAuthTypeOK, RowTypes
<1>3. Keyed'
  BY <1>1 DEF Inv, Keyed, Exists, Usable
<1>4. Grown
  BY <1>1 DEF Grown
<1> QED BY <1>1, <1>2, <1>3, <1>4 DEF RowsGood

LEMMA CallIs ==
    ASSUME Inv
    PROVE  /\ call \in [Requests -> Call]
           /\ \A r \in Requests : Flowing(call[r]) /\ AtHome(call[r])
BY DEF Inv, TypeOK, AccountsTypeOK, FlowOK, Flowing

\* A refusal moves a handler rightly.
LEMMA RefuseMoves ==
    ASSUME Inv, NEW r \in Requests, Goto(r, "refused"), call[r].at # "idle",
           call[r].op \in Signups /\ call[r].u # NoUser /\ Never("undo") =>
               user'[call[r].u].state = "gone" /\ profile'[call[r].u] # "signup"
    PROVE  call' \in [Requests -> Call] /\ Alone(r) /\ Moves(r)
<1>1. call \in [Requests -> Call] /\ AtHome(call[r])
  BY CallIs
<1>2. call' \in [Requests -> Call] /\ Alone(r) /\ Left(call[r], call'[r])
  BY <1>1, GotoIs, PointsAre
<1>3. call[r].op # "none"
  BY <1>1 DEF AtHome
<1> QED BY <1>2, <1>3, Zenon DEF Moves, Refuses

\* One lemma for each statement: where its handler is, by CallIs; where it goes, by
\* NextPoint; and which of the eight ways that is.
LEMMA TakenMoves ==
    ASSUME Inv, NEW r \in Requests, Taken(r)
    PROVE  call' \in [Requests -> Call] /\ Alone(r) /\ Moves(r)
<1>1. call \in [Requests -> Call] /\ AtHome(call[r]) /\ call[r].at = "taken"
  BY CallIs DEF Taken
<1>2. \/ call[r].op = "signup" /\ call[r].path = "signup"
      \/ call[r].op = "redeem" /\ call[r].path = "redeem"
  BY <1>1 DEF AtHome, Ending, Rollback
<1>3. \/ Goto(r, "refused")
      \/ Goto(r, "insert")
  BY <1>1, <1>2, NextPoint DEF Taken, May, Signups
<1>4. call[r].u = NoUser
  BY <1>1, CallIs DEF Flowing, HasUser, Unknown
<1>5. CASE Goto(r, "refused")
  BY <1>1, <1>2, <1>5, <1>4, RefuseMoves DEF Signups
<1>6. CASE Goto(r, "insert")
  <2>1. call' \in [Requests -> Call] /\ Alone(r) /\ Like(call[r], call'[r], "insert")
    BY <1>1, <1>6, GotoIs, PointsAre
  <2>2. AtHome(call'[r])
    BY <1>1, <1>2, <1>6, <2>1 DEF AtHome, Like, Ending, Rollback, Signups
  <2>3. OnAsBefore(call[r], call'[r])
    BY <1>1, <1>2, <1>6, <2>1, <2>2 DEF OnAsBefore, Like, HasUser, Unknown, HasSession, Signups
  <2>4. Walks(r)
    BY <1>1, <1>2, <1>6, <2>1, <2>3 DEF Walks, HandChecks, Like, Signups, SignIns, SignupChecks
  <2> QED BY <2>1, <2>4 DEF Moves
<1> QED BY <1>3, <1>5, <1>6

LEMMA OnSignupMoves ==
    ASSUME Inv, NEW r \in Requests, OnSignup(r)
    PROVE  call' \in [Requests -> Call] /\ Alone(r) /\ Moves(r)
<1>1. call \in [Requests -> Call] /\ AtHome(call[r]) /\ call[r].at = "onSignup"
  BY CallIs DEF OnSignup
<1>2. \/ call[r].op = "signup" /\ call[r].path = "signup"
      \/ call[r].op = "redeem" /\ call[r].path = "redeem"
      \/ call[r].op = "click" /\ call[r].path = "newcomer"
  BY <1>1 DEF AtHome, Ending, Rollback
<1>3. \/ Goto(r, "unprofile")
      \/ call[r].op = "signup" /\ Goto(r, "ok")
      \/ call[r].op = "redeem" /\ Goto(r, "role")
      \/ call[r].op = "click" /\ Goto(r, "reread")
  BY <1>1, <1>2, NextPoint DEF OnSignup, May, Signups
<1>5. CASE Goto(r, "unprofile")
  <2>1. call' \in [Requests -> Call] /\ Alone(r) /\ Like(call[r], call'[r], "unprofile")
    BY <1>1, <1>5, GotoIs, PointsAre
  <2>2. AtHome(call'[r])
    BY <1>1, <1>2, <1>5, <2>1 DEF AtHome, Like, Ending, Rollback, Signups
  <2>3. OnAsBefore(call[r], call'[r])
    BY <1>1, <1>2, <1>5, <2>1, <2>2 DEF OnAsBefore, Like, HasUser, Unknown, HasSession, Signups
  <2>4. Walks(r)
    BY <1>1, <1>2, <1>5, <2>1, <2>3 DEF Walks, HandChecks, Like, Signups, SignIns, ClickChecks, FactorChecks, SignupChecks
  <2> QED BY <2>1, <2>4 DEF Moves
<1>6. CASE call[r].op = "signup" /\ Goto(r, "ok")
  <2>1. call' \in [Requests -> Call] /\ Alone(r) /\ Like(call[r], call'[r], "ok")
    BY <1>1, <1>6, GotoIs, PointsAre
  <2>2. AtHome(call'[r])
    BY <1>1, <1>2, <1>6, <2>1 DEF AtHome, Like, Ending, Rollback, Signups
  <2>3. OnAsBefore(call[r], call'[r])
    BY <1>1, <1>2, <1>6, <2>1, <2>2 DEF OnAsBefore, Like, HasUser, Unknown, HasSession, Signups
  <2>4. Walks(r)
    BY <1>1, <1>2, <1>6, <2>1, <2>3 DEF Walks, HandChecks, Like, Signups, SignIns, ClickChecks, FactorChecks, SignupChecks
  <2> QED BY <2>1, <2>4 DEF Moves
<1>7. CASE call[r].op = "redeem" /\ Goto(r, "role")
  <2>1. call' \in [Requests -> Call] /\ Alone(r) /\ Like(call[r], call'[r], "role")
    BY <1>1, <1>7, GotoIs, PointsAre
  <2>2. AtHome(call'[r])
    BY <1>1, <1>2, <1>7, <2>1 DEF AtHome, Like, Ending, Rollback, Signups
  <2>3. OnAsBefore(call[r], call'[r])
    BY <1>1, <1>2, <1>7, <2>1, <2>2 DEF OnAsBefore, Like, HasUser, Unknown, HasSession, Signups
  <2>4. Walks(r)
    BY <1>1, <1>2, <1>7, <2>1, <2>3 DEF Walks, HandChecks, Like, Signups, SignIns, ClickChecks, FactorChecks, SignupChecks
  <2> QED BY <2>1, <2>4 DEF Moves
<1>8. CASE call[r].op = "click" /\ Goto(r, "reread")
  <2>1. call' \in [Requests -> Call] /\ Alone(r) /\ Like(call[r], call'[r], "reread")
    BY <1>1, <1>8, GotoIs, PointsAre
  <2>2. AtHome(call'[r])
    BY <1>1, <1>2, <1>8, <2>1 DEF AtHome, Like, Ending, Rollback, Signups
  <2>3. OnAsBefore(call[r], call'[r])
    BY <1>1, <1>2, <1>8, <2>1, <2>2 DEF OnAsBefore, Like, HasUser, Unknown, HasSession, Signups
  <2>4. Walks(r)
    BY <1>1, <1>2, <1>8, <2>1, <2>3 DEF Walks, HandChecks, Like, Signups, SignIns, ClickChecks, FactorChecks, SignupChecks
  <2> QED BY <2>1, <2>4 DEF Moves
<1> QED BY <1>3, <1>5, <1>6, <1>7, <1>8

LEMMA InsertCredentialMoves ==
    ASSUME Inv, NEW r \in Requests, InsertCredential(r), SignupFacts(r)
    PROVE  call' \in [Requests -> Call] /\ Alone(r) /\ Moves(r)
<1>1. call \in [Requests -> Call] /\ AtHome(call[r]) /\ call[r].at = "credential"
  BY CallIs DEF InsertCredential
<1>2. \/ call[r].op = "signup" /\ call[r].path = "signup"
      \/ call[r].op = "redeem" /\ call[r].path = "redeem"
  BY <1>1 DEF AtHome, Ending, Rollback
<1>3. \/ Goto(r, "uncredential")
      \/ Goto(r, "profile")
  BY <1>1, <1>2, NextPoint DEF InsertCredential, May, Signups
<1>4. Never("undo") => profile'[call[r].u] # "signup"
  <2>1. call[r].u # NoUser
    BY <1>1, CallIs, NullAssumption DEF Flowing, HasUser, Unknown
  <2> QED BY <1>1, <1>2, <2>1 DEF SignupFacts, InsertCredential, Signups
<1>5. CASE Goto(r, "uncredential")
  <2>1. call' \in [Requests -> Call] /\ Alone(r) /\ Like(call[r], call'[r], "uncredential")
    BY <1>1, <1>5, GotoIs, PointsAre
  <2>2. AtHome(call'[r])
    BY <1>1, <1>2, <1>5, <2>1 DEF AtHome, Like, Ending, Rollback, Signups
  <2>3. OnAsBefore(call[r], call'[r])
    BY <1>1, <1>2, <1>5, <2>1, <2>2 DEF OnAsBefore, Like, HasUser, Unknown, HasSession, Signups
  <2>4. Walks(r)
    BY <1>1, <1>2, <1>5, <2>1, <2>3, <1>4 DEF Walks, HandChecks, Like, Signups, SignIns, SignupChecks
  <2> QED BY <2>1, <2>4 DEF Moves
<1>6. CASE Goto(r, "profile")
  <2>1. call' \in [Requests -> Call] /\ Alone(r) /\ Like(call[r], call'[r], "profile")
    BY <1>1, <1>6, GotoIs, PointsAre
  <2>2. AtHome(call'[r])
    BY <1>1, <1>2, <1>6, <2>1 DEF AtHome, Like, Ending, Rollback, Signups
  <2>3. OnAsBefore(call[r], call'[r])
    BY <1>1, <1>2, <1>6, <2>1, <2>2 DEF OnAsBefore, Like, HasUser, Unknown, HasSession, Signups
  <2>4. Walks(r)
    BY <1>1, <1>2, <1>6, <2>1, <2>3, <1>4 DEF Walks, HandChecks, Like, Signups, SignIns, SignupChecks
  <2> QED BY <2>1, <2>4 DEF Moves
<1> QED BY <1>3, <1>5, <1>6

LEMMA InsertProfileMoves ==
    ASSUME Inv, NEW r \in Requests, InsertProfile(r), SignupFacts(r)
    PROVE  call' \in [Requests -> Call] /\ Alone(r) /\ Moves(r)
<1>1. call \in [Requests -> Call] /\ AtHome(call[r]) /\ call[r].at = "profile"
  BY CallIs DEF InsertProfile
<1>2. \/ call[r].op = "signup" /\ call[r].path = "signup"
      \/ call[r].op = "redeem" /\ call[r].path = "redeem"
      \/ call[r].op = "click" /\ call[r].path = "newcomer"
      \/ call[r].op = "oauth" /\ call[r].path = "matched"
      \/ call[r].op = "oauth" /\ call[r].path = "fresh"
  BY <1>1 DEF AtHome, Ending, Rollback
<1>3. \/ call[r].op = "oauth" /\ Goto(r, "refused")
      \/ call[r].op # "oauth" /\ profile' = profile /\ Goto(r, "uncredential")
      \/ call[r].path = "signup" /\ Goto(r, "session")
      \/ call[r].path \in {"redeem", "newcomer"} /\ Goto(r, "mark")
      \/ call[r].path = "matched" /\ Goto(r, "greet")
      \/ call[r].path = "fresh" /\ Goto(r, "link")
  BY <1>1, <1>2, NextPoint DEF InsertProfile, May, Signups
<1>4. call[r].op \in Signups /\ Never("undo") => profile[call[r].u] # "signup"
  <2>1. call[r].u # NoUser
    BY <1>1, CallIs, NullAssumption DEF Flowing, HasUser, Unknown
  <2> QED BY <1>1, <2>1 DEF SignupFacts
<1>5. CASE call[r].op = "oauth" /\ Goto(r, "refused")
  BY <1>1, <1>2, <1>5, RefuseMoves DEF Signups
<1>6. CASE call[r].op # "oauth" /\ profile' = profile /\ Goto(r, "uncredential")
  <2>1. call' \in [Requests -> Call] /\ Alone(r) /\ Like(call[r], call'[r], "uncredential")
    BY <1>1, <1>6, GotoIs, PointsAre
  <2>2. AtHome(call'[r])
    BY <1>1, <1>2, <1>6, <2>1 DEF AtHome, Like, Ending, Rollback, Signups
  <2>3. OnAsBefore(call[r], call'[r])
    BY <1>1, <1>2, <1>6, <2>1, <2>2 DEF OnAsBefore, Like, HasUser, Unknown, HasSession, Signups
  <2>4. Walks(r)
    BY <1>1, <1>2, <1>6, <2>1, <2>3, <1>4 DEF Walks, HandChecks, Like, Signups, SignIns, ClickChecks, OAuthChecks, Linking, FactorChecks, SignupChecks
  <2> QED BY <2>1, <2>4 DEF Moves
<1>7. CASE call[r].path = "signup" /\ Goto(r, "session")
  <2>1. call' \in [Requests -> Call] /\ Alone(r) /\ Like(call[r], call'[r], "session")
    BY <1>1, <1>7, GotoIs, PointsAre
  <2>2. AtHome(call'[r])
    BY <1>1, <1>2, <1>7, <2>1 DEF AtHome, Like, Ending, Rollback, Signups
  <2>3. OnAsBefore(call[r], call'[r])
    BY <1>1, <1>2, <1>7, <2>1, <2>2 DEF OnAsBefore, Like, HasUser, Unknown, HasSession, Signups
  <2>4. Walks(r)
    BY <1>1, <1>2, <1>7, <2>1, <2>3 DEF Walks, HandChecks, Like, Signups, SignIns, ClickChecks, OAuthChecks, Linking, FactorChecks, SignupChecks
  <2> QED BY <2>1, <2>4 DEF Moves
<1>8. CASE call[r].path \in {"redeem", "newcomer"} /\ Goto(r, "mark")
  <2>1. call' \in [Requests -> Call] /\ Alone(r) /\ Like(call[r], call'[r], "mark")
    BY <1>1, <1>8, GotoIs, PointsAre
  <2>2. AtHome(call'[r])
    BY <1>1, <1>2, <1>8, <2>1 DEF AtHome, Like, Ending, Rollback, Signups
  <2>3. OnAsBefore(call[r], call'[r])
    BY <1>1, <1>2, <1>8, <2>1, <2>2 DEF OnAsBefore, Like, HasUser, Unknown, HasSession, Signups
  <2>4. Walks(r)
    BY <1>1, <1>2, <1>8, <2>1, <2>3 DEF Walks, HandChecks, Like, Signups, SignIns, ClickChecks, OAuthChecks, Linking, FactorChecks, SignupChecks
  <2> QED BY <2>1, <2>4 DEF Moves
<1>9. CASE call[r].path = "matched" /\ Goto(r, "greet")
  <2>1. call' \in [Requests -> Call] /\ Alone(r) /\ Like(call[r], call'[r], "greet")
    BY <1>1, <1>9, GotoIs, PointsAre
  <2>2. AtHome(call'[r])
    BY <1>1, <1>2, <1>9, <2>1 DEF AtHome, Like, Ending, Rollback, Signups
  <2>3. OnAsBefore(call[r], call'[r])
    BY <1>1, <1>2, <1>9, <2>1, <2>2 DEF OnAsBefore, Like, HasUser, Unknown, HasSession, Signups
  <2>4. Walks(r)
    BY <1>1, <1>2, <1>9, <2>1, <2>3 DEF Walks, HandChecks, Like, Signups, SignIns, ClickChecks, OAuthChecks, Linking, FactorChecks, SignupChecks
  <2> QED BY <2>1, <2>4 DEF Moves
<1>10. CASE call[r].path = "fresh" /\ Goto(r, "link")
  <2>1. call' \in [Requests -> Call] /\ Alone(r) /\ Like(call[r], call'[r], "link")
    BY <1>1, <1>10, GotoIs, PointsAre
  <2>2. AtHome(call'[r])
    BY <1>1, <1>2, <1>10, <2>1 DEF AtHome, Like, Ending, Rollback, Signups
  <2>3. OnAsBefore(call[r], call'[r])
    BY <1>1, <1>2, <1>10, <2>1, <2>2 DEF OnAsBefore, Like, HasUser, Unknown, HasSession, Signups
  <2>4. Walks(r)
    BY <1>1, <1>2, <1>10, <2>1, <2>3 DEF Walks, HandChecks, Like, Signups, SignIns, ClickChecks, OAuthChecks, Linking, FactorChecks, SignupChecks
  <2> QED BY <2>1, <2>4 DEF Moves
<1> QED BY <1>3, <1>5, <1>6, <1>7, <1>8, <1>9, <1>10

LEMMA MarkMoves ==
    ASSUME Inv, NEW r \in Requests, Mark(r)
    PROVE  call' \in [Requests -> Call] /\ Alone(r) /\ Moves(r)
<1>1. call \in [Requests -> Call] /\ AtHome(call[r]) /\ call[r].at = "mark"
  BY CallIs DEF Mark
<1>2. \/ call[r].op = "redeem" /\ call[r].path = "redeem"
      \/ call[r].op = "click" /\ call[r].path = "newcomer"
      \/ call[r].op = "click" /\ call[r].path = "known"
      \/ call[r].op = "oauth" /\ call[r].path = "returning"
      \/ call[r].op = "oauth" /\ call[r].path = "matched"
      \/ call[r].op = "oauth" /\ call[r].path = "fresh"
  BY <1>1 DEF AtHome, Ending, Rollback
<1>3. \/ call[r].path = "known" /\ Goto(r, "refused")
      \/ call[r].path \in {"redeem", "known"} /\ Goto(r, "session")
      \/ call[r].path = "newcomer" /\ Goto(r, "onSignup")
      \/ call[r].path = "returning" /\ Goto(r, "greet")
      \/ call[r].path = "matched" /\ Goto(r, "locked")
      \/ call[r].path = "fresh" /\ Goto(r, "profile")
  BY <1>1, <1>2, NextPoint DEF Mark, May, Signups
<1>5. CASE call[r].path = "known" /\ Goto(r, "refused")
  BY <1>1, <1>2, <1>5, RefuseMoves DEF Signups
<1>6. CASE call[r].path \in {"redeem", "known"} /\ Goto(r, "session")
  <2>1. call' \in [Requests -> Call] /\ Alone(r) /\ Like(call[r], call'[r], "session")
    BY <1>1, <1>6, GotoIs, PointsAre
  <2>2. AtHome(call'[r])
    BY <1>1, <1>2, <1>6, <2>1 DEF AtHome, Like, Ending, Rollback, Signups
  <2>3. OnAsBefore(call[r], call'[r])
    BY <1>1, <1>2, <1>6, <2>1, <2>2 DEF OnAsBefore, Like, HasUser, Unknown, HasSession, Signups
  <2>4. Walks(r)
    BY <1>1, <1>2, <1>6, <2>1, <2>3 DEF Walks, HandChecks, Like, Signups, SignIns, ClickChecks, WipeChecks, OAuthChecks, Linking, FactorChecks, SignupChecks
  <2> QED BY <2>1, <2>4 DEF Moves
<1>7. CASE call[r].path = "newcomer" /\ Goto(r, "onSignup")
  <2>1. call' \in [Requests -> Call] /\ Alone(r) /\ Like(call[r], call'[r], "onSignup")
    BY <1>1, <1>7, GotoIs, PointsAre
  <2>2. AtHome(call'[r])
    BY <1>1, <1>2, <1>7, <2>1 DEF AtHome, Like, Ending, Rollback, Signups
  <2>3. OnAsBefore(call[r], call'[r])
    BY <1>1, <1>2, <1>7, <2>1, <2>2 DEF OnAsBefore, Like, HasUser, Unknown, HasSession, Signups
  <2>4. Walks(r)
    BY <1>1, <1>2, <1>7, <2>1, <2>3 DEF Walks, HandChecks, Like, Signups, SignIns, ClickChecks, WipeChecks, OAuthChecks, Linking, FactorChecks, SignupChecks
  <2> QED BY <2>1, <2>4 DEF Moves
<1>8. CASE call[r].path = "returning" /\ Goto(r, "greet")
  <2>1. call' \in [Requests -> Call] /\ Alone(r) /\ Like(call[r], call'[r], "greet")
    BY <1>1, <1>8, GotoIs, PointsAre
  <2>2. AtHome(call'[r])
    BY <1>1, <1>2, <1>8, <2>1 DEF AtHome, Like, Ending, Rollback, Signups
  <2>3. OnAsBefore(call[r], call'[r])
    BY <1>1, <1>2, <1>8, <2>1, <2>2 DEF OnAsBefore, Like, HasUser, Unknown, HasSession, Signups
  <2>4. Walks(r)
    BY <1>1, <1>2, <1>8, <2>1, <2>3 DEF Walks, HandChecks, Like, Signups, SignIns, ClickChecks, WipeChecks, OAuthChecks, Linking, FactorChecks, SignupChecks
  <2> QED BY <2>1, <2>4 DEF Moves
<1>9. CASE call[r].path = "matched" /\ Goto(r, "locked")
  <2>1. call' \in [Requests -> Call] /\ Alone(r) /\ Like(call[r], call'[r], "locked")
    BY <1>1, <1>9, GotoIs, PointsAre
  <2>2. AtHome(call'[r])
    BY <1>1, <1>2, <1>9, <2>1 DEF AtHome, Like, Ending, Rollback, Signups
  <2>3. OnAsBefore(call[r], call'[r])
    BY <1>1, <1>2, <1>9, <2>1, <2>2 DEF OnAsBefore, Like, HasUser, Unknown, HasSession, Signups
  <2>4. Walks(r)
    BY <1>1, <1>2, <1>9, <2>1, <2>3 DEF Walks, HandChecks, Like, Signups, SignIns, ClickChecks, WipeChecks, OAuthChecks, Linking, FactorChecks, SignupChecks
  <2> QED BY <2>1, <2>4 DEF Moves
<1>10. CASE call[r].path = "fresh" /\ Goto(r, "profile")
  <2>1. call' \in [Requests -> Call] /\ Alone(r) /\ Like(call[r], call'[r], "profile")
    BY <1>1, <1>10, GotoIs, PointsAre
  <2>2. AtHome(call'[r])
    BY <1>1, <1>2, <1>10, <2>1 DEF AtHome, Like, Ending, Rollback, Signups
  <2>3. OnAsBefore(call[r], call'[r])
    BY <1>1, <1>2, <1>10, <2>1, <2>2 DEF OnAsBefore, Like, HasUser, Unknown, HasSession, Signups
  <2>4. Walks(r)
    BY <1>1, <1>2, <1>10, <2>1, <2>3 DEF Walks, HandChecks, Like, Signups, SignIns, ClickChecks, WipeChecks, OAuthChecks, Linking, FactorChecks, SignupChecks
  <2> QED BY <2>1, <2>4 DEF Moves
<1> QED BY <1>3, <1>5, <1>6, <1>7, <1>8, <1>9, <1>10

LEMMA DeleteProfileMoves ==
    ASSUME Inv, NEW r \in Requests, DeleteProfile(r), SignupFacts(r)
    PROVE  call' \in [Requests -> Call] /\ Alone(r) /\ Moves(r)
<1>1. call \in [Requests -> Call] /\ AtHome(call[r]) /\ call[r].at \in {"unprofile", "lateProfile"}
  BY CallIs DEF DeleteProfile
<1>2. \/ call[r].op = "signup" /\ call[r].path = "signup"
      \/ call[r].op = "redeem" /\ call[r].path = "redeem"
      \/ call[r].op = "click" /\ call[r].path = "newcomer"
  BY <1>1 DEF AtHome, Ending, Rollback
<1> DEFINE Wiped == Never("undo") => profile'[call[r].u] = "none"
<1>3. Wiped /\ (\/ call[r].at = "unprofile" /\ Goto(r, "uncredential")
                \/ call[r].at = "lateProfile" /\ Goto(r, "refused"))
  BY <1>1, CallIs DEF DeleteProfile, May, Never, Inv, TypeOK, AccountsTypeOK, Flowing, HasUser, Unknown
<1>4. call[r].at = "lateProfile" /\ Never("undo") => user'[call[r].u].state = "gone"
  <2>1. call[r].u # NoUser
    BY <1>1, CallIs, NullAssumption DEF Flowing, HasUser, Unknown
  <2>2. call[r].at = "lateProfile" => call[r].op = "redeem"
    BY <1>1 DEF AtHome, Ending, Rollback
  <2> QED BY <2>1, <2>2 DEF SignupFacts, DeleteProfile, Signups
<1>5. CASE call[r].at = "unprofile" /\ Wiped /\ Goto(r, "uncredential")
  <2>1. call' \in [Requests -> Call] /\ Alone(r) /\ Like(call[r], call'[r], "uncredential")
    BY <1>1, <1>5, GotoIs, PointsAre
  <2>2. AtHome(call'[r])
    BY <1>1, <1>2, <1>5, <2>1 DEF AtHome, Like, Ending, Rollback, Signups
  <2>3. OnAsBefore(call[r], call'[r])
    BY <1>1, <1>2, <1>5, <2>1, <2>2 DEF OnAsBefore, Like, HasUser, Unknown, HasSession, Signups
  <2>4. Walks(r)
    BY <1>1, <1>2, <1>5, <2>1, <2>3 DEF Walks, HandChecks, Like, Signups, SignIns, ClickChecks, FactorChecks, SignupChecks
  <2> QED BY <2>1, <2>4 DEF Moves
<1>6. CASE call[r].at = "lateProfile" /\ Wiped /\ Goto(r, "refused")
  BY <1>1, <1>2, <1>6, <1>4, RefuseMoves DEF Signups
<1> QED BY <1>3, <1>5, <1>6

LEMMA DeleteCredentialMoves ==
    ASSUME Inv, NEW r \in Requests, DeleteCredential(r), SignupFacts(r)
    PROVE  call' \in [Requests -> Call] /\ Alone(r) /\ Moves(r)
<1>1. call \in [Requests -> Call] /\ AtHome(call[r]) /\ call[r].at \in {"uncredential", "lateCredential"}
  BY CallIs DEF DeleteCredential
<1>2. \/ call[r].op = "signup" /\ call[r].path = "signup"
      \/ call[r].op = "redeem" /\ call[r].path = "redeem"
      \/ call[r].op = "click" /\ call[r].path = "newcomer"
  BY <1>1 DEF AtHome, Ending, Rollback
<1>3. \/ call[r].at = "uncredential" /\ Goto(r, "unuser")
      \/ call[r].at = "lateCredential" /\ Goto(r, "lateUser")
  BY <1>1, <1>2, NextPoint DEF DeleteCredential, May, Signups
<1>4. call[r].at = "uncredential" /\ call[r].op \in Signups /\ Never("undo") => profile'[call[r].u] # "signup"
  <2>1. call[r].u # NoUser
    BY <1>1, CallIs, NullAssumption DEF Flowing, HasUser, Unknown
  <2> QED BY <1>1, <2>1 DEF SignupFacts, DeleteCredential
<1>5. CASE call[r].at = "uncredential" /\ Goto(r, "unuser")
  <2>1. call' \in [Requests -> Call] /\ Alone(r) /\ Like(call[r], call'[r], "unuser")
    BY <1>1, <1>5, GotoIs, PointsAre
  <2>2. AtHome(call'[r])
    BY <1>1, <1>2, <1>5, <2>1 DEF AtHome, Like, Ending, Rollback, Signups
  <2>3. OnAsBefore(call[r], call'[r])
    BY <1>1, <1>2, <1>5, <2>1, <2>2 DEF OnAsBefore, Like, HasUser, Unknown, HasSession, Signups
  <2>4. Walks(r)
    BY <1>1, <1>2, <1>5, <2>1, <2>3, <1>4 DEF Walks, HandChecks, Like, Signups, SignIns, ClickChecks, FactorChecks, SignupChecks
  <2> QED BY <2>1, <2>4 DEF Moves
<1>6. CASE call[r].at = "lateCredential" /\ Goto(r, "lateUser")
  <2>1. call' \in [Requests -> Call] /\ Alone(r) /\ Like(call[r], call'[r], "lateUser")
    BY <1>1, <1>6, GotoIs, PointsAre
  <2>2. AtHome(call'[r])
    BY <1>1, <1>2, <1>6, <2>1 DEF AtHome, Like, Ending, Rollback, Signups
  <2>3. OnAsBefore(call[r], call'[r])
    BY <1>1, <1>2, <1>6, <2>1, <2>2 DEF OnAsBefore, Like, HasUser, Unknown, HasSession, Signups
  <2>4. Walks(r)
    BY <1>1, <1>2, <1>6, <2>1, <2>3 DEF Walks, HandChecks, Like, Signups, SignIns, ClickChecks, FactorChecks, SignupChecks
  <2> QED BY <2>1, <2>4 DEF Moves
<1> QED BY <1>3, <1>5, <1>6

LEMMA DeleteUserMoves ==
    ASSUME Inv, NEW r \in Requests, DeleteUser(r), SignupFacts(r)
    PROVE  call' \in [Requests -> Call] /\ Alone(r) /\ Moves(r)
<1>1. call \in [Requests -> Call] /\ AtHome(call[r]) /\ call[r].at \in {"unuser", "lateUser"}
  BY CallIs DEF DeleteUser
<1>2. \/ call[r].op = "signup" /\ call[r].path = "signup"
      \/ call[r].op = "redeem" /\ call[r].path = "redeem"
      \/ call[r].op = "click" /\ call[r].path = "newcomer"
  BY <1>1 DEF AtHome, Ending, Rollback
<1>3. \/ call[r].at = "lateUser" /\ Goto(r, "lateProfile")
      \/ call[r].at = "unuser" /\ call[r].op \in Signups /\ Goto(r, "refused")
      \/ call[r].op = "click" /\ Goto(r, "again")
  BY <1>1, <1>2, NextPoint DEF DeleteUser, May, Signups
<1>4. Never("undo") =>
      /\ user'[call[r].u].state = "gone"
      /\ call[r].at = "unuser" /\ call[r].op \in Signups => profile'[call[r].u] # "signup"
  <2>1. call[r].u \in Users
    BY <1>1, CallIs, NullAssumption DEF Flowing, HasUser, Unknown
  <2>2. Never("undo") => user'[call[r].u].state = "gone"
    BY <2>1 DEF DeleteUser, Inv, TypeOK, AccountsTypeOK, User
  <2>3. call[r].u # NoUser
    BY <2>1, NullAssumption
  <2> QED BY <1>1, <2>2, <2>3 DEF SignupFacts, DeleteUser
<1>5. CASE call[r].at = "lateUser" /\ Goto(r, "lateProfile")
  <2>1. call' \in [Requests -> Call] /\ Alone(r) /\ Like(call[r], call'[r], "lateProfile")
    BY <1>1, <1>5, GotoIs, PointsAre
  <2>2. AtHome(call'[r])
    BY <1>1, <1>2, <1>5, <2>1 DEF AtHome, Like, Ending, Rollback, Signups
  <2>3. OnAsBefore(call[r], call'[r])
    BY <1>1, <1>2, <1>5, <2>1, <2>2 DEF OnAsBefore, Like, HasUser, Unknown, HasSession, Signups
  <2>4. Walks(r)
    BY <1>1, <1>2, <1>5, <2>1, <2>3, <1>4 DEF Walks, HandChecks, Like, Signups, SignIns, ClickChecks, FactorChecks, SignupChecks
  <2> QED BY <2>1, <2>4 DEF Moves
<1>6. CASE call[r].at = "unuser" /\ call[r].op \in Signups /\ Goto(r, "refused")
  BY <1>1, <1>2, <1>6, <1>4, RefuseMoves DEF Signups
<1>7. CASE call[r].op = "click" /\ Goto(r, "again")
  <2>1. call' \in [Requests -> Call] /\ Alone(r) /\ Like(call[r], call'[r], "again")
    BY <1>1, <1>7, GotoIs, PointsAre
  <2>2. AtHome(call'[r])
    BY <1>1, <1>2, <1>7, <2>1 DEF AtHome, Like, Ending, Rollback, Signups
  <2>3. OnAsBefore(call[r], call'[r])
    BY <1>1, <1>2, <1>7, <2>1, <2>2 DEF OnAsBefore, Like, HasUser, Unknown, HasSession, Signups
  <2>4. Walks(r)
    BY <1>1, <1>2, <1>7, <2>1, <2>3 DEF Walks, HandChecks, Like, Signups, SignIns, ClickChecks, FactorChecks, SignupChecks
  <2> QED BY <2>1, <2>4 DEF Moves
<1> QED BY <1>3, <1>5, <1>6, <1>7

LEMMA SecondMoves ==
    ASSUME Inv, NEW r \in Requests, Second(r)
    PROVE  call' \in [Requests -> Call] /\ Alone(r) /\ Moves(r)
<1>1. call \in [Requests -> Call] /\ AtHome(call[r]) /\ call[r].at = "second"
  BY CallIs DEF Second
<1>2. \/ call[r].op = "click" /\ call[r].path = "none"
      \/ call[r].op = "oauth" /\ call[r].path = "none"
      \/ call[r].op = "oauth" /\ call[r].path = "fresh"
  BY <1>1 DEF AtHome, Ending, Rollback
<1>3. \/ Goto(r, "pend")
      \/ (Never("second") => call[r].u \notin factored') /\ Goto(r, "onLogin")
  BY DEF Second, May, Never, rows
<1>5. CASE Goto(r, "pend")
  <2>1. call' \in [Requests -> Call] /\ Alone(r) /\ Like(call[r], call'[r], "pend")
    BY <1>1, <1>5, GotoIs, PointsAre
  <2>2. AtHome(call'[r])
    BY <1>1, <1>2, <1>5, <2>1 DEF AtHome, Like, Ending, Rollback, Signups
  <2>3. OnAsBefore(call[r], call'[r])
    BY <1>1, <1>2, <1>5, <2>1, <2>2 DEF OnAsBefore, Like, HasUser, Unknown, HasSession, Signups
  <2>4. Walks(r)
    BY <1>1, <1>2, <1>5, <2>1, <2>3 DEF Walks, HandChecks, Like, Signups, SignIns, ClickChecks, OAuthChecks, Linking, FactorChecks
  <2> QED BY <2>1, <2>4 DEF Moves
<1>6. CASE (Never("second") => call[r].u \notin factored') /\ Goto(r, "onLogin")
  <2>1. call' \in [Requests -> Call] /\ Alone(r) /\ Like(call[r], call'[r], "onLogin")
    BY <1>1, <1>6, GotoIs, PointsAre
  <2>2. AtHome(call'[r])
    BY <1>1, <1>2, <1>6, <2>1 DEF AtHome, Like, Ending, Rollback, Signups
  <2>3. OnAsBefore(call[r], call'[r])
    BY <1>1, <1>2, <1>6, <2>1, <2>2 DEF OnAsBefore, Like, HasUser, Unknown, HasSession, Signups
  <2>4. Walks(r)
    BY <1>1, <1>2, <1>6, <2>1, <2>3 DEF Walks, HandChecks, Like, Signups, SignIns, ClickChecks, OAuthChecks, Linking, FactorChecks
  <2> QED BY <2>1, <2>4 DEF Moves
<1> QED BY <1>3, <1>5, <1>6

LEMMA PendMoves ==
    ASSUME Inv, NEW r \in Requests, Pend(r)
    PROVE  call' \in [Requests -> Call] /\ Alone(r) /\ Moves(r)
<1>1. call \in [Requests -> Call] /\ AtHome(call[r]) /\ call[r].at = "pend"
  BY CallIs DEF Pend
<1>2. \/ call[r].op = "click" /\ call[r].path = "none"
      \/ call[r].op = "oauth" /\ call[r].path = "none"
      \/ call[r].op = "oauth" /\ call[r].path = "fresh"
  BY <1>1 DEF AtHome, Ending, Rollback
<1>3. \/ Goto(r, "refused")
      \/ session'[call[r].s].state # "open" /\ call[r].op = "click" /\ CodeFlow /\ Goto(r, "code")
      \/ session'[call[r].s].state # "open" /\ call[r].path = "fresh" /\ Goto(r, "tenancy")
      \/ session'[call[r].s].state # "open" /\ (call[r].op = "click" => ~CodeFlow) /\ Goto(r, "ok")
  <2>1. call[r].s \in SessionIds
    BY <1>1, CallIs DEF Flowing, HasSession
  <2>2. ASSUME SetSessions({call[r].s} \cap {s \in SessionIds : Usable(s)}, "pending")
        PROVE  session'[call[r].s].state # "open"
    BY <2>1, <2>2 DEF SetSessions, Usable, Inv, TypeOK, AccountsTypeOK, Session
  <2> QED BY <2>2 DEF Pend, May, Complete, CodeFlow
<1>5. CASE Goto(r, "refused")
  BY <1>1, <1>2, <1>5, RefuseMoves DEF Signups
<1>6. CASE session'[call[r].s].state # "open" /\ call[r].op = "click" /\ CodeFlow /\ Goto(r, "code")
  <2>1. call' \in [Requests -> Call] /\ Alone(r) /\ Like(call[r], call'[r], "code")
    BY <1>1, <1>6, GotoIs, PointsAre
  <2>2. AtHome(call'[r])
    BY <1>1, <1>2, <1>6, <2>1 DEF AtHome, Like, Ending, Rollback, Signups
  <2>3. OnAsBefore(call[r], call'[r])
    BY <1>1, <1>2, <1>6, <2>1, <2>2 DEF OnAsBefore, Like, HasUser, Unknown, HasSession, Signups
  <2>4. Walks(r)
    BY <1>1, <1>2, <1>6, <2>1, <2>3 DEF Walks, HandChecks, Like, Signups, SignIns, ClickChecks, OAuthChecks, Linking, FactorChecks
  <2> QED BY <2>1, <2>4 DEF Moves
<1>7. CASE session'[call[r].s].state # "open" /\ call[r].path = "fresh" /\ Goto(r, "tenancy")
  <2>1. call' \in [Requests -> Call] /\ Alone(r) /\ Like(call[r], call'[r], "tenancy")
    BY <1>1, <1>7, GotoIs, PointsAre
  <2>2. AtHome(call'[r])
    BY <1>1, <1>2, <1>7, <2>1 DEF AtHome, Like, Ending, Rollback, Signups
  <2>3. OnAsBefore(call[r], call'[r])
    BY <1>1, <1>2, <1>7, <2>1, <2>2 DEF OnAsBefore, Like, HasUser, Unknown, HasSession, Signups
  <2>4. Walks(r)
    BY <1>1, <1>2, <1>7, <2>1, <2>3 DEF Walks, HandChecks, Like, Signups, SignIns, ClickChecks, OAuthChecks, Linking, FactorChecks
  <2> QED BY <2>1, <2>4 DEF Moves
<1>8. CASE session'[call[r].s].state # "open" /\ (call[r].op = "click" => ~CodeFlow) /\ Goto(r, "ok")
  <2>1. call' \in [Requests -> Call] /\ Alone(r) /\ Like(call[r], call'[r], "ok")
    BY <1>1, <1>8, GotoIs, PointsAre
  <2>2. AtHome(call'[r])
    BY <1>1, <1>2, <1>8, <2>1 DEF AtHome, Like, Ending, Rollback, Signups
  <2>3. OnAsBefore(call[r], call'[r])
    BY <1>1, <1>2, <1>8, <2>1, <2>2 DEF OnAsBefore, Like, HasUser, Unknown, HasSession, Signups
  <2>4. Walks(r)
    BY <1>1, <1>2, <1>8, <2>1, <2>3 DEF Walks, HandChecks, Like, Signups, SignIns, ClickChecks, OAuthChecks, Linking, FactorChecks
  <2> QED BY <2>1, <2>4 DEF Moves
<1> QED BY <1>3, <1>5, <1>6, <1>7, <1>8

LEMMA OnLoginMoves ==
    ASSUME Inv, NEW r \in Requests, OnLogin(r)
    PROVE  call' \in [Requests -> Call] /\ Alone(r) /\ Moves(r)
<1>1. call \in [Requests -> Call] /\ AtHome(call[r]) /\ call[r].at = "onLogin"
  BY CallIs DEF OnLogin
<1>2. \/ call[r].op = "click" /\ call[r].path = "none"
      \/ call[r].op = "oauth" /\ call[r].path = "none"
      \/ call[r].op = "oauth" /\ call[r].path = "fresh"
  BY <1>1 DEF AtHome, Ending, Rollback
<1>3. \/ Goto(r, "revoke")
      \/ call[r].op = "click" /\ CodeFlow /\ Goto(r, "code")
      \/ call[r].path = "fresh" /\ Goto(r, "tenancy")
      \/ (call[r].op = "click" => ~CodeFlow) /\ Goto(r, "ok")
  BY DEF OnLogin, May, Complete, CodeFlow
<1>5. CASE Goto(r, "revoke")
  <2>1. call' \in [Requests -> Call] /\ Alone(r) /\ Like(call[r], call'[r], "revoke")
    BY <1>1, <1>5, GotoIs, PointsAre
  <2>2. AtHome(call'[r])
    BY <1>1, <1>2, <1>5, <2>1 DEF AtHome, Like, Ending, Rollback, Signups
  <2>3. OnAsBefore(call[r], call'[r])
    BY <1>1, <1>2, <1>5, <2>1, <2>2 DEF OnAsBefore, Like, HasUser, Unknown, HasSession, Signups
  <2>4. Walks(r)
    BY <1>1, <1>2, <1>5, <2>1, <2>3 DEF Walks, HandChecks, Like, Signups, SignIns, ClickChecks, OAuthChecks, Linking, FactorChecks
  <2> QED BY <2>1, <2>4 DEF Moves
<1>6. CASE call[r].op = "click" /\ CodeFlow /\ Goto(r, "code")
  <2>1. call' \in [Requests -> Call] /\ Alone(r) /\ Like(call[r], call'[r], "code")
    BY <1>1, <1>6, GotoIs, PointsAre
  <2>2. AtHome(call'[r])
    BY <1>1, <1>2, <1>6, <2>1 DEF AtHome, Like, Ending, Rollback, Signups
  <2>3. OnAsBefore(call[r], call'[r])
    BY <1>1, <1>2, <1>6, <2>1, <2>2 DEF OnAsBefore, Like, HasUser, Unknown, HasSession, Signups
  <2>4. Walks(r)
    BY <1>1, <1>2, <1>6, <2>1, <2>3 DEF Walks, HandChecks, Like, Signups, SignIns, ClickChecks, OAuthChecks, Linking, FactorChecks
  <2> QED BY <2>1, <2>4 DEF Moves
<1>7. CASE call[r].path = "fresh" /\ Goto(r, "tenancy")
  <2>1. call' \in [Requests -> Call] /\ Alone(r) /\ Like(call[r], call'[r], "tenancy")
    BY <1>1, <1>7, GotoIs, PointsAre
  <2>2. AtHome(call'[r])
    BY <1>1, <1>2, <1>7, <2>1 DEF AtHome, Like, Ending, Rollback, Signups
  <2>3. OnAsBefore(call[r], call'[r])
    BY <1>1, <1>2, <1>7, <2>1, <2>2 DEF OnAsBefore, Like, HasUser, Unknown, HasSession, Signups
  <2>4. Walks(r)
    BY <1>1, <1>2, <1>7, <2>1, <2>3 DEF Walks, HandChecks, Like, Signups, SignIns, ClickChecks, OAuthChecks, Linking, FactorChecks
  <2> QED BY <2>1, <2>4 DEF Moves
<1>8. CASE (call[r].op = "click" => ~CodeFlow) /\ Goto(r, "ok")
  <2>1. call' \in [Requests -> Call] /\ Alone(r) /\ Like(call[r], call'[r], "ok")
    BY <1>1, <1>8, GotoIs, PointsAre
  <2>2. AtHome(call'[r])
    BY <1>1, <1>2, <1>8, <2>1 DEF AtHome, Like, Ending, Rollback, Signups
  <2>3. OnAsBefore(call[r], call'[r])
    BY <1>1, <1>2, <1>8, <2>1, <2>2 DEF OnAsBefore, Like, HasUser, Unknown, HasSession, Signups
  <2>4. Walks(r)
    BY <1>1, <1>2, <1>8, <2>1, <2>3 DEF Walks, HandChecks, Like, Signups, SignIns, ClickChecks, OAuthChecks, Linking, FactorChecks
  <2> QED BY <2>1, <2>4 DEF Moves
<1> QED BY <1>3, <1>5, <1>6, <1>7, <1>8

LEMMA RevokeMoves ==
    ASSUME Inv, NEW r \in Requests, Revoke(r)
    PROVE  call' \in [Requests -> Call] /\ Alone(r) /\ Moves(r)
<1>1. call \in [Requests -> Call] /\ AtHome(call[r]) /\ call[r].at = "revoke"
  BY CallIs DEF Revoke
<1>2. \/ call[r].op = "exchange" /\ call[r].path = "none"
      \/ call[r].op = "click" /\ call[r].path = "none"
      \/ call[r].op = "oauth" /\ call[r].path = "none"
      \/ call[r].op = "oauth" /\ call[r].path = "fresh"
  BY <1>1 DEF AtHome, Ending, Rollback
<1>3. Goto(r, "refused")
  BY <1>1, <1>2, NextPoint DEF Revoke, May, Signups
<1>5. CASE Goto(r, "refused")
  BY <1>1, <1>2, <1>5, RefuseMoves DEF Signups
<1> QED BY <1>3, <1>5

LEMMA ConsumeLinkMoves ==
    ASSUME Inv, NEW r \in Requests, ConsumeLink(r)
    PROVE  call' \in [Requests -> Call] /\ Alone(r) /\ Moves(r)
<1>1. call \in [Requests -> Call] /\ AtHome(call[r]) /\ call[r].at = "consume"
  BY CallIs DEF ConsumeLink
<1>2. call[r].op = "click" /\ call[r].path = "none"
  BY <1>1 DEF AtHome, Ending, Rollback
<1>3. \/ Goto(r, "refused")
      \/ Goto(r, "find")
  BY <1>1, <1>2, NextPoint DEF ConsumeLink, May, Signups
<1>5. CASE Goto(r, "refused")
  BY <1>1, <1>2, <1>5, RefuseMoves DEF Signups
<1>6. CASE Goto(r, "find")
  <2>1. call' \in [Requests -> Call] /\ Alone(r) /\ Like(call[r], call'[r], "find")
    BY <1>1, <1>6, GotoIs, PointsAre
  <2>2. AtHome(call'[r])
    BY <1>1, <1>2, <1>6, <2>1 DEF AtHome, Like, Ending, Rollback, Signups
  <2>3. OnAsBefore(call[r], call'[r])
    BY <1>1, <1>2, <1>6, <2>1, <2>2 DEF OnAsBefore, Like, HasUser, Unknown, HasSession, Signups
  <2>4. Walks(r)
    BY <1>1, <1>2, <1>6, <2>1, <2>3 DEF Walks, HandChecks, Like, Signups, SignIns, ClickChecks, FactorChecks
  <2> QED BY <2>1, <2>4 DEF Moves
<1> QED BY <1>3, <1>5, <1>6

LEMMA CheckStaffMoves ==
    ASSUME Inv, NEW r \in Requests, CheckStaff(r)
    PROVE  call' \in [Requests -> Call] /\ Alone(r) /\ Moves(r)
<1>1. call \in [Requests -> Call] /\ AtHome(call[r]) /\ call[r].at = "staff"
  BY CallIs DEF CheckStaff
<1>2. call[r].op = "click" /\ call[r].path = "known"
  BY <1>1 DEF AtHome, Ending, Rollback
<1>3. \/ Goto(r, "refused")
      \/ call[r].u \notin staff' /\ Goto(r, "hasPassword")
      \/ call[r].u \notin staff' /\ AllowPasswordAccounts /\ Goto(r, "session")
      \/ call[r].u \notin staff' /\ AllowPasswordAccounts /\ Goto(r, "sweep")
  BY DEF CheckStaff, Admit, rows
<1>5. CASE Goto(r, "refused")
  BY <1>1, <1>2, <1>5, RefuseMoves DEF Signups
<1>6. CASE call[r].u \notin staff' /\ Goto(r, "hasPassword")
  <2>1. call' \in [Requests -> Call] /\ Alone(r) /\ Like(call[r], call'[r], "hasPassword")
    BY <1>1, <1>6, GotoIs, PointsAre
  <2>2. AtHome(call'[r])
    BY <1>1, <1>2, <1>6, <2>1 DEF AtHome, Like, Ending, Rollback, Signups
  <2>3. OnAsBefore(call[r], call'[r])
    BY <1>1, <1>2, <1>6, <2>1, <2>2 DEF OnAsBefore, Like, HasUser, Unknown, HasSession, Signups
  <2>4. Walks(r)
    BY <1>1, <1>2, <1>6, <2>1, <2>3 DEF Walks, HandChecks, Like, Signups, SignIns, ClickChecks, WipeChecks, FactorChecks
  <2> QED BY <2>1, <2>4 DEF Moves
<1>7. CASE call[r].u \notin staff' /\ AllowPasswordAccounts /\ Goto(r, "session")
  <2>1. call' \in [Requests -> Call] /\ Alone(r) /\ Like(call[r], call'[r], "session")
    BY <1>1, <1>7, GotoIs, PointsAre
  <2>2. AtHome(call'[r])
    BY <1>1, <1>2, <1>7, <2>1 DEF AtHome, Like, Ending, Rollback, Signups
  <2>3. OnAsBefore(call[r], call'[r])
    BY <1>1, <1>2, <1>7, <2>1, <2>2 DEF OnAsBefore, Like, HasUser, Unknown, HasSession, Signups
  <2>4. Walks(r)
    BY <1>1, <1>2, <1>7, <2>1, <2>3 DEF Walks, HandChecks, Like, Signups, SignIns, ClickChecks, WipeChecks, FactorChecks
  <2> QED BY <2>1, <2>4 DEF Moves
<1>8. CASE call[r].u \notin staff' /\ AllowPasswordAccounts /\ Goto(r, "sweep")
  <2>1. call' \in [Requests -> Call] /\ Alone(r) /\ Like(call[r], call'[r], "sweep")
    BY <1>1, <1>8, GotoIs, PointsAre
  <2>2. AtHome(call'[r])
    BY <1>1, <1>2, <1>8, <2>1 DEF AtHome, Like, Ending, Rollback, Signups
  <2>3. OnAsBefore(call[r], call'[r])
    BY <1>1, <1>2, <1>8, <2>1, <2>2 DEF OnAsBefore, Like, HasUser, Unknown, HasSession, Signups
  <2>4. Walks(r)
    BY <1>1, <1>2, <1>8, <2>1, <2>3 DEF Walks, HandChecks, Like, Signups, SignIns, ClickChecks, WipeChecks, FactorChecks
  <2> QED BY <2>1, <2>4 DEF Moves
<1> QED BY <1>3, <1>5, <1>6, <1>7, <1>8

LEMMA CheckPasswordMoves ==
    ASSUME Inv, NEW r \in Requests, CheckPassword(r)
    PROVE  call' \in [Requests -> Call] /\ Alone(r) /\ Moves(r)
<1>1. call \in [Requests -> Call] /\ AtHome(call[r]) /\ call[r].at = "hasPassword"
  BY CallIs DEF CheckPassword
<1>2. call[r].op = "click" /\ call[r].path = "known"
  BY <1>1 DEF AtHome, Ending, Rollback
<1>3. \/ Goto(r, "refused")
      \/ call[r].u \notin password' /\ Goto(r, "session")
      \/ call[r].u \notin password' /\ Goto(r, "sweep")
  BY DEF CheckPassword, Admit, rows
<1>5. CASE Goto(r, "refused")
  BY <1>1, <1>2, <1>5, RefuseMoves DEF Signups
<1>6. CASE call[r].u \notin password' /\ Goto(r, "session")
  <2>1. call' \in [Requests -> Call] /\ Alone(r) /\ Like(call[r], call'[r], "session")
    BY <1>1, <1>6, GotoIs, PointsAre
  <2>2. AtHome(call'[r])
    BY <1>1, <1>2, <1>6, <2>1 DEF AtHome, Like, Ending, Rollback, Signups
  <2>3. OnAsBefore(call[r], call'[r])
    BY <1>1, <1>2, <1>6, <2>1, <2>2 DEF OnAsBefore, Like, HasUser, Unknown, HasSession, Signups
  <2>4. Walks(r)
    BY <1>1, <1>2, <1>6, <2>1, <2>3 DEF Walks, HandChecks, Like, Signups, SignIns, ClickChecks, WipeChecks, FactorChecks
  <2> QED BY <2>1, <2>4 DEF Moves
<1>7. CASE call[r].u \notin password' /\ Goto(r, "sweep")
  <2>1. call' \in [Requests -> Call] /\ Alone(r) /\ Like(call[r], call'[r], "sweep")
    BY <1>1, <1>7, GotoIs, PointsAre
  <2>2. AtHome(call'[r])
    BY <1>1, <1>2, <1>7, <2>1 DEF AtHome, Like, Ending, Rollback, Signups
  <2>3. OnAsBefore(call[r], call'[r])
    BY <1>1, <1>2, <1>7, <2>1, <2>2 DEF OnAsBefore, Like, HasUser, Unknown, HasSession, Signups
  <2>4. Walks(r)
    BY <1>1, <1>2, <1>7, <2>1, <2>3 DEF Walks, HandChecks, Like, Signups, SignIns, ClickChecks, WipeChecks, FactorChecks
  <2> QED BY <2>1, <2>4 DEF Moves
<1> QED BY <1>3, <1>5, <1>6, <1>7

LEMMA SweepMoves ==
    ASSUME Inv, NEW r \in Requests, Sweep(r)
    PROVE  call' \in [Requests -> Call] /\ Alone(r) /\ Moves(r)
<1>1. call \in [Requests -> Call] /\ AtHome(call[r]) /\ call[r].at = "sweep"
  BY CallIs DEF Sweep
<1>2. call[r].op = "click" /\ call[r].path = "known"
  BY <1>1 DEF AtHome, Ending, Rollback
<1>3. \/ Goto(r, "refused")
      \/ (\A s \in SessionIds : session'[s].user = call[r].u => session'[s].state \notin {"open", "pending"}) /\ Goto(r, "unpassword")
  <2>1. Then(call[r]) = "unpassword"
    BY <1>1, NextPoint
  <2>2. ASSUME SetSessions({s \in SessionsOf(call[r].u) : Usable(s)}, "revoked"), NEW s \in SessionIds,
               session'[s].user = call[r].u
        PROVE  session'[s].state \notin {"open", "pending"}
    BY <2>2 DEF SetSessions, SessionsOf, Usable, Inv, TypeOK, AccountsTypeOK, Session
  <2> QED BY <2>1, <2>2 DEF Sweep, May
<1>5. CASE Goto(r, "refused")
  BY <1>1, <1>2, <1>5, RefuseMoves DEF Signups
<1>6. CASE (\A s \in SessionIds : session'[s].user = call[r].u => session'[s].state \notin {"open", "pending"}) /\ Goto(r, "unpassword")
  <2>1. call' \in [Requests -> Call] /\ Alone(r) /\ Like(call[r], call'[r], "unpassword")
    BY <1>1, <1>6, GotoIs, PointsAre
  <2>2. AtHome(call'[r])
    BY <1>1, <1>2, <1>6, <2>1 DEF AtHome, Like, Ending, Rollback, Signups
  <2>3. OnAsBefore(call[r], call'[r])
    BY <1>1, <1>2, <1>6, <2>1, <2>2 DEF OnAsBefore, Like, HasUser, Unknown, HasSession, Signups
  <2>4. Walks(r)
    BY <1>1, <1>2, <1>6, <2>1, <2>3 DEF Walks, HandChecks, Like, Signups, SignIns, ClickChecks, WipeChecks, FactorChecks
  <2> QED BY <2>1, <2>4 DEF Moves
<1> QED BY <1>3, <1>5, <1>6

LEMMA RemovePasswordMoves ==
    ASSUME Inv, NEW r \in Requests, RemovePassword(r)
    PROVE  call' \in [Requests -> Call] /\ Alone(r) /\ Moves(r)
<1>1. call \in [Requests -> Call] /\ AtHome(call[r]) /\ call[r].at = "unpassword"
  BY CallIs DEF RemovePassword
<1>2. call[r].op = "click" /\ call[r].path = "known"
  BY <1>1 DEF AtHome, Ending, Rollback
<1>3. \/ Goto(r, "refused")
      \/ call[r].u \notin password' /\ Goto(r, "unfactor")
  BY <1>1, <1>2, NextPoint DEF RemovePassword, May, Signups
<1>5. CASE Goto(r, "refused")
  BY <1>1, <1>2, <1>5, RefuseMoves DEF Signups
<1>6. CASE call[r].u \notin password' /\ Goto(r, "unfactor")
  <2>1. call' \in [Requests -> Call] /\ Alone(r) /\ Like(call[r], call'[r], "unfactor")
    BY <1>1, <1>6, GotoIs, PointsAre
  <2>2. AtHome(call'[r])
    BY <1>1, <1>2, <1>6, <2>1 DEF AtHome, Like, Ending, Rollback, Signups
  <2>3. OnAsBefore(call[r], call'[r])
    BY <1>1, <1>2, <1>6, <2>1, <2>2 DEF OnAsBefore, Like, HasUser, Unknown, HasSession, Signups
  <2>4. Walks(r)
    BY <1>1, <1>2, <1>6, <2>1, <2>3 DEF Walks, HandChecks, Like, Signups, SignIns, ClickChecks, WipeChecks, FactorChecks
  <2> QED BY <2>1, <2>4 DEF Moves
<1> QED BY <1>3, <1>5, <1>6

LEMMA RemoveFactorsMoves ==
    ASSUME Inv, NEW r \in Requests, RemoveFactors(r)
    PROVE  call' \in [Requests -> Call] /\ Alone(r) /\ Moves(r)
<1>1. call \in [Requests -> Call] /\ AtHome(call[r]) /\ call[r].at = "unfactor"
  BY CallIs DEF RemoveFactors
<1>2. call[r].op = "click" /\ call[r].path = "known"
  BY <1>1 DEF AtHome, Ending, Rollback
<1>3. \/ Goto(r, "refused")
      \/ call[r].u \notin factored' /\ Goto(r, "mark")
  BY <1>1, <1>2, NextPoint DEF RemoveFactors, May, Signups
<1>5. CASE Goto(r, "refused")
  BY <1>1, <1>2, <1>5, RefuseMoves DEF Signups
<1>6. CASE call[r].u \notin factored' /\ Goto(r, "mark")
  <2>1. call' \in [Requests -> Call] /\ Alone(r) /\ Like(call[r], call'[r], "mark")
    BY <1>1, <1>6, GotoIs, PointsAre
  <2>2. AtHome(call'[r])
    BY <1>1, <1>2, <1>6, <2>1 DEF AtHome, Like, Ending, Rollback, Signups
  <2>3. OnAsBefore(call[r], call'[r])
    BY <1>1, <1>2, <1>6, <2>1, <2>2 DEF OnAsBefore, Like, HasUser, Unknown, HasSession, Signups
  <2>4. Walks(r)
    BY <1>1, <1>2, <1>6, <2>1, <2>3 DEF Walks, HandChecks, Like, Signups, SignIns, ClickChecks, WipeChecks, FactorChecks
  <2> QED BY <2>1, <2>4 DEF Moves
<1> QED BY <1>3, <1>5, <1>6

LEMMA CreateCodeMoves ==
    ASSUME Inv, NEW r \in Requests, CreateCode(r)
    PROVE  call' \in [Requests -> Call] /\ Alone(r) /\ Moves(r)
<1>1. call \in [Requests -> Call] /\ AtHome(call[r]) /\ call[r].at = "code"
  BY CallIs DEF CreateCode
<1>2. call[r].op = "click" /\ call[r].path = "none"
  BY <1>1 DEF AtHome, Ending, Rollback
<1>3. \/ Goto(r, "revoke")
      \/ Goto(r, "ok")
  BY <1>1, <1>2, NextPoint DEF CreateCode, May, Signups
<1>5. CASE Goto(r, "revoke")
  <2>1. call' \in [Requests -> Call] /\ Alone(r) /\ Like(call[r], call'[r], "revoke")
    BY <1>1, <1>5, GotoIs, PointsAre
  <2>2. AtHome(call'[r])
    BY <1>1, <1>2, <1>5, <2>1 DEF AtHome, Like, Ending, Rollback, Signups
  <2>3. OnAsBefore(call[r], call'[r])
    BY <1>1, <1>2, <1>5, <2>1, <2>2 DEF OnAsBefore, Like, HasUser, Unknown, HasSession, Signups
  <2>4. Walks(r)
    BY <1>1, <1>2, <1>5, <2>1, <2>3 DEF Walks, HandChecks, Like, Signups, SignIns, ClickChecks, FactorChecks
  <2> QED BY <2>1, <2>4 DEF Moves
<1>6. CASE Goto(r, "ok")
  <2>1. call' \in [Requests -> Call] /\ Alone(r) /\ Like(call[r], call'[r], "ok")
    BY <1>1, <1>6, GotoIs, PointsAre
  <2>2. AtHome(call'[r])
    BY <1>1, <1>2, <1>6, <2>1 DEF AtHome, Like, Ending, Rollback, Signups
  <2>3. OnAsBefore(call[r], call'[r])
    BY <1>1, <1>2, <1>6, <2>1, <2>2 DEF OnAsBefore, Like, HasUser, Unknown, HasSession, Signups
  <2>4. Walks(r)
    BY <1>1, <1>2, <1>6, <2>1, <2>3 DEF Walks, HandChecks, Like, Signups, SignIns, ClickChecks, FactorChecks
  <2> QED BY <2>1, <2>4 DEF Moves
<1> QED BY <1>3, <1>5, <1>6

LEMMA CheckStatusMoves ==
    ASSUME Inv, NEW r \in Requests, CheckStatus(r)
    PROVE  call' \in [Requests -> Call] /\ Alone(r) /\ Moves(r)
<1>1. call \in [Requests -> Call] /\ AtHome(call[r]) /\ call[r].at = "status"
  BY CallIs DEF CheckStatus
<1>2. call[r].op = "exchange" /\ call[r].path = "none"
  BY <1>1 DEF AtHome, Ending, Rollback
<1>3. \/ Goto(r, "revoke")
      \/ Goto(r, "ok")
  BY <1>1, <1>2, NextPoint DEF CheckStatus, May, Signups
<1>5. CASE Goto(r, "revoke")
  <2>1. call' \in [Requests -> Call] /\ Alone(r) /\ Like(call[r], call'[r], "revoke")
    BY <1>1, <1>5, GotoIs, PointsAre
  <2>2. AtHome(call'[r])
    BY <1>1, <1>2, <1>5, <2>1 DEF AtHome, Like, Ending, Rollback, Signups
  <2>3. OnAsBefore(call[r], call'[r])
    BY <1>1, <1>2, <1>5, <2>1, <2>2 DEF OnAsBefore, Like, HasUser, Unknown, HasSession, Signups
  <2>4. Walks(r)
    BY <1>1, <1>2, <1>5, <2>1, <2>3 DEF Walks, HandChecks, Like, Signups, SignIns
  <2> QED BY <2>1, <2>4 DEF Moves
<1>6. CASE Goto(r, "ok")
  <2>1. call' \in [Requests -> Call] /\ Alone(r) /\ Like(call[r], call'[r], "ok")
    BY <1>1, <1>6, GotoIs, PointsAre
  <2>2. AtHome(call'[r])
    BY <1>1, <1>2, <1>6, <2>1 DEF AtHome, Like, Ending, Rollback, Signups
  <2>3. OnAsBefore(call[r], call'[r])
    BY <1>1, <1>2, <1>6, <2>1, <2>2 DEF OnAsBefore, Like, HasUser, Unknown, HasSession, Signups
  <2>4. Walks(r)
    BY <1>1, <1>2, <1>6, <2>1, <2>3 DEF Walks, HandChecks, Like, Signups, SignIns
  <2> QED BY <2>1, <2>4 DEF Moves
<1> QED BY <1>3, <1>5, <1>6

LEMMA ConsumeStateMoves ==
    ASSUME Inv, NEW r \in Requests, ConsumeState(r)
    PROVE  call' \in [Requests -> Call] /\ Alone(r) /\ Moves(r)
<1>1. call \in [Requests -> Call] /\ AtHome(call[r]) /\ call[r].at = "state"
  BY CallIs DEF ConsumeState
<1>2. call[r].op = "oauth" /\ call[r].path = "none"
  BY <1>1 DEF AtHome, Ending, Rollback
<1>3. \/ Goto(r, "refused")
      \/ Goto(r, "identify")
  BY <1>1, <1>2, NextPoint DEF ConsumeState, May, Signups
<1>5. CASE Goto(r, "refused")
  BY <1>1, <1>2, <1>5, RefuseMoves DEF Signups
<1>6. CASE Goto(r, "identify")
  <2>1. call' \in [Requests -> Call] /\ Alone(r) /\ Like(call[r], call'[r], "identify")
    BY <1>1, <1>6, GotoIs, PointsAre
  <2>2. AtHome(call'[r])
    BY <1>1, <1>2, <1>6, <2>1 DEF AtHome, Like, Ending, Rollback, Signups
  <2>3. OnAsBefore(call[r], call'[r])
    BY <1>1, <1>2, <1>6, <2>1, <2>2 DEF OnAsBefore, Like, HasUser, Unknown, HasSession, Signups
  <2>4. Walks(r)
    BY <1>1, <1>2, <1>6, <2>1, <2>3 DEF Walks, HandChecks, Like, Signups, SignIns, OAuthChecks, Linking, FactorChecks
  <2> QED BY <2>1, <2>4 DEF Moves
<1> QED BY <1>3, <1>5, <1>6

LEMMA InsertLinkMoves ==
    ASSUME Inv, NEW r \in Requests, InsertLink(r)
    PROVE  call' \in [Requests -> Call] /\ Alone(r) /\ Moves(r)
<1>1. call \in [Requests -> Call] /\ AtHome(call[r]) /\ call[r].at = "link"
  BY CallIs DEF InsertLink
<1>2. \/ call[r].op = "oauth" /\ call[r].path = "matched"
      \/ call[r].op = "oauth" /\ call[r].path = "fresh"
  BY <1>1 DEF AtHome, Ending, Rollback
<1>3. \/ Goto(r, "refused")
      \/ linked'[call[r].who] = call[r].u /\ call[r].path = "matched" /\ Goto(r, "look")
      \/ linked'[call[r].who] = call[r].u /\ call[r].path = "fresh" /\ Goto(r, "greet")
  <2>1. call[r].who \in Identities
    BY <1>1, <1>2, CallIs DEF Flowing
  <2> QED BY <1>1, <1>2, <2>1, NextPoint DEF InsertLink, Inv, TypeOK, OAuthTypeOK
<1>5. CASE Goto(r, "refused")
  BY <1>1, <1>2, <1>5, RefuseMoves DEF Signups
<1>6. CASE linked'[call[r].who] = call[r].u /\ call[r].path = "matched" /\ Goto(r, "look")
  <2>1. call' \in [Requests -> Call] /\ Alone(r) /\ Like(call[r], call'[r], "look")
    BY <1>1, <1>6, GotoIs, PointsAre
  <2>2. AtHome(call'[r])
    BY <1>1, <1>2, <1>6, <2>1 DEF AtHome, Like, Ending, Rollback, Signups
  <2>3. OnAsBefore(call[r], call'[r])
    BY <1>1, <1>2, <1>6, <2>1, <2>2 DEF OnAsBefore, Like, HasUser, Unknown, HasSession, Signups
  <2>4. Walks(r)
    BY <1>1, <1>2, <1>6, <2>1, <2>3 DEF Walks, HandChecks, Like, Signups, SignIns, OAuthChecks, Linking, FactorChecks
  <2> QED BY <2>1, <2>4 DEF Moves
<1>7. CASE linked'[call[r].who] = call[r].u /\ call[r].path = "fresh" /\ Goto(r, "greet")
  <2>1. call' \in [Requests -> Call] /\ Alone(r) /\ Like(call[r], call'[r], "greet")
    BY <1>1, <1>7, GotoIs, PointsAre
  <2>2. AtHome(call'[r])
    BY <1>1, <1>2, <1>7, <2>1 DEF AtHome, Like, Ending, Rollback, Signups
  <2>3. OnAsBefore(call[r], call'[r])
    BY <1>1, <1>2, <1>7, <2>1, <2>2 DEF OnAsBefore, Like, HasUser, Unknown, HasSession, Signups
  <2>4. Walks(r)
    BY <1>1, <1>2, <1>7, <2>1, <2>3 DEF Walks, HandChecks, Like, Signups, SignIns, OAuthChecks, Linking, FactorChecks
  <2> QED BY <2>1, <2>4 DEF Moves
<1> QED BY <1>3, <1>5, <1>6, <1>7

LEMMA LookMoves ==
    ASSUME Inv, NEW r \in Requests, Look(r)
    PROVE  call' \in [Requests -> Call] /\ Alone(r) /\ Moves(r)
<1>1. call \in [Requests -> Call] /\ AtHome(call[r]) /\ call[r].at = "look"
  BY CallIs DEF Look
<1>2. call[r].op = "oauth" /\ call[r].path = "matched"
  BY <1>1 DEF AtHome, Ending, Rollback
<1>3. \/ Goto(r, "profile")
      \/ Goto(r, "greet")
  BY <1>1, <1>2, NextPoint DEF Look, May, Signups
<1>5. CASE Goto(r, "profile")
  <2>1. call' \in [Requests -> Call] /\ Alone(r) /\ Like(call[r], call'[r], "profile")
    BY <1>1, <1>5, GotoIs, PointsAre
  <2>2. AtHome(call'[r])
    BY <1>1, <1>2, <1>5, <2>1 DEF AtHome, Like, Ending, Rollback, Signups
  <2>3. OnAsBefore(call[r], call'[r])
    BY <1>1, <1>2, <1>5, <2>1, <2>2 DEF OnAsBefore, Like, HasUser, Unknown, HasSession, Signups
  <2>4. Walks(r)
    BY <1>1, <1>2, <1>5, <2>1, <2>3 DEF Walks, HandChecks, Like, Signups, SignIns, OAuthChecks, Linking, FactorChecks
  <2> QED BY <2>1, <2>4 DEF Moves
<1>6. CASE Goto(r, "greet")
  <2>1. call' \in [Requests -> Call] /\ Alone(r) /\ Like(call[r], call'[r], "greet")
    BY <1>1, <1>6, GotoIs, PointsAre
  <2>2. AtHome(call'[r])
    BY <1>1, <1>2, <1>6, <2>1 DEF AtHome, Like, Ending, Rollback, Signups
  <2>3. OnAsBefore(call[r], call'[r])
    BY <1>1, <1>2, <1>6, <2>1, <2>2 DEF OnAsBefore, Like, HasUser, Unknown, HasSession, Signups
  <2>4. Walks(r)
    BY <1>1, <1>2, <1>6, <2>1, <2>3 DEF Walks, HandChecks, Like, Signups, SignIns, OAuthChecks, Linking, FactorChecks
  <2> QED BY <2>1, <2>4 DEF Moves
<1> QED BY <1>3, <1>5, <1>6

LEMMA GreetMoves ==
    ASSUME Inv, NEW r \in Requests, Greet(r)
    PROVE  call' \in [Requests -> Call] /\ Alone(r) /\ Moves(r)
<1>1. call \in [Requests -> Call] /\ AtHome(call[r]) /\ call[r].at = "greet"
  BY CallIs DEF Greet
<1>2. \/ call[r].op = "oauth" /\ call[r].path = "returning"
      \/ call[r].op = "oauth" /\ call[r].path = "matched"
      \/ call[r].op = "oauth" /\ call[r].path = "fresh"
  BY <1>1 DEF AtHome, Ending, Rollback
<1>3. \/ Goto(r, "refused")
      \/ call[r].path = "matched" /\ Goto(r, "mark")
      \/ call[r].path # "matched" /\ Goto(r, "locked")
  BY <1>1, <1>2, NextPoint DEF Greet, May, Signups
<1>5. CASE Goto(r, "refused")
  BY <1>1, <1>2, <1>5, RefuseMoves DEF Signups
<1>6. CASE call[r].path = "matched" /\ Goto(r, "mark")
  <2>1. call' \in [Requests -> Call] /\ Alone(r) /\ Like(call[r], call'[r], "mark")
    BY <1>1, <1>6, GotoIs, PointsAre
  <2>2. AtHome(call'[r])
    BY <1>1, <1>2, <1>6, <2>1 DEF AtHome, Like, Ending, Rollback, Signups
  <2>3. OnAsBefore(call[r], call'[r])
    BY <1>1, <1>2, <1>6, <2>1, <2>2 DEF OnAsBefore, Like, HasUser, Unknown, HasSession, Signups
  <2>4. Walks(r)
    BY <1>1, <1>2, <1>6, <2>1, <2>3 DEF Walks, HandChecks, Like, Signups, SignIns, OAuthChecks, Linking, FactorChecks
  <2> QED BY <2>1, <2>4 DEF Moves
<1>7. CASE call[r].path # "matched" /\ Goto(r, "locked")
  <2>1. call' \in [Requests -> Call] /\ Alone(r) /\ Like(call[r], call'[r], "locked")
    BY <1>1, <1>7, GotoIs, PointsAre
  <2>2. AtHome(call'[r])
    BY <1>1, <1>2, <1>7, <2>1 DEF AtHome, Like, Ending, Rollback, Signups
  <2>3. OnAsBefore(call[r], call'[r])
    BY <1>1, <1>2, <1>7, <2>1, <2>2 DEF OnAsBefore, Like, HasUser, Unknown, HasSession, Signups
  <2>4. Walks(r)
    BY <1>1, <1>2, <1>7, <2>1, <2>3 DEF Walks, HandChecks, Like, Signups, SignIns, OAuthChecks, Linking, FactorChecks
  <2> QED BY <2>1, <2>4 DEF Moves
<1> QED BY <1>3, <1>5, <1>6, <1>7

LEMMA CheckLockedMoves ==
    ASSUME Inv, NEW r \in Requests, CheckLocked(r)
    PROVE  call' \in [Requests -> Call] /\ Alone(r) /\ Moves(r)
<1>1. call \in [Requests -> Call] /\ AtHome(call[r]) /\ call[r].at = "locked"
  BY CallIs DEF CheckLocked
<1>2. \/ call[r].op = "oauth" /\ call[r].path = "returning"
      \/ call[r].op = "oauth" /\ call[r].path = "matched"
      \/ call[r].op = "oauth" /\ call[r].path = "fresh"
  BY <1>1 DEF AtHome, Ending, Rollback
<1>3. \/ Goto(r, "refused")
      \/ /\ Never("status") => ~(user'[call[r].u].state = "row" /\ user'[call[r].u].status = "locked")
         /\ Goto(r, "session")
  <2>1. call[r].u # NoUser
    BY <1>1, CallIs, NullAssumption DEF Flowing, HasUser, Unknown
  <2> QED BY <1>1, <2>1, NextPoint DEF CheckLocked, May, Never, Exists, rows
<1>5. CASE Goto(r, "refused")
  BY <1>1, <1>2, <1>5, RefuseMoves DEF Signups
<1>6. CASE /\ Never("status") => ~(user'[call[r].u].state = "row" /\ user'[call[r].u].status = "locked")
          /\ Goto(r, "session")
  <2>1. call' \in [Requests -> Call] /\ Alone(r) /\ Like(call[r], call'[r], "session")
    BY <1>1, <1>6, GotoIs, PointsAre
  <2>2. AtHome(call'[r])
    BY <1>1, <1>2, <1>6, <2>1 DEF AtHome, Like, Ending, Rollback, Signups
  <2>3. OnAsBefore(call[r], call'[r])
    BY <1>1, <1>2, <1>6, <2>1, <2>2 DEF OnAsBefore, Like, HasUser, Unknown, HasSession, Signups
  <2>4. Walks(r)
    BY <1>1, <1>2, <1>6, <2>1, <2>3 DEF Walks, HandChecks, Like, Signups, SignIns, OAuthChecks, Linking, FactorChecks
  <2> QED BY <2>1, <2>4 DEF Moves
<1> QED BY <1>3, <1>5, <1>6

LEMMA CompleteTenancyMoves ==
    ASSUME Inv, NEW r \in Requests, CompleteTenancy(r)
    PROVE  call' \in [Requests -> Call] /\ Alone(r) /\ Moves(r)
<1>1. call \in [Requests -> Call] /\ AtHome(call[r]) /\ call[r].at = "tenancy"
  BY CallIs DEF CompleteTenancy
<1>2. call[r].op = "oauth" /\ call[r].path = "fresh"
  BY <1>1 DEF AtHome, Ending, Rollback
<1>3. \/ Goto(r, "refused")
      \/ Goto(r, "ok")
  BY <1>1, <1>2, NextPoint DEF CompleteTenancy, May, Signups
<1>5. CASE Goto(r, "refused")
  BY <1>1, <1>2, <1>5, RefuseMoves DEF Signups
<1>6. CASE Goto(r, "ok")
  <2>1. call' \in [Requests -> Call] /\ Alone(r) /\ Like(call[r], call'[r], "ok")
    BY <1>1, <1>6, GotoIs, PointsAre
  <2>2. AtHome(call'[r])
    BY <1>1, <1>2, <1>6, <2>1 DEF AtHome, Like, Ending, Rollback, Signups
  <2>3. OnAsBefore(call[r], call'[r])
    BY <1>1, <1>2, <1>6, <2>1, <2>2 DEF OnAsBefore, Like, HasUser, Unknown, HasSession, Signups
  <2>4. Walks(r)
    BY <1>1, <1>2, <1>6, <2>1, <2>3 DEF Walks, HandChecks, Like, Signups, SignIns, OAuthChecks, Linking, FactorChecks
  <2> QED BY <2>1, <2>4 DEF Moves
<1> QED BY <1>3, <1>5, <1>6

LEMMA ValidateMoves ==
    ASSUME Inv, NEW r \in Requests, Validate(r)
    PROVE  call' \in [Requests -> Call] /\ Alone(r) /\ Moves(r)
<1>1. call \in [Requests -> Call] /\ AtHome(call[r]) /\ call[r].at = "validate"
  BY CallIs DEF Validate
<1>2. call[r].op = "redeem" /\ call[r].path = "redeem"
  BY <1>1 DEF AtHome, Ending, Rollback
<1>3. \/ Goto(r, "refused")
      \/ Goto(r, "taken")
  BY <1>1, <1>2, NextPoint DEF Validate, May, Signups
<1>4. call[r].u = NoUser
  BY <1>1, CallIs DEF Flowing, HasUser, Unknown
<1>5. CASE Goto(r, "refused")
  BY <1>1, <1>2, <1>5, <1>4, RefuseMoves DEF Signups
<1>6. CASE Goto(r, "taken")
  <2>1. call' \in [Requests -> Call] /\ Alone(r) /\ Like(call[r], call'[r], "taken")
    BY <1>1, <1>6, GotoIs, PointsAre
  <2>2. AtHome(call'[r])
    BY <1>1, <1>2, <1>6, <2>1 DEF AtHome, Like, Ending, Rollback, Signups
  <2>3. OnAsBefore(call[r], call'[r])
    BY <1>1, <1>2, <1>6, <2>1, <2>2 DEF OnAsBefore, Like, HasUser, Unknown, HasSession, Signups
  <2>4. Walks(r)
    BY <1>1, <1>2, <1>6, <2>1, <2>3, <1>4 DEF Walks, HandChecks, Like, Signups, SignIns, SignupChecks
  <2> QED BY <2>1, <2>4 DEF Moves
<1> QED BY <1>3, <1>5, <1>6

LEMMA AssignRoleMoves ==
    ASSUME Inv, NEW r \in Requests, AssignRole(r)
    PROVE  call' \in [Requests -> Call] /\ Alone(r) /\ Moves(r)
<1>1. call \in [Requests -> Call] /\ AtHome(call[r]) /\ call[r].at = "role"
  BY CallIs DEF AssignRole
<1>2. call[r].op = "redeem" /\ call[r].path = "redeem"
  BY <1>1 DEF AtHome, Ending, Rollback
<1>3. \/ Goto(r, "lateCredential")
      \/ Goto(r, "redeem")
  BY <1>1, <1>2, NextPoint DEF AssignRole, May, Signups
<1>5. CASE Goto(r, "lateCredential")
  <2>1. call' \in [Requests -> Call] /\ Alone(r) /\ Like(call[r], call'[r], "lateCredential")
    BY <1>1, <1>5, GotoIs, PointsAre
  <2>2. AtHome(call'[r])
    BY <1>1, <1>2, <1>5, <2>1 DEF AtHome, Like, Ending, Rollback, Signups
  <2>3. OnAsBefore(call[r], call'[r])
    BY <1>1, <1>2, <1>5, <2>1, <2>2 DEF OnAsBefore, Like, HasUser, Unknown, HasSession, Signups
  <2>4. Walks(r)
    BY <1>1, <1>2, <1>5, <2>1, <2>3 DEF Walks, HandChecks, Like, Signups, SignIns, SignupChecks
  <2> QED BY <2>1, <2>4 DEF Moves
<1>6. CASE Goto(r, "redeem")
  <2>1. call' \in [Requests -> Call] /\ Alone(r) /\ Like(call[r], call'[r], "redeem")
    BY <1>1, <1>6, GotoIs, PointsAre
  <2>2. AtHome(call'[r])
    BY <1>1, <1>2, <1>6, <2>1 DEF AtHome, Like, Ending, Rollback, Signups
  <2>3. OnAsBefore(call[r], call'[r])
    BY <1>1, <1>2, <1>6, <2>1, <2>2 DEF OnAsBefore, Like, HasUser, Unknown, HasSession, Signups
  <2>4. Walks(r)
    BY <1>1, <1>2, <1>6, <2>1, <2>3 DEF Walks, HandChecks, Like, Signups, SignIns, SignupChecks
  <2> QED BY <2>1, <2>4 DEF Moves
<1> QED BY <1>3, <1>5, <1>6

LEMMA MarkRedeemedMoves ==
    ASSUME Inv, NEW r \in Requests, MarkRedeemed(r)
    PROVE  call' \in [Requests -> Call] /\ Alone(r) /\ Moves(r)
<1>1. call \in [Requests -> Call] /\ AtHome(call[r]) /\ call[r].at = "redeem"
  BY CallIs DEF MarkRedeemed
<1>2. call[r].op = "redeem" /\ call[r].path = "redeem"
  BY <1>1 DEF AtHome, Ending, Rollback
<1>3. \/ Goto(r, "lateCredential")
      \/ Goto(r, "answer")
  BY <1>1, <1>2, NextPoint DEF MarkRedeemed, May, Signups
<1>5. CASE Goto(r, "lateCredential")
  <2>1. call' \in [Requests -> Call] /\ Alone(r) /\ Like(call[r], call'[r], "lateCredential")
    BY <1>1, <1>5, GotoIs, PointsAre
  <2>2. AtHome(call'[r])
    BY <1>1, <1>2, <1>5, <2>1 DEF AtHome, Like, Ending, Rollback, Signups
  <2>3. OnAsBefore(call[r], call'[r])
    BY <1>1, <1>2, <1>5, <2>1, <2>2 DEF OnAsBefore, Like, HasUser, Unknown, HasSession, Signups
  <2>4. Walks(r)
    BY <1>1, <1>2, <1>5, <2>1, <2>3 DEF Walks, HandChecks, Like, Signups, SignIns, SignupChecks
  <2> QED BY <2>1, <2>4 DEF Moves
<1>6. CASE Goto(r, "answer")
  <2>1. call' \in [Requests -> Call] /\ Alone(r) /\ Like(call[r], call'[r], "answer")
    BY <1>1, <1>6, GotoIs, PointsAre
  <2>2. AtHome(call'[r])
    BY <1>1, <1>2, <1>6, <2>1 DEF AtHome, Like, Ending, Rollback, Signups
  <2>3. OnAsBefore(call[r], call'[r])
    BY <1>1, <1>2, <1>6, <2>1, <2>2 DEF OnAsBefore, Like, HasUser, Unknown, HasSession, Signups
  <2>4. Walks(r)
    BY <1>1, <1>2, <1>6, <2>1, <2>3 DEF Walks, HandChecks, Like, Signups, SignIns, SignupChecks
  <2> QED BY <2>1, <2>4 DEF Moves
<1> QED BY <1>3, <1>5, <1>6

LEMMA AnswerMoves ==
    ASSUME Inv, NEW r \in Requests, Answer(r)
    PROVE  call' \in [Requests -> Call] /\ Alone(r) /\ Moves(r)
<1>1. call \in [Requests -> Call] /\ AtHome(call[r]) /\ call[r].at = "answer"
  BY CallIs DEF Answer
<1>2. call[r].op = "redeem" /\ call[r].path = "redeem"
  BY <1>1 DEF AtHome, Ending, Rollback
<1>3. Goto(r, "ok")
  BY <1>1, <1>2, NextPoint DEF Answer, May, Signups
<1>5. CASE Goto(r, "ok")
  <2>1. call' \in [Requests -> Call] /\ Alone(r) /\ Like(call[r], call'[r], "ok")
    BY <1>1, <1>5, GotoIs, PointsAre
  <2>2. AtHome(call'[r])
    BY <1>1, <1>2, <1>5, <2>1 DEF AtHome, Like, Ending, Rollback, Signups
  <2>3. OnAsBefore(call[r], call'[r])
    BY <1>1, <1>2, <1>5, <2>1, <2>2 DEF OnAsBefore, Like, HasUser, Unknown, HasSession, Signups
  <2>4. Walks(r)
    BY <1>1, <1>2, <1>5, <2>1, <2>3 DEF Walks, HandChecks, Like, Signups, SignIns, SignupChecks
  <2> QED BY <2>1, <2>4 DEF Moves
<1> QED BY <1>3, <1>5

\* Arrivals, and what every arrival starts from.
LEMMA IdleFields ==
    /\ Idle.at = "idle" /\ Idle.op = "none" /\ Idle.path = "none" /\ Idle.token = NoToken
    /\ Idle.who = NoIdentity /\ Idle.u = NoUser /\ Idle.s = NoSession
BY DEF Idle

LEMMA SignupMoves ==
    ASSUME Inv, NEW r \in Requests, NEW a \in config.addresses, Signup(r, a)
    PROVE  call' \in [Requests -> Call] /\ Alone(r) /\ Moves(r)
<1> DEFINE c1 == [Idle EXCEPT !.at = "taken"]
           c2 == [c1 EXCEPT !.op = "signup"]
           c3 == [c2 EXCEPT !.path = "signup"]
           c4 == [c3 EXCEPT !.email = a]
<1>1. call \in [Requests -> Call] /\ call[r].at = "idle"
  BY CallIs DEF Signup, Arrives
<1>2. a \in Addresses
  BY ConfigAssumption DEF Inv, TypeOK, AccountsTypeOK, Config
<1>3. Become(r, c4)
  BY Zenon DEF Signup
<1>4. c1 \in Call
  BY <1>2, IdleIsCall, PointsAre DEF Call
<1> HIDE DEF c1
<1>5. c2 \in Call
  BY <1>2, <1>4 DEF Call
<1> HIDE DEF c2
<1>6. c3 \in Call
  BY <1>2, <1>5 DEF Call, Routes
<1> HIDE DEF c3
<1>7. c4 \in Call
  BY <1>2, <1>6 DEF Call
<1> HIDE DEF c4
<1>8. /\ c4.at = "taken" /\ c4.op = "signup" /\ c4.path = "signup"
      /\ c4.token = NoToken /\ c4.u = NoUser
  BY IdleFields DEF c1, c2, c3, c4
<1>9. call' \in [Requests -> Call] /\ Alone(r) /\ call'[r] = c4
  BY <1>1, <1>3, <1>7, <1>8, BecomeIs
<1>10. AtHome(c4) /\ NoToken \in TokensOf("signup")
  BY <1>2, <1>8 DEF AtHome, TokensOf
<1> QED BY <1>1, <1>8, <1>9, <1>10 DEF Moves, Enters

LEMMA RedeemMoves ==
    ASSUME Inv, NEW r \in Requests, NEW i \in Invites, Redeem(r, i)
    PROVE  call' \in [Requests -> Call] /\ Alone(r) /\ Moves(r)
<1> DEFINE c1 == [Idle EXCEPT !.at = "validate"]
           c2 == [c1 EXCEPT !.op = "redeem"]
           c3 == [c2 EXCEPT !.path = "redeem"]
           c4 == [c3 EXCEPT !.token = i]
           c5 == [c4 EXCEPT !.email = invite[i].email]
<1>1. call \in [Requests -> Call] /\ call[r].at = "idle"
  BY CallIs DEF Redeem, Arrives
<1>2. invite[i].email \in Addresses
  BY DEF Inv, TypeOK, InvitesTypeOK, Invite
<1>3. Become(r, c5)
  BY Zenon DEF Redeem
<1>4. c1 \in Call
  BY <1>2, IdleIsCall, PointsAre DEF Call
<1> HIDE DEF c1
<1>5. c2 \in Call
  BY <1>2, <1>4 DEF Call
<1> HIDE DEF c2
<1>6. c3 \in Call
  BY <1>2, <1>5 DEF Call, Routes
<1> HIDE DEF c3
<1>7. c4 \in Call
  BY <1>2, <1>6, TokenAssumption DEF Call
<1> HIDE DEF c4
<1>8. c5 \in Call
  BY <1>2, <1>7 DEF Call
<1> HIDE DEF c5
<1>9. /\ c5.at = "validate" /\ c5.op = "redeem" /\ c5.path = "redeem"
      /\ c5.token = i /\ c5.u = NoUser
  BY IdleFields DEF c1, c2, c3, c4, c5
<1>10. call' \in [Requests -> Call] /\ Alone(r) /\ call'[r] = c5
  BY <1>1, <1>3, <1>8, <1>9, BecomeIs
<1>11. AtHome(c5) /\ i \in TokensOf("redeem")
  BY <1>2, <1>9 DEF AtHome, TokensOf
<1> QED BY <1>1, <1>9, <1>10, <1>11 DEF Moves, Enters

LEMMA ClickMoves ==
    ASSUME Inv, NEW r \in Requests, NEW l \in Links, Click(r, l)
    PROVE  call' \in [Requests -> Call] /\ Alone(r) /\ Moves(r)
<1> DEFINE c1 == [Idle EXCEPT !.at = "consume"]
           c2 == [c1 EXCEPT !.op = "click"]
           c3 == [c2 EXCEPT !.token = l]
           c4 == [c3 EXCEPT !.email = link[l].email]
<1>1. call \in [Requests -> Call] /\ call[r].at = "idle"
  BY CallIs DEF Click, Arrives
<1>2. link[l].email \in Addresses
  BY DEF Inv, TypeOK, LinksTypeOK, Link
<1>3. Become(r, c4)
  BY Zenon DEF Click
<1>4. c1 \in Call
  BY <1>2, IdleIsCall, PointsAre DEF Call
<1> HIDE DEF c1
<1>5. c2 \in Call
  BY <1>2, <1>4 DEF Call
<1> HIDE DEF c2
<1>6. c3 \in Call
  BY <1>2, <1>5, TokenAssumption DEF Call
<1> HIDE DEF c3
<1>7. c4 \in Call
  BY <1>2, <1>6 DEF Call
<1> HIDE DEF c4
<1>8. /\ c4.at = "consume" /\ c4.op = "click" /\ c4.path = "none"
      /\ c4.token = l /\ c4.u = NoUser
  BY IdleFields DEF c1, c2, c3, c4
<1>9. call' \in [Requests -> Call] /\ Alone(r) /\ call'[r] = c4
  BY <1>1, <1>3, <1>7, <1>8, BecomeIs
<1>10. AtHome(c4) /\ l \in TokensOf("click")
  BY <1>2, <1>8 DEF AtHome, TokensOf
<1> QED BY <1>1, <1>8, <1>9, <1>10 DEF Moves, Enters

LEMMA ExchangeMoves ==
    ASSUME Inv, NEW r \in Requests, NEW k \in Codes, Exchange(r, k)
    PROVE  call' \in [Requests -> Call] /\ Alone(r) /\ Moves(r)
<1> DEFINE c1 == [Idle EXCEPT !.at = "burn"]
           c2 == [c1 EXCEPT !.op = "exchange"]
           c3 == [c2 EXCEPT !.token = k]
<1>1. call \in [Requests -> Call] /\ call[r].at = "idle"
  BY CallIs DEF Exchange, Arrives
<1>2. k \in Tokens
  BY TokenAssumption
<1>3. Become(r, c3)
  BY Zenon DEF Exchange
<1>4. c1 \in Call
  BY <1>2, IdleIsCall, PointsAre DEF Call
<1> HIDE DEF c1
<1>5. c2 \in Call
  BY <1>2, <1>4 DEF Call
<1> HIDE DEF c2
<1>6. c3 \in Call
  BY <1>2, <1>5, TokenAssumption DEF Call
<1> HIDE DEF c3
<1>7. /\ c3.at = "burn" /\ c3.op = "exchange" /\ c3.path = "none"
      /\ c3.token = k /\ c3.u = NoUser
  BY IdleFields DEF c1, c2, c3
<1>8. call' \in [Requests -> Call] /\ Alone(r) /\ call'[r] = c3
  BY <1>1, <1>3, <1>6, <1>7, BecomeIs
<1>9. AtHome(c3) /\ k \in TokensOf("exchange")
  BY <1>2, <1>7 DEF AtHome, TokensOf
<1> QED BY <1>1, <1>7, <1>8, <1>9 DEF Moves, Enters

LEMMA CallbackMoves ==
    ASSUME Inv, NEW r \in Requests, NEW t \in States, Callback(r, t)
    PROVE  call' \in [Requests -> Call] /\ Alone(r) /\ Moves(r)
<1> DEFINE c1 == [Idle EXCEPT !.at = "state"]
           c2 == [c1 EXCEPT !.op = "oauth"]
           c3 == [c2 EXCEPT !.token = t]
<1>1. call \in [Requests -> Call] /\ call[r].at = "idle"
  BY CallIs DEF Callback, Arrives
<1>2. t \in Tokens
  BY TokenAssumption
<1>3. Become(r, c3)
  BY Zenon DEF Callback
<1>4. c1 \in Call
  BY <1>2, IdleIsCall, PointsAre DEF Call
<1> HIDE DEF c1
<1>5. c2 \in Call
  BY <1>2, <1>4 DEF Call
<1> HIDE DEF c2
<1>6. c3 \in Call
  BY <1>2, <1>5, TokenAssumption DEF Call
<1> HIDE DEF c3
<1>7. /\ c3.at = "state" /\ c3.op = "oauth" /\ c3.path = "none"
      /\ c3.token = t /\ c3.u = NoUser
  BY IdleFields DEF c1, c2, c3
<1>8. call' \in [Requests -> Call] /\ Alone(r) /\ call'[r] = c3
  BY <1>1, <1>3, <1>6, <1>7, BecomeIs
<1>9. AtHome(c3) /\ t \in TokensOf("oauth")
  BY <1>2, <1>7 DEF AtHome, TokensOf
<1> QED BY <1>1, <1>7, <1>8, <1>9 DEF Moves, Enters

LEMMA LeaveMoves ==
    ASSUME Inv, NEW r \in Requests, Leave(r)
    PROVE  call' \in [Requests -> Call] /\ Alone(r) /\ Moves(r)
<1>1. call \in [Requests -> Call] /\ Become(r, Idle)
  BY CallIs DEF Leave
<1>2. call' \in [Requests -> Call] /\ Alone(r) /\ call'[r] = Idle
  BY <1>1, IdleIsCall, IdleFields, BecomeIs
<1> QED BY <1>2, IdleFields DEF Moves, Leaves

LEMMA InsertUserMoves ==
    ASSUME Inv, NEW r \in Requests, InsertUser(r)
    PROVE  call' \in [Requests -> Call] /\ Alone(r) /\ Moves(r)
<1>1. call \in [Requests -> Call] /\ AtHome(call[r]) /\ call[r].at = "insert"
  BY CallIs DEF InsertUser
<1>2. \/ call[r].op = "signup" /\ call[r].path = "signup"
      \/ call[r].op = "redeem" /\ call[r].path = "redeem"
      \/ call[r].op = "click" /\ call[r].path = "newcomer"
      \/ call[r].op = "oauth" /\ call[r].path = "fresh"
  BY <1>1 DEF AtHome, Ending, Rollback
<1>3. call[r].u = NoUser
  BY <1>1, CallIs DEF Flowing, HasUser, Unknown
<1>4. Then(call[r]) \in Points /\ Then(call[r]) \in {"credential", "profile", "mark"}
  BY <1>1, <1>2, NextPoint, PointsAre DEF Signups
<1>5. call[r] \in Call
  BY <1>1
<1>6. CASE Goto(r, "refused")
  BY <1>1, <1>3, <1>6, RefuseMoves
<1>7. CASE call[r].op = "click" /\ Goto(r, "again")
  <2>1. call' \in [Requests -> Call] /\ Alone(r) /\ Like(call[r], call'[r], "again")
    BY <1>1, <1>7, GotoIs, PointsAre
  <2>2. AtHome(call'[r])
    BY <1>1, <1>2, <1>7, <2>1 DEF AtHome, Like
  <2>3. OnAsBefore(call[r], call'[r])
    BY <1>1, <1>2, <1>7, <2>1, <2>2 DEF OnAsBefore, Like, HasUser, Unknown, HasSession, Signups
  <2>4. Walks(r)
    BY <1>1, <1>2, <1>7, <2>1, <2>3 DEF Walks, HandChecks, Like, Signups, SignIns, ClickChecks, FactorChecks
  <2> QED BY <2>1, <2>4 DEF Moves
<1>8. ASSUME NEW u \in Users, user[u].state = "free",
             user' = [user EXCEPT ![u] = [@ EXCEPT !.state = "row", !.email = call[r].email]],
             Become(r, [call[r] EXCEPT !.u = u, !.at = Then(call[r])])
      PROVE  call' \in [Requests -> Call] /\ Alone(r) /\ Moves(r)
  <2>1. u \in Users /\ Become(r, [call[r] EXCEPT !.u = u, !.at = Then(call[r])])
    BY <1>8
  <2> DEFINE d1 == [call[r] EXCEPT !.u = u]
             d2 == [d1 EXCEPT !.at = Then(call[r])]
  <2>2. Become(r, d2)
    BY <2>1, Zenon
  <2>3. d1 \in Call
    BY <1>1, <1>4, <1>5, <2>1, PointsAre, NextPoint DEF Call
  <2> HIDE DEF d1
  <2>4. d2 \in Call
    BY <2>3, <1>1, <1>4, <1>5, <2>1, PointsAre, NextPoint DEF Call
  <2> HIDE DEF d2
  <2>5. /\ d2.at = Then(call[r]) /\ d2.op = call[r].op /\ d2.path = call[r].path
        /\ d2.email = call[r].email /\ d2.token = call[r].token /\ d2.who = call[r].who
        /\ d2.u = u /\ d2.s = call[r].s /\ d2.verified = call[r].verified
    BY <1>1, <1>4, <1>5, <2>1, PointsAre, NextPoint DEF d1, d2, Call
  <2>6. call' \in [Requests -> Call] /\ Alone(r) /\ call'[r] = d2
    BY <1>1, <2>2, <2>4, <2>5, <1>4, BecomeIs
  <2>7. Like([call[r] EXCEPT !.u = u], call'[r], call'[r].at)
    <3> DEFINE e == [call[r] EXCEPT !.u = u]
    <3>1. e \in Call /\ Like(e, d2, d2.at)
      BY <1>1, <1>5, <2>5 DEF Like, Call
    <3> QED BY <3>1, <2>5, <2>6
  <2>8. AtHome(d2) /\ (call[r].op = "oauth" => Linking(d2))
    BY <1>1, <1>2, <2>5, NextPoint DEF AtHome, Linking, Signups
  <2>9. /\ user'[u].state # "free" /\ user'[u].status = "active"
      /\ profile'[u] = "none" /\ u \notin staff' \cup password'
    BY <1>8, NullAssumption DEF InsertUser, Inv, Keyed, TypeOK, AccountsTypeOK, User, Exists
  <2>10. Mints(r)
    BY <1>1, <1>2, <1>4, <1>8, <2>5, <2>6, <2>7, <2>8, <2>9 DEF Mints
  <2> QED BY <2>6, <2>10 DEF Moves
<1> QED BY <1>6, <1>7, <1>8 DEF InsertUser

\* What a handler is after it has found or made something.
LEMMA OpenIs ==
    ASSUME call \in [Requests -> Call], NEW r \in Requests, NEW t \in SessionIds, NEW p \in {"onSignup", "second"},
           Become(r, [call[r] EXCEPT !.s = t, !.verified = FALSE, !.path = IF call[r].path \in Signups \cup {"fresh"} THEN call[r].path ELSE "none", !.at = p])
    PROVE  /\ call' \in [Requests -> Call] /\ Alone(r)
           /\ call'[r].at = p /\ call'[r].op = call[r].op /\ call'[r].path = IF call[r].path \in Signups \cup {"fresh"} THEN call[r].path ELSE "none"
           /\ call'[r].token = call[r].token /\ call'[r].who = call[r].who /\ call'[r].u = call[r].u /\ call'[r].s = t
<1>1. call \in [Requests -> Call] /\ call[r] \in Call
  OBVIOUS
<1> DEFINE d1 == [call[r] EXCEPT !.s = t]
           d2 == [d1 EXCEPT !.verified = FALSE]
           d3 == [d2 EXCEPT !.path = IF call[r].path \in Signups \cup {"fresh"} THEN call[r].path ELSE "none"]
           d4 == [d3 EXCEPT !.at = p]
<1>2. Become(r, d4)
  BY Zenon
<1>3. d1 \in Call
  BY <1>1, PointsAre DEF Call, Routes
<1> HIDE DEF d1
<1>4. d2 \in Call
  BY <1>3, <1>1, PointsAre DEF Call, Routes
<1> HIDE DEF d2
<1>5. d3 \in Call
  BY <1>4, <1>1, PointsAre DEF Call, Routes
<1> HIDE DEF d3
<1>6. d4 \in Call
  BY <1>5, <1>1, PointsAre DEF Call, Routes
<1> HIDE DEF d4
<1>7. /\ d4.at = p /\ d4.op = call[r].op /\ d4.path = IF call[r].path \in Signups \cup {"fresh"} THEN call[r].path ELSE "none"
      /\ d4.email = call[r].email /\ d4.token = call[r].token /\ d4.who = call[r].who
      /\ d4.u = call[r].u /\ d4.s = t /\ d4.verified = FALSE
  BY <1>1, PointsAre DEF d1, d2, d3, d4, Call
<1>8. call' \in [Requests -> Call] /\ Alone(r) /\ call'[r] = d4
  BY <1>1, <1>2, <1>6, <1>7, BecomeIs
<1> QED BY <1>7, <1>8

LEMMA IdentifyIs ==
    ASSUME call \in [Requests -> Call], NEW r \in Requests, NEW p \in Identities, NEW a \in Addresses,
           Become(r, [call[r] EXCEPT !.at = "lookup", !.who = p, !.email = a])
    PROVE  /\ call' \in [Requests -> Call] /\ Alone(r)
           /\ call'[r].at = "lookup" /\ call'[r].op = call[r].op /\ call'[r].path = call[r].path
           /\ call'[r].token = call[r].token /\ call'[r].who = p /\ call'[r].u = call[r].u /\ call'[r].s = call[r].s
<1>1. call \in [Requests -> Call] /\ call[r] \in Call
  OBVIOUS
<1> DEFINE d1 == [call[r] EXCEPT !.at = "lookup"]
           d2 == [d1 EXCEPT !.who = p]
           d3 == [d2 EXCEPT !.email = a]
<1>2. Become(r, d3)
  BY Zenon
<1>3. d1 \in Call
  BY <1>1, PointsAre DEF Call, Routes
<1> HIDE DEF d1
<1>4. d2 \in Call
  BY <1>3, <1>1, PointsAre DEF Call, Routes
<1> HIDE DEF d2
<1>5. d3 \in Call
  BY <1>4, <1>1, PointsAre DEF Call, Routes
<1> HIDE DEF d3
<1>6. /\ d3.at = "lookup" /\ d3.op = call[r].op /\ d3.path = call[r].path
      /\ d3.email = a /\ d3.token = call[r].token /\ d3.who = p
      /\ d3.u = call[r].u /\ d3.s = call[r].s /\ d3.verified = call[r].verified
  BY <1>1, PointsAre DEF d1, d2, d3, Call
<1>7. call' \in [Requests -> Call] /\ Alone(r) /\ call'[r] = d3
  BY <1>1, <1>2, <1>5, <1>6, BecomeIs
<1> QED BY <1>6, <1>7

LEMMA ReturnIs ==
    ASSUME call \in [Requests -> Call], NEW r \in Requests, NEW v \in Users,
           Become(r, [call[r] EXCEPT !.u = v, !.path = "returning", !.at = "mark"])
    PROVE  /\ call' \in [Requests -> Call] /\ Alone(r)
           /\ call'[r].at = "mark" /\ call'[r].op = call[r].op /\ call'[r].path = "returning"
           /\ call'[r].token = call[r].token /\ call'[r].who = call[r].who /\ call'[r].u = v /\ call'[r].s = call[r].s
<1>1. call \in [Requests -> Call] /\ call[r] \in Call
  OBVIOUS
<1> DEFINE d1 == [call[r] EXCEPT !.u = v]
           d2 == [d1 EXCEPT !.path = "returning"]
           d3 == [d2 EXCEPT !.at = "mark"]
<1>2. Become(r, d3)
  BY Zenon
<1>3. d1 \in Call
  BY <1>1, PointsAre DEF Call, Routes
<1> HIDE DEF d1
<1>4. d2 \in Call
  BY <1>3, <1>1, PointsAre DEF Call, Routes
<1> HIDE DEF d2
<1>5. d3 \in Call
  BY <1>4, <1>1, PointsAre DEF Call, Routes
<1> HIDE DEF d3
<1>6. /\ d3.at = "mark" /\ d3.op = call[r].op /\ d3.path = "returning"
      /\ d3.email = call[r].email /\ d3.token = call[r].token /\ d3.who = call[r].who
      /\ d3.u = v /\ d3.s = call[r].s /\ d3.verified = call[r].verified
  BY <1>1, PointsAre DEF d1, d2, d3, Call
<1>7. call' \in [Requests -> Call] /\ Alone(r) /\ call'[r] = d3
  BY <1>1, <1>2, <1>5, <1>6, BecomeIs
<1> QED BY <1>6, <1>7

LEMMA MatchIs ==
    ASSUME call \in [Requests -> Call], NEW r \in Requests, NEW v \in Users,
           Become(r, [call[r] EXCEPT !.u = v, !.path = "matched", !.at = "link"])
    PROVE  /\ call' \in [Requests -> Call] /\ Alone(r)
           /\ call'[r].at = "link" /\ call'[r].op = call[r].op /\ call'[r].path = "matched"
           /\ call'[r].token = call[r].token /\ call'[r].who = call[r].who /\ call'[r].u = v /\ call'[r].s = call[r].s
<1>1. call \in [Requests -> Call] /\ call[r] \in Call
  OBVIOUS
<1> DEFINE d1 == [call[r] EXCEPT !.u = v]
           d2 == [d1 EXCEPT !.path = "matched"]
           d3 == [d2 EXCEPT !.at = "link"]
<1>2. Become(r, d3)
  BY Zenon
<1>3. d1 \in Call
  BY <1>1, PointsAre DEF Call, Routes
<1> HIDE DEF d1
<1>4. d2 \in Call
  BY <1>3, <1>1, PointsAre DEF Call, Routes
<1> HIDE DEF d2
<1>5. d3 \in Call
  BY <1>4, <1>1, PointsAre DEF Call, Routes
<1> HIDE DEF d3
<1>6. /\ d3.at = "link" /\ d3.op = call[r].op /\ d3.path = "matched"
      /\ d3.email = call[r].email /\ d3.token = call[r].token /\ d3.who = call[r].who
      /\ d3.u = v /\ d3.s = call[r].s /\ d3.verified = call[r].verified
  BY <1>1, PointsAre DEF d1, d2, d3, Call
<1>7. call' \in [Requests -> Call] /\ Alone(r) /\ call'[r] = d3
  BY <1>1, <1>2, <1>5, <1>6, BecomeIs
<1> QED BY <1>6, <1>7

LEMMA FreshIs ==
    ASSUME call \in [Requests -> Call], NEW r \in Requests,
           Become(r, [call[r] EXCEPT !.path = "fresh", !.at = "insert"])
    PROVE  /\ call' \in [Requests -> Call] /\ Alone(r)
           /\ call'[r].at = "insert" /\ call'[r].op = call[r].op /\ call'[r].path = "fresh"
           /\ call'[r].token = call[r].token /\ call'[r].who = call[r].who /\ call'[r].u = call[r].u /\ call'[r].s = call[r].s
<1>1. call \in [Requests -> Call] /\ call[r] \in Call
  OBVIOUS
<1> DEFINE d1 == [call[r] EXCEPT !.path = "fresh"]
           d2 == [d1 EXCEPT !.at = "insert"]
<1>2. Become(r, d2)
  BY Zenon
<1>3. d1 \in Call
  BY <1>1, PointsAre DEF Call, Routes
<1> HIDE DEF d1
<1>4. d2 \in Call
  BY <1>3, <1>1, PointsAre DEF Call, Routes
<1> HIDE DEF d2
<1>5. /\ d2.at = "insert" /\ d2.op = call[r].op /\ d2.path = "fresh"
      /\ d2.email = call[r].email /\ d2.token = call[r].token /\ d2.who = call[r].who
      /\ d2.u = call[r].u /\ d2.s = call[r].s /\ d2.verified = call[r].verified
  BY <1>1, PointsAre DEF d1, d2, Call
<1>6. call' \in [Requests -> Call] /\ Alone(r) /\ call'[r] = d2
  BY <1>1, <1>2, <1>4, <1>5, BecomeIs
<1> QED BY <1>5, <1>6

LEMMA BurnIs ==
    ASSUME call \in [Requests -> Call], NEW r \in Requests, NEW t \in SessionIds,
           Become(r, [call[r] EXCEPT !.s = t, !.at = "issue"])
    PROVE  /\ call' \in [Requests -> Call] /\ Alone(r)
           /\ call'[r].at = "issue" /\ call'[r].op = call[r].op /\ call'[r].path = call[r].path
           /\ call'[r].token = call[r].token /\ call'[r].who = call[r].who /\ call'[r].u = call[r].u /\ call'[r].s = t
<1>1. call \in [Requests -> Call] /\ call[r] \in Call
  OBVIOUS
<1> DEFINE d1 == [call[r] EXCEPT !.s = t]
           d2 == [d1 EXCEPT !.at = "issue"]
<1>2. Become(r, d2)
  BY Zenon
<1>3. d1 \in Call
  BY <1>1, PointsAre DEF Call, Routes
<1> HIDE DEF d1
<1>4. d2 \in Call
  BY <1>3, <1>1, PointsAre DEF Call, Routes
<1> HIDE DEF d2
<1>5. /\ d2.at = "issue" /\ d2.op = call[r].op /\ d2.path = call[r].path
      /\ d2.email = call[r].email /\ d2.token = call[r].token /\ d2.who = call[r].who
      /\ d2.u = call[r].u /\ d2.s = t /\ d2.verified = call[r].verified
  BY <1>1, PointsAre DEF d1, d2, Call
<1>6. call' \in [Requests -> Call] /\ Alone(r) /\ call'[r] = d2
  BY <1>1, <1>2, <1>4, <1>5, BecomeIs
<1> QED BY <1>5, <1>6

LEMMA IssueIs ==
    ASSUME call \in [Requests -> Call], NEW r \in Requests, NEW v \in Users,
           Become(r, [call[r] EXCEPT !.at = "status", !.u = v])
    PROVE  /\ call' \in [Requests -> Call] /\ Alone(r)
           /\ call'[r].at = "status" /\ call'[r].op = call[r].op /\ call'[r].path = call[r].path
           /\ call'[r].token = call[r].token /\ call'[r].who = call[r].who /\ call'[r].u = v /\ call'[r].s = call[r].s
<1>1. call \in [Requests -> Call] /\ call[r] \in Call
  OBVIOUS
<1> DEFINE d1 == [call[r] EXCEPT !.at = "status"]
           d2 == [d1 EXCEPT !.u = v]
<1>2. Become(r, d2)
  BY Zenon
<1>3. d1 \in Call
  BY <1>1, PointsAre DEF Call, Routes
<1> HIDE DEF d1
<1>4. d2 \in Call
  BY <1>3, <1>1, PointsAre DEF Call, Routes
<1> HIDE DEF d2
<1>5. /\ d2.at = "status" /\ d2.op = call[r].op /\ d2.path = call[r].path
      /\ d2.email = call[r].email /\ d2.token = call[r].token /\ d2.who = call[r].who
      /\ d2.u = v /\ d2.s = call[r].s /\ d2.verified = call[r].verified
  BY <1>1, PointsAre DEF d1, d2, Call
<1>6. call' \in [Requests -> Call] /\ Alone(r) /\ call'[r] = d2
  BY <1>1, <1>2, <1>4, <1>5, BecomeIs
<1> QED BY <1>5, <1>6

LEMMA NewcomerIs ==
    ASSUME call \in [Requests -> Call], NEW r \in Requests,
           Become(r, [call[r] EXCEPT !.path = "newcomer", !.at = "insert"])
    PROVE  /\ call' \in [Requests -> Call] /\ Alone(r)
           /\ call'[r].at = "insert" /\ call'[r].op = call[r].op /\ call'[r].path = "newcomer"
           /\ call'[r].token = call[r].token /\ call'[r].who = call[r].who /\ call'[r].u = call[r].u /\ call'[r].s = call[r].s
<1>1. call \in [Requests -> Call] /\ call[r] \in Call
  OBVIOUS
<1> DEFINE d1 == [call[r] EXCEPT !.path = "newcomer"]
           d2 == [d1 EXCEPT !.at = "insert"]
<1>2. Become(r, d2)
  BY Zenon
<1>3. d1 \in Call
  BY <1>1, PointsAre DEF Call, Routes
<1> HIDE DEF d1
<1>4. d2 \in Call
  BY <1>3, <1>1, PointsAre DEF Call, Routes
<1> HIDE DEF d2
<1>5. /\ d2.at = "insert" /\ d2.op = call[r].op /\ d2.path = "newcomer"
      /\ d2.email = call[r].email /\ d2.token = call[r].token /\ d2.who = call[r].who
      /\ d2.u = call[r].u /\ d2.s = call[r].s /\ d2.verified = call[r].verified
  BY <1>1, PointsAre DEF d1, d2, Call
<1>6. call' \in [Requests -> Call] /\ Alone(r) /\ call'[r] = d2
  BY <1>1, <1>2, <1>4, <1>5, BecomeIs
<1> QED BY <1>5, <1>6

LEMMA FoundIs ==
    ASSUME call \in [Requests -> Call], NEW r \in Requests, NEW v \in Users, NEW b \in BOOLEAN, NEW p \in {"staff", "session"},
           Become(r, [call[r] EXCEPT !.u = v, !.path = "known", !.verified = b, !.at = p])
    PROVE  /\ call' \in [Requests -> Call] /\ Alone(r)
           /\ call'[r].at = p /\ call'[r].op = call[r].op /\ call'[r].path = "known"
           /\ call'[r].token = call[r].token /\ call'[r].who = call[r].who /\ call'[r].u = v /\ call'[r].s = call[r].s
<1>1. call \in [Requests -> Call] /\ call[r] \in Call
  OBVIOUS
<1> DEFINE d1 == [call[r] EXCEPT !.u = v]
           d2 == [d1 EXCEPT !.path = "known"]
           d3 == [d2 EXCEPT !.verified = b]
           d4 == [d3 EXCEPT !.at = p]
<1>2. Become(r, d4)
  BY Zenon
<1>3. d1 \in Call
  BY <1>1, PointsAre DEF Call, Routes
<1> HIDE DEF d1
<1>4. d2 \in Call
  BY <1>3, <1>1, PointsAre DEF Call, Routes
<1> HIDE DEF d2
<1>5. d3 \in Call
  BY <1>4, <1>1, PointsAre DEF Call, Routes
<1> HIDE DEF d3
<1>6. d4 \in Call
  BY <1>5, <1>1, PointsAre DEF Call, Routes
<1> HIDE DEF d4
<1>7. /\ d4.at = p /\ d4.op = call[r].op /\ d4.path = "known"
      /\ d4.email = call[r].email /\ d4.token = call[r].token /\ d4.who = call[r].who
      /\ d4.u = v /\ d4.s = call[r].s /\ d4.verified = b
  BY <1>1, PointsAre DEF d1, d2, d3, d4, Call
<1>8. call' \in [Requests -> Call] /\ Alone(r) /\ call'[r] = d4
  BY <1>1, <1>2, <1>6, <1>7, BecomeIs
<1> QED BY <1>7, <1>8

LEMMA InsertSessionMoves ==
    ASSUME Inv, NEW r \in Requests, InsertSession(r)
    PROVE  call' \in [Requests -> Call] /\ Alone(r) /\ Moves(r)
<1>1. call \in [Requests -> Call] /\ AtHome(call[r]) /\ Flowing(call[r]) /\ call[r].at = "session"
  BY CallIs DEF InsertSession
<1>2. \/ call[r].op = "signup" /\ call[r].path = "signup"
      \/ call[r].op = "redeem" /\ call[r].path = "redeem"
      \/ call[r].op = "click" /\ call[r].path = "known"
      \/ call[r].op = "oauth" /\ call[r].path \in {"returning", "matched", "fresh"}
  BY <1>1 DEF AtHome, Ending, Rollback
<1>3. CASE call[r].op \notin Signups /\ Goto(r, "refused")
  BY <1>1, <1>3, RefuseMoves
<1>4. CASE call[r].op \in Signups /\ Goto(r, "unprofile")
  <2>1. call' \in [Requests -> Call] /\ Alone(r) /\ Like(call[r], call'[r], "unprofile")
    BY <1>1, <1>4, GotoIs, PointsAre
  <2>2. AtHome(call'[r])
    BY <1>1, <1>2, <1>4, <2>1 DEF AtHome, Like, Rollback, Signups
  <2>3. OnAsBefore(call[r], call'[r])
    BY <1>1, <1>2, <1>4, <2>1, <2>2 DEF OnAsBefore, Like, HasUser, Unknown, HasSession, Signups
  <2>4. Walks(r)
    BY <1>1, <1>2, <1>4, <2>1, <2>3 DEF Walks, HandChecks, Like, Signups, SignIns, SignupChecks
  <2> QED BY <2>1, <2>4 DEF Moves
<1>5. ASSUME Exists(call[r].u), NEW s \in SessionIds,
             session' = [session EXCEPT ![s] = [state |-> "open", user |-> call[r].u, via |-> call[r].token]],
             Become(r, [call[r] EXCEPT !.s = s, !.verified = FALSE,
                                       !.path = IF call[r].path \in Signups \cup {"fresh"}
                                                THEN call[r].path ELSE "none",
                                       !.at = IF call[r].op \in Signups THEN Then(call[r])
                                              ELSE "second"])
      PROVE  call' \in [Requests -> Call] /\ Alone(r) /\ Moves(r)
  <2> DEFINE p == IF call[r].op \in Signups THEN Then(call[r]) ELSE "second"
  <2>1. p = IF call[r].op \in Signups THEN "onSignup" ELSE "second"
    BY <1>1, NextPoint
  <2>2. Become(r, [call[r] EXCEPT !.s = s, !.verified = FALSE,
                                  !.path = IF call[r].path \in Signups \cup {"fresh"}
                                           THEN call[r].path ELSE "none",
                                  !.at = p])
    BY <1>5, Zenon
  <2>3. p \in {"onSignup", "second"}
    BY <2>1
  <2> HIDE DEF p
  <2>4. /\ call' \in [Requests -> Call] /\ Alone(r)
        /\ call'[r].at = p /\ call'[r].op = call[r].op
        /\ call'[r].path = IF call[r].path \in Signups \cup {"fresh"} THEN call[r].path ELSE "none"
        /\ call'[r].token = call[r].token /\ call'[r].who = call[r].who
        /\ call'[r].u = call[r].u /\ call'[r].s = s
    BY <1>1, <2>2, <2>3, OpenIs
  <2>5. AtHome(call'[r])
    BY <1>2, <2>1, <2>4 DEF AtHome, Ending, Signups
  <2>6. call'[r].path \notin {"newcomer", "known"}
    BY <1>2, <2>4 DEF Signups
  <2>7. session'[s].state # "free" /\ session'[s].via = call[r].token
    BY <1>5 DEF Inv, TypeOK, AccountsTypeOK
  <2>8. Opens(r)
    BY <1>1, <1>5, <2>1, <2>4, <2>5, <2>6, <2>7 DEF Opens
  <2> QED BY <2>4, <2>8 DEF Moves
<1>6. \/ call[r].op \notin Signups /\ Goto(r, "refused")
      \/ call[r].op \in Signups /\ Goto(r, "unprofile")
      \/ /\ Exists(call[r].u)
         /\ \E s \in SessionIds :
               /\ session' = [session EXCEPT ![s] = [state |-> "open", user |-> call[r].u,
                                                     via |-> call[r].token]]
               /\ Become(r, [call[r] EXCEPT !.s = s, !.verified = FALSE,
                                            !.path = IF call[r].path \in Signups \cup {"fresh"}
                                                     THEN call[r].path ELSE "none",
                                            !.at = IF call[r].op \in Signups THEN Then(call[r])
                                                   ELSE "second"])
  BY Zenon DEF InsertSession
<1> QED BY <1>3, <1>4, <1>5, <1>6

\* An account that was found refuses the click, or takes it on.
LEMMA FoundMoves ==
    ASSUME Inv, NEW r \in Requests, call[r].op = "click", call[r].at \in {"find", "again", "reread"},
           NEW v \in Users, user[v].state # "free", UNCHANGED user, NEW p,
           call[r].at = "reread" => p = "session" /\ v = call[r].u,
           call[r].at # "reread" => p = "staff",
           Become(r, Found(call[r], v, p))
    PROVE  call' \in [Requests -> Call] /\ Alone(r) /\ Moves(r)
<1>1. call \in [Requests -> Call] /\ call[r] \in Call /\ AtHome(call[r])
  BY CallIs
<1>2. user[v].verified \in BOOLEAN /\ p \in {"staff", "session"}
  BY DEF Inv, TypeOK, AccountsTypeOK, User
<1>3. CASE user[v].status = "active"
  <2>1. Become(r, [call[r] EXCEPT !.u = v, !.path = "known", !.verified = user[v].verified, !.at = p])
    BY <1>3, Zenon DEF Found
  <2>2. /\ call' \in [Requests -> Call] /\ Alone(r)
        /\ call'[r].at = p /\ call'[r].op = call[r].op /\ call'[r].path = "known"
        /\ call'[r].token = call[r].token /\ call'[r].u = v
    BY <1>1, <1>2, <2>1, FoundIs
  <2>3. AtHome(call'[r])
    BY <1>2, <2>2 DEF AtHome
  <2>4. Turns(r)
    BY <1>2, <1>3, <2>2, <2>3 DEF Turns, SignIns
  <2> QED BY <2>2, <2>4 DEF Moves
<1>4. CASE user[v].status # "active"
  <2> DEFINE d == Found(call[r], v, p)
             e1 == [call[r] EXCEPT !.u = v]
             e2 == [e1 EXCEPT !.path = "known"]
             e3 == [e2 EXCEPT !.verified = user[v].verified]
             e4 == [e3 EXCEPT !.at = "refused"]
  <2>1. d = e4
    BY <1>4, Zenon DEF Found
  <2>2. e1 \in Call
    BY <1>1 DEF Call
  <2> HIDE DEF e1
  <2>3. e2 \in Call
    BY <2>2 DEF Call, Routes
  <2> HIDE DEF e2
  <2>4. e3 \in Call
    BY <1>2, <2>3 DEF Call
  <2> HIDE DEF e3
  <2>5. e4 \in Call
    BY <2>4, PointsAre DEF Call
  <2> HIDE DEF e4
  <2>6. e4.at = "refused" /\ e4.op = call[r].op
    BY <1>1, <1>2, PointsAre DEF e1, e2, e3, e4, Call
  <2>7. Become(r, e4)
    BY <2>1, Zenon
  <2>8. call' \in [Requests -> Call] /\ Alone(r) /\ Left(e4, call'[r])
    BY <1>1, <2>5, <2>6, <2>7, BecomeIs
  <2>9. Refuses(r)
    BY <2>6, <2>8 DEF Refuses, Left, Signups
  <2> QED BY <2>8, <2>9 DEF Moves
<1> QED BY <1>3, <1>4

LEMMA FindMoves ==
    ASSUME Inv, NEW r \in Requests, Find(r)
    PROVE  call' \in [Requests -> Call] /\ Alone(r) /\ Moves(r)
<1>1. call \in [Requests -> Call] /\ AtHome(call[r]) /\ Flowing(call[r]) /\ call[r].at = "find"
  BY CallIs DEF Find
<1>2. call[r].op = "click" /\ call[r].path = "none"
  BY <1>1 DEF AtHome, Ending, Rollback
<1>3. ASSUME NEW u \in At(call[r].email), Become(r, Found(call[r], u, "staff"))
      PROVE  call' \in [Requests -> Call] /\ Alone(r) /\ Moves(r)
  <2>1. u \in Users /\ user[u].state # "free" /\ UNCHANGED user
    BY DEF At, Exists, Find, rows
  <2> QED BY <1>1, <1>2, <1>3, <2>1, FoundMoves
<1>4. CASE Become(r, [call[r] EXCEPT !.path = "newcomer",
                                     !.at = IF PublicSignup THEN "insert" ELSE "refused"])
  <2>1. CASE PublicSignup
    <3>1. Become(r, [call[r] EXCEPT !.path = "newcomer", !.at = "insert"])
      BY <1>4, <2>1, Zenon
    <3>2. /\ call' \in [Requests -> Call] /\ Alone(r)
          /\ call'[r].at = "insert" /\ call'[r].op = call[r].op /\ call'[r].path = "newcomer"
          /\ call'[r].token = call[r].token /\ call'[r].who = call[r].who /\ call'[r].u = call[r].u
      BY <1>1, <3>1, NewcomerIs
    <3>3. AtHome(call'[r])
      BY <1>2, <3>2 DEF AtHome
    <3>4. Turns(r)
      BY <1>1, <1>2, <3>2, <3>3 DEF Turns, SignIns
    <3> QED BY <3>2, <3>4 DEF Moves
  <2>2. CASE ~PublicSignup
    <3> DEFINE e1 == [call[r] EXCEPT !.path = "newcomer"]
               e2 == [e1 EXCEPT !.at = "refused"]
    <3>1. Become(r, e2)
      BY <1>4, <2>2, Zenon
    <3>2. e1 \in Call
      BY <1>1 DEF Call, Routes
    <3> HIDE DEF e1
    <3>3. e2 \in Call
      BY <3>2, PointsAre DEF Call
    <3> HIDE DEF e2
    <3>4. e2.at = "refused" /\ e2.op = call[r].op
      BY <1>1, PointsAre DEF e1, e2, Call
    <3>5. call' \in [Requests -> Call] /\ Alone(r) /\ Left(e2, call'[r])
      BY <1>1, <3>1, <3>3, <3>4, BecomeIs
    <3>6. Refuses(r)
      BY <1>2, <3>4, <3>5 DEF Refuses, Left, Signups
    <3> QED BY <3>5, <3>6 DEF Moves
  <2> QED BY <2>1, <2>2
<1> QED BY <1>3, <1>4 DEF Find

LEMMA AgainMoves ==
    ASSUME Inv, NEW r \in Requests, Again(r)
    PROVE  call' \in [Requests -> Call] /\ Alone(r) /\ Moves(r)
<1>1. call \in [Requests -> Call] /\ AtHome(call[r]) /\ Flowing(call[r]) /\ call[r].at = "again"
  BY CallIs DEF Again
<1>2. call[r].op = "click" /\ call[r].path = "newcomer"
  BY <1>1 DEF AtHome, Ending, Rollback
<1>3. ASSUME NEW u \in At(call[r].email), Become(r, Found(call[r], u, "staff"))
      PROVE  call' \in [Requests -> Call] /\ Alone(r) /\ Moves(r)
  <2>1. u \in Users /\ user[u].state # "free" /\ UNCHANGED user
    BY DEF At, Exists, Again, rows
  <2> QED BY <1>1, <1>2, <1>3, <2>1, FoundMoves
<1>4. CASE Goto(r, "refused")
  BY <1>1, <1>2, <1>4, RefuseMoves DEF Signups
<1> QED BY <1>3, <1>4 DEF Again

LEMMA RereadMoves ==
    ASSUME Inv, NEW r \in Requests, Reread(r)
    PROVE  call' \in [Requests -> Call] /\ Alone(r) /\ Moves(r)
<1>1. call \in [Requests -> Call] /\ AtHome(call[r]) /\ Flowing(call[r]) /\ call[r].at = "reread"
  BY CallIs DEF Reread
<1>2. call[r].op = "click" /\ call[r].path = "newcomer"
  BY <1>1 DEF AtHome, Ending, Rollback
<1>3. CASE Become(r, Found(call[r], call[r].u, "session"))
  <2>1. call[r].u \in Users /\ user[call[r].u].state # "free" /\ UNCHANGED user
    BY <1>1 DEF Flowing, HasUser, Unknown, Reread, rows
  <2> QED BY <1>1, <1>2, <1>3, <2>1, FoundMoves
<1>4. CASE Goto(r, "refused")
  BY <1>1, <1>2, <1>4, RefuseMoves DEF Signups
<1>5. Become(r, Found(call[r], call[r].u, "session")) \/ Goto(r, "refused")
  BY Zenon DEF Reread, Goto
<1> QED BY <1>3, <1>4, <1>5

LEMMA BurnCodeMoves ==
    ASSUME Inv, NEW r \in Requests, BurnCode(r)
    PROVE  call' \in [Requests -> Call] /\ Alone(r) /\ Moves(r)
<1>1. call \in [Requests -> Call] /\ AtHome(call[r]) /\ Flowing(call[r]) /\ call[r].at = "burn"
  BY CallIs DEF BurnCode
<1>2. call[r].op = "exchange" /\ call[r].path = "none"
  BY <1>1 DEF AtHome, Ending, Rollback
<1>3. call[r].u = NoUser /\ call[r].token \in Codes
  BY <1>1, <1>2 DEF Flowing, HasUser, Unknown, TokensOf
<1> DEFINE s == code[call[r].token].s
<1>4. CASE Goto(r, "refused")
  BY <1>1, <1>2, <1>4, RefuseMoves DEF Signups
<1>5. ASSUME code[call[r].token].state = "open", session[s].state # "gone", UNCHANGED session,
             NEW right \in BOOLEAN,
             Become(r, [call[r] EXCEPT !.s = s, !.at = IF right THEN "issue" ELSE "refused"])
      PROVE  call' \in [Requests -> Call] /\ Alone(r) /\ Moves(r)
  <2>1. s \in SessionIds /\ session'[s].state # "free"
    BY <1>3, <1>5 DEF Inv, Keyed
  <2> HIDE DEF s
  <2>2. CASE Become(r, [call[r] EXCEPT !.s = s, !.at = "issue"])
    <3>1. /\ call' \in [Requests -> Call] /\ Alone(r)
          /\ call'[r].at = "issue" /\ call'[r].op = call[r].op /\ call'[r].path = call[r].path
          /\ call'[r].token = call[r].token /\ call'[r].u = call[r].u /\ call'[r].s = s
      BY <1>1, <2>1, <2>2, BurnIs
    <3>2. AtHome(call'[r])
      BY <1>2, <3>1 DEF AtHome
    <3>3. Trades(r)
      BY <1>1, <1>2, <1>3, <1>5, <2>1, <3>1, <3>2 DEF Trades, s
    <3> QED BY <3>1, <3>3 DEF Moves
  <2>3. CASE Become(r, [call[r] EXCEPT !.s = s, !.at = "refused"])
    <3> DEFINE e1 == [call[r] EXCEPT !.s = s]
               e2 == [e1 EXCEPT !.at = "refused"]
    <3>1. Become(r, e2)
      BY <2>3, Zenon
    <3>2. e1 \in Call
      BY <1>1, <2>1 DEF Call
    <3> HIDE DEF e1
    <3>3. e2 \in Call
      BY <3>2, PointsAre DEF Call
    <3> HIDE DEF e2
    <3>4. e2.at = "refused" /\ e2.op = call[r].op
      BY <1>1, <2>1, PointsAre DEF e1, e2, Call
    <3>5. call' \in [Requests -> Call] /\ Alone(r) /\ Left(e2, call'[r])
      BY <1>1, <3>1, <3>3, <3>4, BecomeIs
    <3>6. Refuses(r)
      BY <1>2, <3>4, <3>5 DEF Refuses, Left, Signups
    <3> QED BY <3>5, <3>6 DEF Moves
  <2>4. right \/ ~right
    OBVIOUS
  <2> QED BY <1>5, <2>2, <2>3, <2>4, Zenon
<1>6. \/ Goto(r, "refused")
      \/ /\ code[call[r].token].state = "open" /\ session[s].state # "gone" /\ UNCHANGED session
         /\ \E right \in BOOLEAN :
               Become(r, [call[r] EXCEPT !.s = s, !.at = IF right THEN "issue" ELSE "refused"])
  BY Zenon DEF BurnCode, rows
<1> QED BY <1>4, <1>5, <1>6

LEMMA IssueTokenMoves ==
    ASSUME Inv, NEW r \in Requests, IssueToken(r)
    PROVE  call' \in [Requests -> Call] /\ Alone(r) /\ Moves(r)
<1>1. call \in [Requests -> Call] /\ AtHome(call[r]) /\ Flowing(call[r]) /\ call[r].at = "issue"
  BY CallIs DEF IssueToken
<1>2. call[r].op = "exchange" /\ call[r].path = "none"
  BY <1>1 DEF AtHome, Ending, Rollback
<1>3. call[r].s \in SessionIds /\ session[call[r].s].state # "free"
  BY <1>1 DEF Flowing, HasSession
<1>4. CASE Goto(r, "refused")
  BY <1>1, <1>2, <1>4, RefuseMoves DEF Signups
<1>5. CASE Become(r, [call[r] EXCEPT !.at = "status", !.u = session[call[r].s].user])
  <2> DEFINE v == session[call[r].s].user
  <2>1. v \in Users /\ user[v].state # "free"
    BY <1>3 DEF Inv, Keyed
  <2>2. Become(r, [call[r] EXCEPT !.at = "status", !.u = v])
    BY <1>5
  <2> HIDE DEF v
  <2>3. /\ call' \in [Requests -> Call] /\ Alone(r)
        /\ call'[r].at = "status" /\ call'[r].op = call[r].op /\ call'[r].path = call[r].path
        /\ call'[r].token = call[r].token /\ call'[r].u = v /\ call'[r].s = call[r].s
    BY <1>1, <2>1, <2>2, IssueIs
  <2>4. AtHome(call'[r])
    BY <1>2, <2>3 DEF AtHome
  <2>5. session' = session /\ user' = user
    BY DEF IssueToken, rows
  <2>6. Trades(r)
    BY <1>1, <1>2, <1>3, <2>1, <2>3, <2>4, <2>5 DEF Trades
  <2> QED BY <2>3, <2>6 DEF Moves
<1>6. \/ Goto(r, "refused")
      \/ Become(r, [call[r] EXCEPT !.at = "status", !.u = session[call[r].s].user])
  BY Zenon DEF IssueToken, Goto
<1> QED BY <1>4, <1>5, <1>6

LEMMA IdentifyMoves ==
    ASSUME Inv, NEW r \in Requests, Identify(r)
    PROVE  call' \in [Requests -> Call] /\ Alone(r) /\ Moves(r)
<1>1. call \in [Requests -> Call] /\ AtHome(call[r]) /\ Flowing(call[r]) /\ call[r].at = "identify"
  BY CallIs DEF Identify
<1>2. call[r].op = "oauth" /\ call[r].path = "none"
  BY <1>1 DEF AtHome, Ending, Rollback
<1>3. config.addresses \subseteq Addresses
  BY ConfigAssumption DEF Inv, TypeOK, AccountsTypeOK, Config
<1>4. CASE Goto(r, "refused")
  BY <1>1, <1>2, <1>4, RefuseMoves DEF Signups
<1>5. ASSUME NEW p \in Identities, NEW a \in config.addresses,
             Become(r, [call[r] EXCEPT !.at = "lookup", !.who = p, !.email = a])
      PROVE  call' \in [Requests -> Call] /\ Alone(r) /\ Moves(r)
  <2>1. /\ call' \in [Requests -> Call] /\ Alone(r)
        /\ call'[r].at = "lookup" /\ call'[r].op = call[r].op /\ call'[r].path = call[r].path
        /\ call'[r].token = call[r].token /\ call'[r].who = p /\ call'[r].u = call[r].u
    BY <1>1, <1>3, <1>5, IdentifyIs
  <2>2. AtHome(call'[r])
    BY <1>2, <2>1 DEF AtHome
  <2>3. Turns(r)
    BY <1>1, <1>2, <2>1, <2>2 DEF Turns, SignIns
  <2> QED BY <2>1, <2>3 DEF Moves
<1> QED BY <1>4, <1>5 DEF Identify

LEMMA LookupMoves ==
    ASSUME Inv, NEW r \in Requests, Lookup(r)
    PROVE  call' \in [Requests -> Call] /\ Alone(r) /\ Moves(r)
<1>1. call \in [Requests -> Call] /\ AtHome(call[r]) /\ Flowing(call[r]) /\ call[r].at = "lookup"
  BY CallIs DEF Lookup
<1>2. call[r].op = "oauth" /\ call[r].path = "none"
  BY <1>1 DEF AtHome, Ending, Rollback
<1>3. call[r].who \in Identities
  BY <1>1, <1>2 DEF Flowing
<1>4. CASE Goto(r, "match")
  <2>1. call' \in [Requests -> Call] /\ Alone(r) /\ Like(call[r], call'[r], "match")
    BY <1>1, <1>4, GotoIs, PointsAre
  <2>2. AtHome(call'[r])
    BY <1>2, <2>1 DEF AtHome, Like
  <2>3. Turns(r)
    BY <1>1, <1>2, <2>1, <2>2 DEF Turns, Like, SignIns
  <2> QED BY <2>1, <2>3 DEF Moves
<1> DEFINE v == linked[call[r].who]
<1>5. CASE Linked(call[r].who) # NoUser
           /\ Become(r, [call[r] EXCEPT !.u = v, !.path = "returning", !.at = "mark"])
  <2>1. v \in Users /\ user[v].state = "row"
    BY <1>3, <1>5, NullAssumption DEF Linked, Exists, Inv, TypeOK, OAuthTypeOK
  <2>2. user' = user /\ linked'[call[r].who] = v
    BY DEF Lookup, rows, oauthVars
  <2> HIDE DEF v
  <2>3. /\ call' \in [Requests -> Call] /\ Alone(r)
        /\ call'[r].at = "mark" /\ call'[r].op = call[r].op /\ call'[r].path = "returning"
        /\ call'[r].token = call[r].token /\ call'[r].who = call[r].who /\ call'[r].u = v
    BY <1>1, <1>5, <2>1, ReturnIs
  <2>4. AtHome(call'[r])
    BY <1>2, <2>3 DEF AtHome
  <2>5. Turns(r)
    BY <1>1, <1>2, <2>1, <2>2, <2>3, <2>4 DEF Turns, SignIns
  <2> QED BY <2>3, <2>5 DEF Moves
<1>6. \/ Goto(r, "match")
      \/ /\ Linked(call[r].who) # NoUser
         /\ Become(r, [call[r] EXCEPT !.u = v, !.path = "returning", !.at = "mark"])
  BY Zenon DEF Lookup, Goto
<1> QED BY <1>4, <1>5, <1>6

LEMMA MatchMoves ==
    ASSUME Inv, NEW r \in Requests, Match(r)
    PROVE  call' \in [Requests -> Call] /\ Alone(r) /\ Moves(r)
<1>1. call \in [Requests -> Call] /\ AtHome(call[r]) /\ Flowing(call[r]) /\ call[r].at = "match"
  BY CallIs DEF Match
<1>2. call[r].op = "oauth" /\ call[r].path = "none"
  BY <1>1 DEF AtHome, Ending, Rollback
<1>3. CASE Become(r, [call[r] EXCEPT !.path = "fresh", !.at = "insert"])
  <2>1. /\ call' \in [Requests -> Call] /\ Alone(r)
        /\ call'[r].at = "insert" /\ call'[r].op = call[r].op /\ call'[r].path = "fresh"
        /\ call'[r].token = call[r].token /\ call'[r].who = call[r].who /\ call'[r].u = call[r].u
    BY <1>1, <1>3, FreshIs
  <2>2. AtHome(call'[r])
    BY <1>2, <2>1 DEF AtHome
  <2>3. Turns(r)
    BY <1>1, <1>2, <2>1, <2>2 DEF Turns, SignIns
  <2> QED BY <2>1, <2>3 DEF Moves
<1>4. ASSUME NEW u \in At(call[r].email),
             Become(r, [call[r] EXCEPT !.u = u, !.path = "matched", !.at = "link"])
      PROVE  call' \in [Requests -> Call] /\ Alone(r) /\ Moves(r)
  <2>1. u \in Users /\ user'[u].state # "free"
    BY DEF At, Exists, Match, rows
  <2>2. /\ call' \in [Requests -> Call] /\ Alone(r)
        /\ call'[r].at = "link" /\ call'[r].op = call[r].op /\ call'[r].path = "matched"
        /\ call'[r].token = call[r].token /\ call'[r].who = call[r].who /\ call'[r].u = u
    BY <1>1, <1>4, <2>1, MatchIs
  <2>3. AtHome(call'[r])
    BY <1>2, <2>2 DEF AtHome
  <2>4. Turns(r)
    BY <1>1, <1>2, <2>1, <2>2, <2>3 DEF Turns, SignIns
  <2> QED BY <2>2, <2>4 DEF Moves
<1> QED BY <1>3, <1>4 DEF Match

-----------------------------------------------------------------------------
\* One lemma for each statement that writes: the rows keep their types and keys, and
\* nothing comes back that was gone.
LEMMA InsertCredentialRows ==
    ASSUME Inv, NEW r \in Requests, InsertCredential(r), UNCHANGED <<code, linked>>
    PROVE  RowsGood /\ profile' = profile
<1>1. UNCHANGED <<user, factored, profile, staff, session, code, linked>>
  BY DEF InsertCredential, rows
<1>2. call[r].u \in Users /\ call[r].u # NoUser /\ user[call[r].u].state # "free"
  BY CallIs, NullAssumption DEF InsertCredential, Flowing, HasUser, Unknown
<1>3. RowTypes'
  BY <1>1, <1>2 DEF InsertCredential, Inv, TypeOK, AccountsTypeOK, LinksTypeOK, OAuthTypeOK, RowTypes
<1>4. Keyed'
  BY <1>1, <1>2, NullAssumption DEF InsertCredential, Inv, TypeOK, AccountsTypeOK, LinksTypeOK, OAuthTypeOK, Keyed, Exists, Usable
<1>5. Grown
  BY <1>1, <1>2, NullAssumption DEF InsertCredential, Inv, TypeOK, AccountsTypeOK, LinksTypeOK, OAuthTypeOK, Grown, Keyed, Exists, Usable
<1> QED BY <1>1, <1>3, <1>4, <1>5 DEF RowsGood

LEMMA InsertProfileRows ==
    ASSUME Inv, NEW r \in Requests, InsertProfile(r), UNCHANGED <<code, linked>>
    PROVE  RowsGood /\ Signed(r)
<1>1. UNCHANGED <<user, password, factored, staff, session, code, linked>>
  BY DEF InsertProfile, rows
<1>2. call[r].u \in Users /\ call[r].u # NoUser /\ user[call[r].u].state # "free"
  BY CallIs, NullAssumption DEF InsertProfile, Flowing, HasUser, Unknown
<1>3. RowTypes'
  BY <1>1, <1>2 DEF InsertProfile, Inv, TypeOK, AccountsTypeOK, LinksTypeOK, OAuthTypeOK, RowTypes
<1>4. Keyed'
  BY <1>1, <1>2, NullAssumption DEF InsertProfile, Inv, TypeOK, AccountsTypeOK, LinksTypeOK, OAuthTypeOK, Keyed, Exists, Usable
<1>5. Grown
  BY <1>1, <1>2, NullAssumption DEF InsertProfile, Inv, TypeOK, AccountsTypeOK, LinksTypeOK, OAuthTypeOK, Grown, Keyed, Exists, Usable
<1>6. Signed(r)
  BY <1>1, <1>2 DEF InsertProfile, Inv, TypeOK, AccountsTypeOK, LinksTypeOK, OAuthTypeOK, Signed
<1> QED BY <1>3, <1>4, <1>5, <1>6 DEF RowsGood

LEMMA MarkRows ==
    ASSUME Inv, NEW r \in Requests, Mark(r), UNCHANGED <<code, linked>>
    PROVE  RowsGood /\ profile' = profile
<1>1. UNCHANGED <<password, factored, profile, staff, session, code, linked>>
  BY DEF Mark, rows
<1>2. call[r].u \in Users /\ call[r].u # NoUser /\ user[call[r].u].state # "free"
  BY CallIs, NullAssumption DEF Mark, Flowing, HasUser, Unknown
<1>3. RowTypes'
  BY <1>1, <1>2 DEF Mark, Inv, TypeOK, AccountsTypeOK, LinksTypeOK, OAuthTypeOK, RowTypes, User
<1>4. Keyed'
  BY <1>1, <1>2, NullAssumption DEF Mark, Inv, TypeOK, AccountsTypeOK, LinksTypeOK, OAuthTypeOK, Keyed, Exists, Usable, User
<1>5. Grown
  BY <1>1, <1>2, NullAssumption DEF Mark, Inv, TypeOK, AccountsTypeOK, LinksTypeOK, OAuthTypeOK, Grown, Keyed, Exists, Usable, User
<1> QED BY <1>1, <1>3, <1>4, <1>5 DEF RowsGood

LEMMA DeleteProfileRows ==
    ASSUME Inv, NEW r \in Requests, DeleteProfile(r), UNCHANGED <<code, linked>>
    PROVE  RowsGood /\ Signed(r)
<1>1. UNCHANGED <<user, password, factored, staff, session, code, linked>>
  BY DEF DeleteProfile, rows
<1>7. profile' = profile \/ profile' = [profile EXCEPT ![call[r].u] = "none"]
  BY DEF DeleteProfile, May
<1>2. call[r].u \in Users /\ call[r].u # NoUser /\ user[call[r].u].state # "free"
  BY CallIs, NullAssumption DEF DeleteProfile, Flowing, HasUser, Unknown
<1>3. RowTypes'
  BY <1>1, <1>2, <1>7 DEF Inv, TypeOK, AccountsTypeOK, LinksTypeOK, OAuthTypeOK, RowTypes
<1>4. Keyed'
  BY <1>1, <1>2, <1>7, NullAssumption DEF Inv, TypeOK, AccountsTypeOK, LinksTypeOK, OAuthTypeOK, Keyed, Exists, Usable
<1>5. Grown
  BY <1>1, <1>2, <1>7, NullAssumption DEF Inv, TypeOK, AccountsTypeOK, LinksTypeOK, OAuthTypeOK, Grown, Keyed, Exists, Usable
<1>6. Signed(r)
  BY <1>1, <1>2, <1>7 DEF Inv, TypeOK, AccountsTypeOK, LinksTypeOK, OAuthTypeOK, Signed
<1> QED BY <1>3, <1>4, <1>5, <1>6 DEF RowsGood

LEMMA DeleteCredentialRows ==
    ASSUME Inv, NEW r \in Requests, DeleteCredential(r), UNCHANGED <<code, linked>>
    PROVE  RowsGood /\ profile' = profile
<1>1. UNCHANGED <<user, factored, profile, staff, session, code, linked>>
  BY DEF DeleteCredential, rows
<1>7. password' = password \/ password' = password \ {call[r].u}
  BY DEF DeleteCredential, May
<1>2. call[r].u \in Users /\ call[r].u # NoUser /\ user[call[r].u].state # "free"
  BY CallIs, NullAssumption DEF DeleteCredential, Flowing, HasUser, Unknown
<1>3. RowTypes'
  BY <1>1, <1>2, <1>7 DEF Inv, TypeOK, AccountsTypeOK, LinksTypeOK, OAuthTypeOK, RowTypes
<1>4. Keyed'
  BY <1>1, <1>2, <1>7, NullAssumption DEF Inv, TypeOK, AccountsTypeOK, LinksTypeOK, OAuthTypeOK, Keyed, Exists, Usable
<1>5. Grown
  BY <1>1, <1>2, <1>7, NullAssumption DEF Inv, TypeOK, AccountsTypeOK, LinksTypeOK, OAuthTypeOK, Grown, Keyed, Exists, Usable
<1> QED BY <1>1, <1>3, <1>4, <1>5 DEF RowsGood

LEMMA PendRows ==
    ASSUME Inv, NEW r \in Requests, Pend(r), UNCHANGED <<code, linked>>
    PROVE  RowsGood /\ profile' = profile
<1>1. UNCHANGED <<user, password, factored, profile, staff, code, linked>>
  BY DEF Pend, rows
<1>3. RowTypes'
  BY <1>1 DEF Pend, Inv, TypeOK, AccountsTypeOK, LinksTypeOK, OAuthTypeOK, RowTypes, Session, SetSessions
<1>4. Keyed'
  BY <1>1, NullAssumption DEF Pend, Inv, TypeOK, AccountsTypeOK, LinksTypeOK, OAuthTypeOK, Keyed, Exists, Usable, Session, SetSessions
<1>5. Grown
  BY <1>1, NullAssumption DEF Pend, Inv, TypeOK, AccountsTypeOK, LinksTypeOK, OAuthTypeOK, Grown, Keyed, Exists, Usable, Session, SetSessions
<1> QED BY <1>1, <1>3, <1>4, <1>5 DEF RowsGood

LEMMA RevokeRows ==
    ASSUME Inv, NEW r \in Requests, Revoke(r), UNCHANGED <<code, linked>>
    PROVE  RowsGood /\ profile' = profile
<1>1. UNCHANGED <<user, password, factored, profile, staff, code, linked>>
  BY DEF Revoke, rows
<1>3. RowTypes'
  BY <1>1 DEF Revoke, Inv, TypeOK, AccountsTypeOK, LinksTypeOK, OAuthTypeOK, RowTypes, Session, SetSessions
<1>4. Keyed'
  BY <1>1, NullAssumption DEF Revoke, Inv, TypeOK, AccountsTypeOK, LinksTypeOK, OAuthTypeOK, Keyed, Exists, Usable, Session, SetSessions
<1>5. Grown
  BY <1>1, NullAssumption DEF Revoke, Inv, TypeOK, AccountsTypeOK, LinksTypeOK, OAuthTypeOK, Grown, Keyed, Exists, Usable, Session, SetSessions
<1> QED BY <1>1, <1>3, <1>4, <1>5 DEF RowsGood

LEMMA HostSetStatusRows ==
    ASSUME Inv, NEW u \in Users, NEW status \in Statuses, HostSetStatus(u, status), UNCHANGED <<code, linked>>
    PROVE  RowsGood /\ profile' = profile
<1>1. UNCHANGED <<password, factored, profile, staff, session, code, linked>>
  BY DEF HostSetStatus, rows
<1>3. RowTypes'
  BY <1>1 DEF HostSetStatus, Inv, TypeOK, AccountsTypeOK, LinksTypeOK, OAuthTypeOK, RowTypes, User
<1>4. Keyed'
  BY <1>1, NullAssumption DEF HostSetStatus, Inv, TypeOK, AccountsTypeOK, LinksTypeOK, OAuthTypeOK, Keyed, Exists, Usable, User
<1>5. Grown
  BY <1>1, NullAssumption DEF HostSetStatus, Inv, TypeOK, AccountsTypeOK, LinksTypeOK, OAuthTypeOK, Grown, Keyed, Exists, Usable, User
<1> QED BY <1>1, <1>3, <1>4, <1>5 DEF RowsGood

LEMMA PromoteRows ==
    ASSUME Inv, NEW u \in Users, Promote(u), UNCHANGED <<code, linked>>
    PROVE  RowsGood /\ profile' = profile
<1>1. UNCHANGED <<user, password, factored, profile, session, code, linked>>
  BY DEF Promote, rows
<1>3. RowTypes'
  BY <1>1 DEF Promote, Inv, TypeOK, AccountsTypeOK, LinksTypeOK, OAuthTypeOK, RowTypes
<1>4. Keyed'
  BY <1>1, NullAssumption DEF Promote, Inv, TypeOK, AccountsTypeOK, LinksTypeOK, OAuthTypeOK, Keyed, Exists, Usable
<1>5. Grown
  BY <1>1, NullAssumption DEF Promote, Inv, TypeOK, AccountsTypeOK, LinksTypeOK, OAuthTypeOK, Grown, Keyed, Exists, Usable
<1> QED BY <1>1, <1>3, <1>4, <1>5 DEF RowsGood

LEMMA EnrolRows ==
    ASSUME Inv, NEW s \in SessionIds, Enrol(s), UNCHANGED <<code, linked>>
    PROVE  RowsGood /\ profile' = profile
<1>1. UNCHANGED <<user, password, profile, staff, session, code, linked>>
  BY DEF Enrol, rows
<1>2. session[s].user \in Users /\ Exists(session[s].user)
  BY DEF Enrol, Inv, Keyed, Usable
<1>3. RowTypes'
  BY <1>1, <1>2 DEF Enrol, Inv, TypeOK, AccountsTypeOK, LinksTypeOK, OAuthTypeOK, RowTypes
<1>4. Keyed'
  BY <1>1, <1>2, NullAssumption DEF Enrol, Inv, TypeOK, AccountsTypeOK, LinksTypeOK, OAuthTypeOK, Keyed, Exists, Usable
<1>5. Grown
  BY <1>1, <1>2, NullAssumption DEF Enrol, Inv, TypeOK, AccountsTypeOK, LinksTypeOK, OAuthTypeOK, Grown, Keyed, Exists, Usable
<1> QED BY <1>1, <1>3, <1>4, <1>5 DEF RowsGood

LEMMA LapseRows ==
    ASSUME Inv, Lapse, UNCHANGED linked
    PROVE  RowsGood /\ profile' = profile
<1>1. UNCHANGED <<user, password, factored, profile, staff, session, linked>>
  BY DEF Lapse, rows
<1>3. RowTypes'
  BY <1>1 DEF Lapse, Inv, TypeOK, AccountsTypeOK, LinksTypeOK, OAuthTypeOK, RowTypes, Code
<1>4. Keyed'
  BY <1>1, NullAssumption DEF Lapse, Inv, TypeOK, AccountsTypeOK, LinksTypeOK, OAuthTypeOK, Keyed, Exists, Usable, Code
<1>5. Grown
  BY <1>1, NullAssumption DEF Lapse, Inv, TypeOK, AccountsTypeOK, LinksTypeOK, OAuthTypeOK, Grown, Keyed, Exists, Usable, Code
<1> QED BY <1>1, <1>3, <1>4, <1>5 DEF RowsGood

LEMMA SweepRows ==
    ASSUME Inv, NEW r \in Requests, Sweep(r), UNCHANGED <<code, linked>>
    PROVE  RowsGood /\ profile' = profile
<1>1. UNCHANGED <<user, password, factored, profile, staff, code, linked>>
  BY DEF Sweep, rows
<1>3. RowTypes'
  BY <1>1 DEF Sweep, Inv, TypeOK, AccountsTypeOK, LinksTypeOK, OAuthTypeOK, RowTypes, Session, SetSessions, SessionsOf
<1>4. Keyed'
  BY <1>1, NullAssumption DEF Sweep, Inv, TypeOK, AccountsTypeOK, LinksTypeOK, OAuthTypeOK, Keyed, Exists, Usable, Session, SetSessions, SessionsOf
<1>5. Grown
  BY <1>1, NullAssumption DEF Sweep, Inv, TypeOK, AccountsTypeOK, LinksTypeOK, OAuthTypeOK, Grown, Keyed, Exists, Usable, Session, SetSessions, SessionsOf
<1> QED BY <1>1, <1>3, <1>4, <1>5 DEF RowsGood

LEMMA RemovePasswordRows ==
    ASSUME Inv, NEW r \in Requests, RemovePassword(r), UNCHANGED <<code, linked>>
    PROVE  RowsGood /\ profile' = profile
<1>1. UNCHANGED <<user, factored, profile, staff, session, code, linked>>
  BY DEF RemovePassword, rows
<1>2. call[r].u \in Users /\ call[r].u # NoUser /\ user[call[r].u].state # "free"
  BY CallIs, NullAssumption DEF RemovePassword, Flowing, HasUser, Unknown
<1>3. RowTypes'
  BY <1>1, <1>2 DEF RemovePassword, Inv, TypeOK, AccountsTypeOK, LinksTypeOK, OAuthTypeOK, RowTypes
<1>4. Keyed'
  BY <1>1, <1>2, NullAssumption DEF RemovePassword, Inv, TypeOK, AccountsTypeOK, LinksTypeOK, OAuthTypeOK, Keyed, Exists, Usable
<1>5. Grown
  BY <1>1, <1>2, NullAssumption DEF RemovePassword, Inv, TypeOK, AccountsTypeOK, LinksTypeOK, OAuthTypeOK, Grown, Keyed, Exists, Usable
<1> QED BY <1>1, <1>3, <1>4, <1>5 DEF RowsGood

LEMMA RemoveFactorsRows ==
    ASSUME Inv, NEW r \in Requests, RemoveFactors(r), UNCHANGED <<code, linked>>
    PROVE  RowsGood /\ profile' = profile
<1>1. UNCHANGED <<user, password, profile, staff, session, code, linked>>
  BY DEF RemoveFactors, rows
<1>2. call[r].u \in Users /\ call[r].u # NoUser /\ user[call[r].u].state # "free"
  BY CallIs, NullAssumption DEF RemoveFactors, Flowing, HasUser, Unknown
<1>3. RowTypes'
  BY <1>1, <1>2 DEF RemoveFactors, Inv, TypeOK, AccountsTypeOK, LinksTypeOK, OAuthTypeOK, RowTypes
<1>4. Keyed'
  BY <1>1, <1>2, NullAssumption DEF RemoveFactors, Inv, TypeOK, AccountsTypeOK, LinksTypeOK, OAuthTypeOK, Keyed, Exists, Usable
<1>5. Grown
  BY <1>1, <1>2, NullAssumption DEF RemoveFactors, Inv, TypeOK, AccountsTypeOK, LinksTypeOK, OAuthTypeOK, Grown, Keyed, Exists, Usable
<1> QED BY <1>1, <1>3, <1>4, <1>5 DEF RowsGood

LEMMA CreateCodeRows ==
    ASSUME Inv, NEW r \in Requests, CreateCode(r), UNCHANGED linked
    PROVE  RowsGood /\ profile' = profile
<1>1. UNCHANGED <<user, password, factored, profile, staff, session, linked>>
  BY DEF CreateCode, rows
<1>2. call[r].s \in SessionIds /\ session[call[r].s].state # "free"
  BY CallIs DEF CreateCode, Flowing, HasSession
<1>3. RowTypes'
  BY <1>1, <1>2 DEF CreateCode, Inv, TypeOK, AccountsTypeOK, LinksTypeOK, OAuthTypeOK, RowTypes, Code
<1>4. Keyed'
  BY <1>1, <1>2, NullAssumption DEF CreateCode, Inv, TypeOK, AccountsTypeOK, LinksTypeOK, OAuthTypeOK, Keyed, Exists, Usable, Code
<1>5. Grown
  BY <1>1, <1>2, NullAssumption DEF CreateCode, Inv, TypeOK, AccountsTypeOK, LinksTypeOK, OAuthTypeOK, Grown, Keyed, Exists, Usable, Code
<1> QED BY <1>1, <1>3, <1>4, <1>5 DEF RowsGood

LEMMA InsertLinkRows ==
    ASSUME Inv, NEW r \in Requests, InsertLink(r), UNCHANGED code
    PROVE  RowsGood /\ profile' = profile
<1>1. UNCHANGED <<user, password, factored, profile, staff, session, code>>
  BY DEF InsertLink, rows, oauthVars
<1>2. call[r].who \in Identities /\ call[r].u \in Users /\ user[call[r].u].state # "free"
  <2>1. AtHome(call[r]) /\ Flowing(call[r]) /\ call[r].at = "link"
    BY CallIs DEF InsertLink
  <2>2. call[r].op = "oauth"
    BY <2>1 DEF AtHome, Ending, Rollback
  <2> QED BY <2>1, <2>2 DEF Flowing, HasUser, Unknown
<1>3. RowTypes'
  BY <1>1, <1>2 DEF InsertLink, Inv, TypeOK, AccountsTypeOK, LinksTypeOK, OAuthTypeOK, RowTypes
<1>4. Keyed'
  BY <1>1, <1>2, NullAssumption DEF InsertLink, Inv, TypeOK, AccountsTypeOK, LinksTypeOK, OAuthTypeOK, Keyed, Exists, Usable, Linked
<1>5. Grown
  BY <1>1, <1>2, NullAssumption DEF InsertLink, Inv, TypeOK, AccountsTypeOK, LinksTypeOK, OAuthTypeOK, Grown, Keyed, Exists, Usable, Linked
<1> QED BY <1>1, <1>3, <1>4, <1>5 DEF RowsGood

LEMMA InsertUserRows ==
    ASSUME Inv, NEW r \in Requests, InsertUser(r), UNCHANGED <<code, linked>>
    PROVE  RowsGood /\ profile' = profile
<1>1. UNCHANGED <<password, factored, profile, staff, session, code, linked>>
  BY DEF InsertUser
<1>2. CASE UNCHANGED user
  BY <1>1, <1>2, RowsStay DEF rows
<1>3. ASSUME NEW u \in Users, user[u].state = "free",
             user' = [user EXCEPT ![u] = [@ EXCEPT !.state = "row", !.email = call[r].email]]
      PROVE  RowsGood
  <2>1. call[r].email \in Addresses /\ user \in [Users -> User]
    BY CallIs DEF Call, Inv, TypeOK, AccountsTypeOK
  <2>2. user' \in [Users -> User] /\ user'[u].state = "row" /\ user'[u].status = user[u].status
        /\ \A v \in Users : v # u => user'[v] = user[v]
    BY <1>3, <2>1 DEF User
  <2>3. RowTypes'
    BY <1>1, <2>2 DEF Inv, TypeOK, AccountsTypeOK, LinksTypeOK, OAuthTypeOK, RowTypes
  <2>4. Keyed'
    BY <1>1, <1>3, <2>2 DEF Inv, TypeOK, AccountsTypeOK, OAuthTypeOK, Keyed, Exists, Usable
  <2>5. Grown
    BY <1>1, <1>3, <2>2 DEF Grown
  <2> QED BY <2>3, <2>4, <2>5 DEF RowsGood
<1> QED BY <1>1, <1>2, <1>3, RowsStay DEF InsertUser

LEMMA InsertSessionRows ==
    ASSUME Inv, NEW r \in Requests, InsertSession(r), UNCHANGED <<code, linked>>
    PROVE  RowsGood /\ profile' = profile
<1>1. UNCHANGED <<user, password, factored, profile, staff, code, linked>>
  BY DEF InsertSession
<1>2. CASE UNCHANGED session
  BY <1>1, <1>2, RowsStay DEF rows
<1>3. ASSUME NEW s \in SessionIds, session[s].state = "free", Exists(call[r].u),
             session' = [session EXCEPT ![s] =
                            [state |-> "open", user |-> call[r].u, via |-> call[r].token]]
      PROVE  RowsGood
  <2>1. call[r].token \in Tokens \cup {NoToken} /\ call[r].u \in Users /\ user[call[r].u].state = "row"
    BY <1>3, CallIs DEF Call, Exists
  <2>2. session' \in [SessionIds -> Session] /\ session'[s].state = "open"
        /\ session'[s].user = call[r].u /\ \A t \in SessionIds : t # s => session'[t] = session[t]
    BY <1>3, <2>1 DEF Session, Inv, TypeOK, AccountsTypeOK
  <2>3. RowTypes'
    BY <1>1, <2>2 DEF Inv, TypeOK, AccountsTypeOK, LinksTypeOK, OAuthTypeOK, RowTypes
  <2>4. Keyed'
    BY <1>1, <1>3, <2>1, <2>2 DEF Inv, Keyed, Exists, Usable
  <2>5. Grown
    BY <1>1, <1>3, <2>2 DEF Grown
  <2> QED BY <2>3, <2>4, <2>5 DEF RowsGood
<1>4. \/ UNCHANGED session
      \/ /\ Exists(call[r].u)
         /\ \E s \in SessionIds :
               /\ session[s].state = "free"
               /\ session' = [session EXCEPT ![s] =
                                 [state |-> "open", user |-> call[r].u, via |-> call[r].token]]
  BY Zenon DEF InsertSession
<1> QED BY <1>1, <1>2, <1>3, <1>4

LEMMA DeleteUserRows ==
    ASSUME Inv, NEW r \in Requests, DeleteUser(r), UNCHANGED <<code, linked>>
    PROVE  RowsGood /\ profile' = profile
<1> DEFINE v == call[r].u
<1>1. v \in Users /\ user[v].state # "free"
  BY CallIs DEF DeleteUser, Flowing, HasUser, Unknown
<1>2. UNCHANGED <<profile, staff, code, linked>>
  BY DEF DeleteUser
<1>9. CASE UNCHANGED <<user, password, factored, session>>
  BY <1>2, <1>9, RowsStay DEF rows
<1> SUFFICES ASSUME ~UNCHANGED <<user, password, factored, session>>
             PROVE  RowsGood /\ profile' = profile
  BY <1>9
<1>3. /\ user' = [user EXCEPT ![v].state = "gone"] /\ password' = password \ {v}
      /\ factored' = factored \ {v} /\ SetSessions(SessionsOf(v), "gone")
  BY DEF DeleteUser
<1> HIDE DEF v
<1>4. /\ user' \in [Users -> User] /\ user'[v].state = "gone"
      /\ \A u \in Users : u # v => user'[u] = user[u]
  BY <1>1, <1>3 DEF Inv, TypeOK, AccountsTypeOK, User
<1>5. /\ session' \in [SessionIds -> Session]
      /\ \A s \in SessionIds :
            /\ session'[s].user = session[s].user /\ session'[s].via = session[s].via
            /\ session[s].user = v => session'[s].state = "gone"
            /\ session[s].user # v => session'[s].state = session[s].state
  BY <1>3 DEF Inv, TypeOK, AccountsTypeOK, Session, SetSessions, SessionsOf
<1>6. RowTypes'
  BY <1>2, <1>3, <1>4, <1>5 DEF Inv, TypeOK, AccountsTypeOK, LinksTypeOK, OAuthTypeOK, RowTypes
<1>7. Keyed'
  BY <1>1, <1>2, <1>3, <1>4, <1>5 DEF Inv, TypeOK, AccountsTypeOK, OAuthTypeOK, Keyed, Exists, Usable
<1>8. Grown
  BY <1>1, <1>2, <1>4, <1>5 DEF Grown
<1> QED BY <1>2, <1>6, <1>7, <1>8 DEF RowsGood

LEMMA BurnCodeRows ==
    ASSUME Inv, NEW r \in Requests, BurnCode(r), UNCHANGED linked
    PROVE  RowsGood /\ profile' = profile
<1> DEFINE k == call[r].token
<1>1. k \in Codes
  <2>1. AtHome(call[r]) /\ Flowing(call[r]) /\ call[r].at = "burn"
    BY CallIs DEF BurnCode
  <2>2. call[r].op = "exchange"
    BY <2>1 DEF AtHome, Ending, Rollback
  <2> QED BY <2>1, <2>2 DEF Flowing, TokensOf
<1>2. UNCHANGED <<user, password, factored, profile, staff, session, linked>>
  BY DEF BurnCode, rows
<1>3. UNCHANGED code \/ (code[k].state = "open" /\ code' = [code EXCEPT ![k].state = "spent"])
  BY Zenon DEF BurnCode
<1> HIDE DEF k
<1>4. /\ code' \in [Codes -> Code]
      /\ \A j \in Codes : code'[j].s = code[j].s /\ (code[j].state = "none" => code'[j].state = "none")
  BY <1>1, <1>3 DEF Inv, TypeOK, LinksTypeOK, Code
<1>5. RowTypes'
  BY <1>2, <1>4 DEF Inv, TypeOK, AccountsTypeOK, LinksTypeOK, OAuthTypeOK, RowTypes
<1>6. Keyed'
  BY <1>2, <1>4 DEF Inv, Keyed, Exists, Usable
<1>7. Grown
  BY <1>2 DEF Grown
<1> QED BY <1>2, <1>5, <1>6, <1>7 DEF RowsGood

LEMMA HandlerGood ==
    ASSUME NEW r \in Requests, call' \in [Requests -> Call] /\ Alone(r) /\ Moves(r),
           RowsGood /\ (Signed(r) \/ profile' = profile), BoxTypes'
    PROVE  Good
BY DEF Good, Signed

LEMMA BystanderGood ==
    ASSUME Inv, RowsGood /\ profile' = profile, BoxTypes', UNCHANGED call
    PROVE  Good
BY CallIs DEF Good

\* Every step is Good.
LEMMA AccountStepGood ==
    ASSUME Inv, Facts, AccountStep, UNCHANGED <<linkVars, oauthVars, inviteVars>>
    PROVE  Good
<1>0. UNCHANGED <<link, code, state, linked, invite>> /\ BoxTypes'
  <2>1. UNCHANGED <<link, code, state, linked, invite>>
    BY DEF linkVars, oauthVars, inviteVars
  <2> QED BY <2>1 DEF Inv, TypeOK, LinksTypeOK, OAuthTypeOK, InvitesTypeOK, BoxTypes
<1>1. ASSUME NEW u \in Users, NEW status \in Statuses, HostSetStatus(u, status)
      PROVE  Good
  <2>1. RowsGood /\ profile' = profile /\ UNCHANGED call
    BY <1>0, <1>1, HostSetStatusRows DEF HostSetStatus
  <2> QED BY <1>1, <2>1, <1>0, BystanderGood
<1>2. ASSUME NEW u \in Users, Promote(u)
      PROVE  Good
  <2>1. RowsGood /\ profile' = profile /\ UNCHANGED call
    BY <1>0, <1>2, PromoteRows DEF Promote
  <2> QED BY <1>2, <2>1, <1>0, BystanderGood
<1>3. ASSUME NEW s \in SessionIds, Enrol(s)
      PROVE  Good
  <2>1. RowsGood /\ profile' = profile /\ UNCHANGED call
    BY <1>0, <1>3, EnrolRows DEF Enrol
  <2> QED BY <1>3, <2>1, <1>0, BystanderGood
<1>4. ASSUME NEW r \in Requests, NEW a \in config.addresses, Signup(r, a)
      PROVE  Good
  <2>1. call' \in [Requests -> Call] /\ Alone(r) /\ Moves(r)
    BY <1>4, SignupMoves
  <2>2. RowsGood /\ (Signed(r) \/ profile' = profile)
    BY <1>0, <1>4, RowsStay DEF Signup
  <2> QED BY <1>0, <1>4, <2>1, <2>2, HandlerGood
<1>5. ASSUME NEW r \in Requests, Taken(r)
      PROVE  Good
  <2>1. call' \in [Requests -> Call] /\ Alone(r) /\ Moves(r)
    BY <1>5, TakenMoves
  <2>2. RowsGood /\ (Signed(r) \/ profile' = profile)
    BY <1>0, <1>5, RowsStay DEF Taken
  <2> QED BY <1>0, <1>5, <2>1, <2>2, HandlerGood
<1>6. ASSUME NEW r \in Requests, InsertUser(r)
      PROVE  Good
  <2>1. call' \in [Requests -> Call] /\ Alone(r) /\ Moves(r)
    BY <1>6, InsertUserMoves
  <2>2. RowsGood /\ (Signed(r) \/ profile' = profile)
    BY <1>0, <1>6, InsertUserRows
  <2> QED BY <1>0, <1>6, <2>1, <2>2, HandlerGood
<1>7. ASSUME NEW r \in Requests, InsertCredential(r)
      PROVE  Good
  <2>1. call' \in [Requests -> Call] /\ Alone(r) /\ Moves(r)
    BY <1>7, InsertCredentialMoves DEF Facts
  <2>2. RowsGood /\ (Signed(r) \/ profile' = profile)
    BY <1>0, <1>7, InsertCredentialRows
  <2> QED BY <1>0, <1>7, <2>1, <2>2, HandlerGood
<1>8. ASSUME NEW r \in Requests, InsertProfile(r)
      PROVE  Good
  <2>1. call' \in [Requests -> Call] /\ Alone(r) /\ Moves(r)
    BY <1>8, InsertProfileMoves DEF Facts
  <2>2. RowsGood /\ (Signed(r) \/ profile' = profile)
    BY <1>0, <1>8, InsertProfileRows
  <2> QED BY <1>0, <1>8, <2>1, <2>2, HandlerGood
<1>9. ASSUME NEW r \in Requests, Mark(r)
      PROVE  Good
  <2>1. call' \in [Requests -> Call] /\ Alone(r) /\ Moves(r)
    BY <1>9, MarkMoves
  <2>2. RowsGood /\ (Signed(r) \/ profile' = profile)
    BY <1>0, <1>9, MarkRows
  <2> QED BY <1>0, <1>9, <2>1, <2>2, HandlerGood
<1>10. ASSUME NEW r \in Requests, InsertSession(r)
      PROVE  Good
  <2>1. call' \in [Requests -> Call] /\ Alone(r) /\ Moves(r)
    BY <1>10, InsertSessionMoves
  <2>2. RowsGood /\ (Signed(r) \/ profile' = profile)
    BY <1>0, <1>10, InsertSessionRows
  <2> QED BY <1>0, <1>10, <2>1, <2>2, HandlerGood
<1>11. ASSUME NEW r \in Requests, OnSignup(r)
      PROVE  Good
  <2>1. call' \in [Requests -> Call] /\ Alone(r) /\ Moves(r)
    BY <1>11, OnSignupMoves
  <2>2. RowsGood /\ (Signed(r) \/ profile' = profile)
    BY <1>0, <1>11, RowsStay DEF OnSignup
  <2> QED BY <1>0, <1>11, <2>1, <2>2, HandlerGood
<1>12. ASSUME NEW r \in Requests, DeleteProfile(r)
      PROVE  Good
  <2>1. call' \in [Requests -> Call] /\ Alone(r) /\ Moves(r)
    BY <1>12, DeleteProfileMoves DEF Facts
  <2>2. RowsGood /\ (Signed(r) \/ profile' = profile)
    BY <1>0, <1>12, DeleteProfileRows
  <2> QED BY <1>0, <1>12, <2>1, <2>2, HandlerGood
<1>13. ASSUME NEW r \in Requests, DeleteCredential(r)
      PROVE  Good
  <2>1. call' \in [Requests -> Call] /\ Alone(r) /\ Moves(r)
    BY <1>13, DeleteCredentialMoves DEF Facts
  <2>2. RowsGood /\ (Signed(r) \/ profile' = profile)
    BY <1>0, <1>13, DeleteCredentialRows
  <2> QED BY <1>0, <1>13, <2>1, <2>2, HandlerGood
<1>14. ASSUME NEW r \in Requests, DeleteUser(r)
      PROVE  Good
  <2>1. call' \in [Requests -> Call] /\ Alone(r) /\ Moves(r)
    BY <1>14, DeleteUserMoves DEF Facts
  <2>2. RowsGood /\ (Signed(r) \/ profile' = profile)
    BY <1>0, <1>14, DeleteUserRows
  <2> QED BY <1>0, <1>14, <2>1, <2>2, HandlerGood
<1>15. ASSUME NEW r \in Requests, Second(r)
      PROVE  Good
  <2>1. call' \in [Requests -> Call] /\ Alone(r) /\ Moves(r)
    BY <1>15, SecondMoves
  <2>2. RowsGood /\ (Signed(r) \/ profile' = profile)
    BY <1>0, <1>15, RowsStay DEF Second
  <2> QED BY <1>0, <1>15, <2>1, <2>2, HandlerGood
<1>16. ASSUME NEW r \in Requests, Pend(r)
      PROVE  Good
  <2>1. call' \in [Requests -> Call] /\ Alone(r) /\ Moves(r)
    BY <1>16, PendMoves
  <2>2. RowsGood /\ (Signed(r) \/ profile' = profile)
    BY <1>0, <1>16, PendRows
  <2> QED BY <1>0, <1>16, <2>1, <2>2, HandlerGood
<1>17. ASSUME NEW r \in Requests, OnLogin(r)
      PROVE  Good
  <2>1. call' \in [Requests -> Call] /\ Alone(r) /\ Moves(r)
    BY <1>17, OnLoginMoves
  <2>2. RowsGood /\ (Signed(r) \/ profile' = profile)
    BY <1>0, <1>17, RowsStay DEF OnLogin
  <2> QED BY <1>0, <1>17, <2>1, <2>2, HandlerGood
<1>18. ASSUME NEW r \in Requests, Revoke(r)
      PROVE  Good
  <2>1. call' \in [Requests -> Call] /\ Alone(r) /\ Moves(r)
    BY <1>18, RevokeMoves
  <2>2. RowsGood /\ (Signed(r) \/ profile' = profile)
    BY <1>0, <1>18, RevokeRows
  <2> QED BY <1>0, <1>18, <2>1, <2>2, HandlerGood
<1>19. ASSUME NEW r \in Requests, Leave(r)
      PROVE  Good
  <2>1. call' \in [Requests -> Call] /\ Alone(r) /\ Moves(r)
    BY <1>19, LeaveMoves
  <2>2. RowsGood /\ (Signed(r) \/ profile' = profile)
    BY <1>0, <1>19, RowsStay DEF Leave
  <2> QED BY <1>0, <1>19, <2>1, <2>2, HandlerGood
<1> QED BY <1>1, <1>2, <1>3, <1>4, <1>5, <1>6, <1>7, <1>8, <1>9, <1>10, <1>11, <1>12, <1>13, <1>14, <1>15, <1>16, <1>17, <1>18, <1>19 DEF AccountStep, Others, Create, SignInTail

LEMMA LinkStepGood ==
    ASSUME Inv, Facts, LinkStep, UNCHANGED <<oauthVars, inviteVars>>
    PROVE  Good
<1>0. UNCHANGED <<state, linked, invite>>
  BY DEF oauthVars, inviteVars
<1>1. ASSUME link' \in [Links -> Link]
      PROVE  BoxTypes'
  BY <1>0, <1>1 DEF Inv, TypeOK, OAuthTypeOK, InvitesTypeOK, BoxTypes
<1>2. link \in [Links -> Link] /\ code \in [Codes -> Code] /\ config.addresses \subseteq Addresses
  BY ConfigAssumption DEF Inv, TypeOK, AccountsTypeOK, LinksTypeOK, Config
<1>3. ASSUME NEW l \in Links, NEW a \in config.addresses, Issue(l, a)
      PROVE  Good
  <2>1. RowsGood /\ profile' = profile /\ UNCHANGED call
    BY <1>0, <1>3, RowsStay DEF Issue, linkVars
  <2>2. link' \in [Links -> Link]
    BY <1>2, <1>3 DEF Issue, Link
  <2> QED BY <1>1, <2>2, <1>3, <2>1, <1>0, BystanderGood
<1>4. CASE Lapse
  <2>1. RowsGood /\ profile' = profile /\ UNCHANGED call
    BY <1>0, <1>4, LapseRows DEF Lapse
  <2>2. link' \in [Links -> Link]
    BY <1>2, <1>4 DEF Lapse, Link
  <2> QED BY <1>1, <2>2, <1>4, <2>1, <1>0, BystanderGood
<1>5. ASSUME NEW r \in Requests, NEW l \in Links, Click(r, l)
      PROVE  Good
  <2>1. call' \in [Requests -> Call] /\ Alone(r) /\ Moves(r)
    BY <1>5, ClickMoves
  <2>2. RowsGood /\ (Signed(r) \/ profile' = profile)
    BY <1>0, <1>5, RowsStay DEF Click, linkVars
  <2>3. UNCHANGED link
    BY <1>5 DEF Click, linkVars
  <2> QED BY <1>1, <1>2, <2>3, <1>0, <1>5, <2>1, <2>2, HandlerGood
<1>6. ASSUME NEW r \in Requests, NEW k \in Codes, Exchange(r, k)
      PROVE  Good
  <2>1. call' \in [Requests -> Call] /\ Alone(r) /\ Moves(r)
    BY <1>6, ExchangeMoves
  <2>2. RowsGood /\ (Signed(r) \/ profile' = profile)
    BY <1>0, <1>6, RowsStay DEF Exchange, linkVars
  <2>3. UNCHANGED link
    BY <1>6 DEF Exchange, linkVars
  <2> QED BY <1>1, <1>2, <2>3, <1>0, <1>6, <2>1, <2>2, HandlerGood
<1>7. ASSUME NEW r \in Requests, ConsumeLink(r)
      PROVE  Good
  <2>1. call' \in [Requests -> Call] /\ Alone(r) /\ Moves(r)
    BY <1>7, ConsumeLinkMoves
  <2>2. RowsGood /\ (Signed(r) \/ profile' = profile)
    BY <1>0, <1>7, RowsStay DEF ConsumeLink, linkVars
  <2>3. link' \in [Links -> Link]
    BY <1>2, <1>7 DEF ConsumeLink, Link
  <2> QED BY <1>1, <2>3, <1>0, <1>7, <2>1, <2>2, HandlerGood
<1>8. ASSUME NEW r \in Requests, Find(r)
      PROVE  Good
  <2>1. call' \in [Requests -> Call] /\ Alone(r) /\ Moves(r)
    BY <1>8, FindMoves
  <2>2. RowsGood /\ (Signed(r) \/ profile' = profile)
    BY <1>0, <1>8, RowsStay DEF Find, linkVars
  <2>3. UNCHANGED link
    BY <1>8 DEF Find, linkVars
  <2> QED BY <1>1, <1>2, <2>3, <1>0, <1>8, <2>1, <2>2, HandlerGood
<1>9. ASSUME NEW r \in Requests, Again(r)
      PROVE  Good
  <2>1. call' \in [Requests -> Call] /\ Alone(r) /\ Moves(r)
    BY <1>9, AgainMoves
  <2>2. RowsGood /\ (Signed(r) \/ profile' = profile)
    BY <1>0, <1>9, RowsStay DEF Again, linkVars
  <2>3. UNCHANGED link
    BY <1>9 DEF Again, linkVars
  <2> QED BY <1>1, <1>2, <2>3, <1>0, <1>9, <2>1, <2>2, HandlerGood
<1>10. ASSUME NEW r \in Requests, Reread(r)
      PROVE  Good
  <2>1. call' \in [Requests -> Call] /\ Alone(r) /\ Moves(r)
    BY <1>10, RereadMoves
  <2>2. RowsGood /\ (Signed(r) \/ profile' = profile)
    BY <1>0, <1>10, RowsStay DEF Reread, linkVars
  <2>3. UNCHANGED link
    BY <1>10 DEF Reread, linkVars
  <2> QED BY <1>1, <1>2, <2>3, <1>0, <1>10, <2>1, <2>2, HandlerGood
<1>11. ASSUME NEW r \in Requests, CheckStaff(r)
      PROVE  Good
  <2>1. call' \in [Requests -> Call] /\ Alone(r) /\ Moves(r)
    BY <1>11, CheckStaffMoves
  <2>2. RowsGood /\ (Signed(r) \/ profile' = profile)
    BY <1>0, <1>11, RowsStay DEF CheckStaff, linkVars
  <2>3. UNCHANGED link
    BY <1>11 DEF CheckStaff, linkVars
  <2> QED BY <1>1, <1>2, <2>3, <1>0, <1>11, <2>1, <2>2, HandlerGood
<1>12. ASSUME NEW r \in Requests, CheckPassword(r)
      PROVE  Good
  <2>1. call' \in [Requests -> Call] /\ Alone(r) /\ Moves(r)
    BY <1>12, CheckPasswordMoves
  <2>2. RowsGood /\ (Signed(r) \/ profile' = profile)
    BY <1>0, <1>12, RowsStay DEF CheckPassword, linkVars
  <2>3. UNCHANGED link
    BY <1>12 DEF CheckPassword, linkVars
  <2> QED BY <1>1, <1>2, <2>3, <1>0, <1>12, <2>1, <2>2, HandlerGood
<1>13. ASSUME NEW r \in Requests, Sweep(r)
      PROVE  Good
  <2>1. call' \in [Requests -> Call] /\ Alone(r) /\ Moves(r)
    BY <1>13, SweepMoves
  <2>2. RowsGood /\ (Signed(r) \/ profile' = profile)
    BY <1>0, <1>13, SweepRows DEF Sweep
  <2>3. UNCHANGED link
    BY <1>13 DEF Sweep, linkVars
  <2> QED BY <1>1, <1>2, <2>3, <1>0, <1>13, <2>1, <2>2, HandlerGood
<1>14. ASSUME NEW r \in Requests, RemovePassword(r)
      PROVE  Good
  <2>1. call' \in [Requests -> Call] /\ Alone(r) /\ Moves(r)
    BY <1>14, RemovePasswordMoves
  <2>2. RowsGood /\ (Signed(r) \/ profile' = profile)
    BY <1>0, <1>14, RemovePasswordRows DEF RemovePassword
  <2>3. UNCHANGED link
    BY <1>14 DEF RemovePassword, linkVars
  <2> QED BY <1>1, <1>2, <2>3, <1>0, <1>14, <2>1, <2>2, HandlerGood
<1>15. ASSUME NEW r \in Requests, RemoveFactors(r)
      PROVE  Good
  <2>1. call' \in [Requests -> Call] /\ Alone(r) /\ Moves(r)
    BY <1>15, RemoveFactorsMoves
  <2>2. RowsGood /\ (Signed(r) \/ profile' = profile)
    BY <1>0, <1>15, RemoveFactorsRows DEF RemoveFactors
  <2>3. UNCHANGED link
    BY <1>15 DEF RemoveFactors, linkVars
  <2> QED BY <1>1, <1>2, <2>3, <1>0, <1>15, <2>1, <2>2, HandlerGood
<1>16. ASSUME NEW r \in Requests, CreateCode(r)
      PROVE  Good
  <2>1. call' \in [Requests -> Call] /\ Alone(r) /\ Moves(r)
    BY <1>16, CreateCodeMoves
  <2>2. RowsGood /\ (Signed(r) \/ profile' = profile)
    BY <1>0, <1>16, CreateCodeRows
  <2>3. UNCHANGED link
    BY <1>16 DEF CreateCode, linkVars
  <2> QED BY <1>1, <1>2, <2>3, <1>0, <1>16, <2>1, <2>2, HandlerGood
<1>17. ASSUME NEW r \in Requests, BurnCode(r)
      PROVE  Good
  <2>1. call' \in [Requests -> Call] /\ Alone(r) /\ Moves(r)
    BY <1>17, BurnCodeMoves
  <2>2. RowsGood /\ (Signed(r) \/ profile' = profile)
    BY <1>0, <1>17, BurnCodeRows
  <2>3. UNCHANGED link
    BY <1>17 DEF BurnCode, linkVars
  <2> QED BY <1>1, <1>2, <2>3, <1>0, <1>17, <2>1, <2>2, HandlerGood
<1>18. ASSUME NEW r \in Requests, IssueToken(r)
      PROVE  Good
  <2>1. call' \in [Requests -> Call] /\ Alone(r) /\ Moves(r)
    BY <1>18, IssueTokenMoves
  <2>2. RowsGood /\ (Signed(r) \/ profile' = profile)
    BY <1>0, <1>18, RowsStay DEF IssueToken, linkVars
  <2>3. UNCHANGED link
    BY <1>18 DEF IssueToken, linkVars
  <2> QED BY <1>1, <1>2, <2>3, <1>0, <1>18, <2>1, <2>2, HandlerGood
<1>19. ASSUME NEW r \in Requests, CheckStatus(r)
      PROVE  Good
  <2>1. call' \in [Requests -> Call] /\ Alone(r) /\ Moves(r)
    BY <1>19, CheckStatusMoves
  <2>2. RowsGood /\ (Signed(r) \/ profile' = profile)
    BY <1>0, <1>19, RowsStay DEF CheckStatus, linkVars
  <2>3. UNCHANGED link
    BY <1>19 DEF CheckStatus, linkVars
  <2> QED BY <1>1, <1>2, <2>3, <1>0, <1>19, <2>1, <2>2, HandlerGood
<1> QED BY <1>3, <1>4, <1>5, <1>6, <1>7, <1>8, <1>9, <1>10, <1>11, <1>12, <1>13, <1>14, <1>15, <1>16, <1>17, <1>18, <1>19 DEF LinkStep

LEMMA OAuthStepGood ==
    ASSUME Inv, Facts, OAuthStep, UNCHANGED <<linkVars, inviteVars>>
    PROVE  Good
<1>0. UNCHANGED <<link, code, invite>>
  BY DEF linkVars, inviteVars
<1>1. ASSUME state' \in [States -> {"none", "open", "spent", "lapsed"}]
      PROVE  BoxTypes'
  BY <1>0, <1>1 DEF Inv, TypeOK, LinksTypeOK, InvitesTypeOK, BoxTypes
<1>2. state \in [States -> {"none", "open", "spent", "lapsed"}]
  BY DEF Inv, TypeOK, OAuthTypeOK
<1>3. ASSUME NEW t \in States, AuthURL(t)
      PROVE  Good
  <2>1. RowsGood /\ profile' = profile /\ UNCHANGED call
    BY <1>0, <1>3, RowsStay DEF AuthURL, oauthVars
  <2>2. state' \in [States -> {"none", "open", "spent", "lapsed"}]
    BY <1>2, <1>3 DEF AuthURL
  <2> QED BY <1>1, <2>2, <1>3, <2>1, <1>0, BystanderGood
<1>4. ASSUME NEW t \in States, StateLapses(t)
      PROVE  Good
  <2>1. RowsGood /\ profile' = profile /\ UNCHANGED call
    BY <1>0, <1>4, RowsStay DEF StateLapses, oauthVars
  <2>2. state' \in [States -> {"none", "open", "spent", "lapsed"}]
    BY <1>2, <1>4 DEF StateLapses
  <2> QED BY <1>1, <2>2, <1>4, <2>1, <1>0, BystanderGood
<1>5. ASSUME NEW r \in Requests, NEW t \in States, Callback(r, t)
      PROVE  Good
  <2>1. call' \in [Requests -> Call] /\ Alone(r) /\ Moves(r)
    BY <1>5, CallbackMoves
  <2>2. RowsGood /\ (Signed(r) \/ profile' = profile)
    BY <1>0, <1>5, RowsStay DEF Callback, oauthVars
  <2>3. UNCHANGED state
    BY <1>5 DEF Callback, oauthVars
  <2> QED BY <1>1, <1>2, <2>3, <1>0, <1>5, <2>1, <2>2, HandlerGood
<1>6. ASSUME NEW r \in Requests, ConsumeState(r)
      PROVE  Good
  <2>1. call' \in [Requests -> Call] /\ Alone(r) /\ Moves(r)
    BY <1>6, ConsumeStateMoves
  <2>2. RowsGood /\ (Signed(r) \/ profile' = profile)
    BY <1>0, <1>6, RowsStay DEF ConsumeState, oauthVars
  <2>3. state' \in [States -> {"none", "open", "spent", "lapsed"}]
    BY <1>2, <1>6 DEF ConsumeState
  <2> QED BY <1>1, <2>3, <1>0, <1>6, <2>1, <2>2, HandlerGood
<1>7. ASSUME NEW r \in Requests, Identify(r)
      PROVE  Good
  <2>1. call' \in [Requests -> Call] /\ Alone(r) /\ Moves(r)
    BY <1>7, IdentifyMoves
  <2>2. RowsGood /\ (Signed(r) \/ profile' = profile)
    BY <1>0, <1>7, RowsStay DEF Identify, oauthVars
  <2>3. UNCHANGED state
    BY <1>7 DEF Identify, oauthVars
  <2> QED BY <1>1, <1>2, <2>3, <1>0, <1>7, <2>1, <2>2, HandlerGood
<1>8. ASSUME NEW r \in Requests, Lookup(r)
      PROVE  Good
  <2>1. call' \in [Requests -> Call] /\ Alone(r) /\ Moves(r)
    BY <1>8, LookupMoves
  <2>2. RowsGood /\ (Signed(r) \/ profile' = profile)
    BY <1>0, <1>8, RowsStay DEF Lookup, oauthVars
  <2>3. UNCHANGED state
    BY <1>8 DEF Lookup, oauthVars
  <2> QED BY <1>1, <1>2, <2>3, <1>0, <1>8, <2>1, <2>2, HandlerGood
<1>9. ASSUME NEW r \in Requests, Match(r)
      PROVE  Good
  <2>1. call' \in [Requests -> Call] /\ Alone(r) /\ Moves(r)
    BY <1>9, MatchMoves
  <2>2. RowsGood /\ (Signed(r) \/ profile' = profile)
    BY <1>0, <1>9, RowsStay DEF Match, oauthVars
  <2>3. UNCHANGED state
    BY <1>9 DEF Match, oauthVars
  <2> QED BY <1>1, <1>2, <2>3, <1>0, <1>9, <2>1, <2>2, HandlerGood
<1>10. ASSUME NEW r \in Requests, InsertLink(r)
      PROVE  Good
  <2>1. call' \in [Requests -> Call] /\ Alone(r) /\ Moves(r)
    BY <1>10, InsertLinkMoves
  <2>2. RowsGood /\ (Signed(r) \/ profile' = profile)
    BY <1>0, <1>10, InsertLinkRows
  <2>3. UNCHANGED state
    BY <1>10 DEF InsertLink, oauthVars
  <2> QED BY <1>1, <1>2, <2>3, <1>0, <1>10, <2>1, <2>2, HandlerGood
<1>11. ASSUME NEW r \in Requests, Look(r)
      PROVE  Good
  <2>1. call' \in [Requests -> Call] /\ Alone(r) /\ Moves(r)
    BY <1>11, LookMoves
  <2>2. RowsGood /\ (Signed(r) \/ profile' = profile)
    BY <1>0, <1>11, RowsStay DEF Look, oauthVars
  <2>3. UNCHANGED state
    BY <1>11 DEF Look, oauthVars
  <2> QED BY <1>1, <1>2, <2>3, <1>0, <1>11, <2>1, <2>2, HandlerGood
<1>12. ASSUME NEW r \in Requests, Greet(r)
      PROVE  Good
  <2>1. call' \in [Requests -> Call] /\ Alone(r) /\ Moves(r)
    BY <1>12, GreetMoves
  <2>2. RowsGood /\ (Signed(r) \/ profile' = profile)
    BY <1>0, <1>12, RowsStay DEF Greet, oauthVars
  <2>3. UNCHANGED state
    BY <1>12 DEF Greet, oauthVars
  <2> QED BY <1>1, <1>2, <2>3, <1>0, <1>12, <2>1, <2>2, HandlerGood
<1>13. ASSUME NEW r \in Requests, CheckLocked(r)
      PROVE  Good
  <2>1. call' \in [Requests -> Call] /\ Alone(r) /\ Moves(r)
    BY <1>13, CheckLockedMoves
  <2>2. RowsGood /\ (Signed(r) \/ profile' = profile)
    BY <1>0, <1>13, RowsStay DEF CheckLocked, oauthVars
  <2>3. UNCHANGED state
    BY <1>13 DEF CheckLocked, oauthVars
  <2> QED BY <1>1, <1>2, <2>3, <1>0, <1>13, <2>1, <2>2, HandlerGood
<1>14. ASSUME NEW r \in Requests, CompleteTenancy(r)
      PROVE  Good
  <2>1. call' \in [Requests -> Call] /\ Alone(r) /\ Moves(r)
    BY <1>14, CompleteTenancyMoves
  <2>2. RowsGood /\ (Signed(r) \/ profile' = profile)
    BY <1>0, <1>14, RowsStay DEF CompleteTenancy, oauthVars
  <2>3. UNCHANGED state
    BY <1>14 DEF CompleteTenancy, oauthVars
  <2> QED BY <1>1, <1>2, <2>3, <1>0, <1>14, <2>1, <2>2, HandlerGood
<1> QED BY <1>3, <1>4, <1>5, <1>6, <1>7, <1>8, <1>9, <1>10, <1>11, <1>12, <1>13, <1>14 DEF OAuthStep

LEMMA InviteStepGood ==
    ASSUME Inv, Facts, InviteStep, UNCHANGED <<linkVars, oauthVars>>
    PROVE  Good
<1>0. UNCHANGED <<link, code, state, linked>>
  BY DEF linkVars, oauthVars
<1>1. ASSUME invite' \in [Invites -> Invite]
      PROVE  BoxTypes'
  BY <1>0, <1>1 DEF Inv, TypeOK, LinksTypeOK, OAuthTypeOK, BoxTypes
<1>2. invite \in [Invites -> Invite] /\ config.addresses \subseteq Addresses
  BY ConfigAssumption DEF Inv, TypeOK, AccountsTypeOK, InvitesTypeOK, Config
<1>3. ASSUME NEW i \in Invites, NEW a \in config.addresses, IssueInvite(i, a)
      PROVE  Good
  <2>1. RowsGood /\ profile' = profile /\ UNCHANGED call
    BY <1>0, <1>3, RowsStay DEF IssueInvite
  <2>2. invite' \in [Invites -> Invite]
    BY <1>2, <1>3 DEF IssueInvite, Invite
  <2> QED BY <1>1, <2>2, <1>3, <2>1, <1>0, BystanderGood
<1>4. ASSUME NEW i \in Invites, InviteLapses(i)
      PROVE  Good
  <2>1. RowsGood /\ profile' = profile /\ UNCHANGED call
    BY <1>0, <1>4, RowsStay DEF InviteLapses
  <2>2. invite' \in [Invites -> Invite]
    BY <1>2, <1>4 DEF InviteLapses, Invite
  <2> QED BY <1>1, <2>2, <1>4, <2>1, <1>0, BystanderGood
<1>5. ASSUME NEW i \in Invites, RevokeInvite(i)
      PROVE  Good
  <2>1. RowsGood /\ profile' = profile /\ UNCHANGED call
    BY <1>0, <1>5, RowsStay DEF RevokeInvite
  <2>2. invite' \in [Invites -> Invite]
    BY <1>2, <1>5 DEF RevokeInvite, Invite
  <2> QED BY <1>1, <2>2, <1>5, <2>1, <1>0, BystanderGood
<1>6. ASSUME NEW r \in Requests, NEW i \in Invites, Redeem(r, i)
      PROVE  Good
  <2>1. call' \in [Requests -> Call] /\ Alone(r) /\ Moves(r)
    BY <1>6, RedeemMoves
  <2>2. RowsGood /\ (Signed(r) \/ profile' = profile)
    BY <1>0, <1>6, RowsStay DEF Redeem
  <2>3. UNCHANGED invite
    BY <1>6 DEF Redeem, inviteVars
  <2> QED BY <1>1, <1>2, <2>3, <1>0, <1>6, <2>1, <2>2, HandlerGood
<1>7. ASSUME NEW r \in Requests, Validate(r)
      PROVE  Good
  <2>1. call' \in [Requests -> Call] /\ Alone(r) /\ Moves(r)
    BY <1>7, ValidateMoves
  <2>2. RowsGood /\ (Signed(r) \/ profile' = profile)
    BY <1>0, <1>7, RowsStay DEF Validate
  <2>3. UNCHANGED invite
    BY <1>7 DEF Validate, inviteVars
  <2> QED BY <1>1, <1>2, <2>3, <1>0, <1>7, <2>1, <2>2, HandlerGood
<1>8. ASSUME NEW r \in Requests, AssignRole(r)
      PROVE  Good
  <2>1. call' \in [Requests -> Call] /\ Alone(r) /\ Moves(r)
    BY <1>8, AssignRoleMoves
  <2>2. RowsGood /\ (Signed(r) \/ profile' = profile)
    BY <1>0, <1>8, RowsStay DEF AssignRole
  <2>3. UNCHANGED invite
    BY <1>8 DEF AssignRole, inviteVars
  <2> QED BY <1>1, <1>2, <2>3, <1>0, <1>8, <2>1, <2>2, HandlerGood
<1>9. ASSUME NEW r \in Requests, MarkRedeemed(r)
      PROVE  Good
  <2>1. call' \in [Requests -> Call] /\ Alone(r) /\ Moves(r)
    BY <1>9, MarkRedeemedMoves
  <2>2. RowsGood /\ (Signed(r) \/ profile' = profile)
    BY <1>0, <1>9, RowsStay DEF MarkRedeemed
  <2>3. invite' \in [Invites -> Invite]
    BY <1>2, <1>9 DEF MarkRedeemed, Invite
  <2> QED BY <1>1, <2>3, <1>0, <1>9, <2>1, <2>2, HandlerGood
<1>10. ASSUME NEW r \in Requests, Answer(r)
      PROVE  Good
  <2>1. call' \in [Requests -> Call] /\ Alone(r) /\ Moves(r)
    BY <1>10, AnswerMoves
  <2>2. RowsGood /\ (Signed(r) \/ profile' = profile)
    BY <1>0, <1>10, RowsStay DEF Answer
  <2>3. UNCHANGED invite
    BY <1>10 DEF Answer, inviteVars
  <2> QED BY <1>1, <1>2, <2>3, <1>0, <1>10, <2>1, <2>2, HandlerGood
<1> QED BY <1>3, <1>4, <1>5, <1>6, <1>7, <1>8, <1>9, <1>10 DEF InviteStep

LEMMA StepGood ==
    ASSUME Inv, Facts, Next
    PROVE  Good
BY AccountStepGood, LinkStepGood, OAuthStepGood, InviteStepGood DEF Next, Step

-----------------------------------------------------------------------------
\* The history of a sign-in only shrinks, and never holds what is not so now.

Shrunk(r) ==
    /\ since'[r].staff \subseteq since[r].staff /\ since'[r].inactive \subseteq since[r].inactive
    /\ since'[r].locked \subseteq since[r].locked /\ since'[r].keyed \subseteq since[r].keyed
    /\ since'[r].factored \subseteq since[r].factored /\ since'[r].open \subseteq since[r].open

Current(r) ==
    /\ since'[r].staff \subseteq staff' /\ since'[r].keyed \subseteq password'
    /\ since'[r].factored \subseteq factored'
    /\ \A u \in since'[r].inactive : user'[u].status # "active"
    /\ \A u \in since'[r].locked : user'[u].status = "locked"
    /\ \A s \in since'[r].open : s \in SessionIds /\ session'[s].state \in {"open", "pending"}

LEMMA SinceIs ==
    ASSUME Inv, RowTypes', History, NEW r \in Requests
    PROVE  /\ since'[r] \in Since /\ Current(r)
           /\ call[r].op \in SignIns => Shrunk(r)
<1> DEFINE now == Present'
           kept == [f \in DOMAIN NoSince |-> since[r][f] \cap Present'[f]]
<1>1. since'[r] = IF call'[r].op \notin SignIns \/ call'[r].at = "refused" THEN NoSince
                  ELSE IF call[r].op \notin SignIns THEN now ELSE kept
  BY Zenon DEF History
<1>2. since[r] \in Since
  BY DEF Inv, TypeOK
<1>3. now = [staff |-> staff', inactive |-> {u \in Users : user'[u].status # "active"},
             locked |-> {u \in Users : user'[u].status = "locked"}, keyed |-> password',
             factored |-> factored',
             open |-> {s \in SessionIds : session'[s].state \in {"open", "pending"}}]
  BY DEF Present, Usable
<1>4. /\ now.staff = staff' /\ now.inactive = {u \in Users : user'[u].status # "active"}
      /\ now.locked = {u \in Users : user'[u].status = "locked"} /\ now.keyed = password'
      /\ now.factored = factored'
      /\ now.open = {s \in SessionIds : session'[s].state \in {"open", "pending"}}
  BY <1>3
<1>5. now \in Since
  <2> DEFINE A == {u \in Users : user'[u].status # "active"}
             B == {u \in Users : user'[u].status = "locked"}
             S == {s \in SessionIds : session'[s].state \in {"open", "pending"}}
  <2>1. A \subseteq Users /\ B \subseteq Users /\ S \subseteq SessionIds
    OBVIOUS
  <2>2. staff' \subseteq Users /\ password' \subseteq Users /\ factored' \subseteq Users
    BY DEF RowTypes
  <2>3. now = [staff |-> staff', inactive |-> A, locked |-> B, keyed |-> password',
               factored |-> factored', open |-> S]
    BY <1>3
  <2> HIDE DEF A, B, S, now
  <2> QED BY <2>1, <2>2, <2>3 DEF Since
<1>6. DOMAIN NoSince = {"staff", "inactive", "locked", "keyed", "factored", "open"}
  BY DEF NoSince
<1>7. \A f \in DOMAIN NoSince : kept[f] = since[r][f] \cap now[f]
  OBVIOUS
<1>8. DOMAIN kept = DOMAIN NoSince
  OBVIOUS
<1>9. kept = [f \in DOMAIN NoSince |-> kept[f]]
  OBVIOUS
<1> HIDE DEF now, kept
<1>10. /\ kept.staff = since[r].staff \cap now.staff
       /\ kept.inactive = since[r].inactive \cap now.inactive
       /\ kept.locked = since[r].locked \cap now.locked
       /\ kept.keyed = since[r].keyed \cap now.keyed
       /\ kept.factored = since[r].factored \cap now.factored
       /\ kept.open = since[r].open \cap now.open
  BY <1>6, <1>7
<1>11. kept \in Since
  <2>1. /\ kept.staff \subseteq Users /\ kept.inactive \subseteq Users /\ kept.locked \subseteq Users
        /\ kept.keyed \subseteq Users /\ kept.factored \subseteq Users
        /\ kept.open \subseteq SessionIds
    BY <1>2, <1>10 DEF Since
  <2>2. kept = [f \in {"staff", "inactive", "locked", "keyed", "factored", "open"} |-> kept[f]]
    BY <1>6, <1>9, Zenon
  <2> QED BY <2>1, <2>2, Zenon DEF Since
<1>12. NoSince \in Since /\ NoSince.staff = {} /\ NoSince.inactive = {} /\ NoSince.locked = {}
         /\ NoSince.keyed = {} /\ NoSince.factored = {} /\ NoSince.open = {}
  BY DEF NoSince, Since
<1>13. CASE since'[r] = NoSince
  BY <1>12, <1>13 DEF Current, Shrunk
<1>14. CASE since'[r] = now /\ call[r].op \notin SignIns
  BY <1>4, <1>5, <1>14 DEF Current
<1>15. CASE since'[r] = kept
  <2>1. Current(r)
    BY <1>4, <1>10, <1>15 DEF Current
  <2>2. Shrunk(r)
    BY <1>10, <1>15 DEF Shrunk
  <2> QED BY <1>11, <1>15, <2>1, <2>2
<1> QED BY <1>1, <1>13, <1>14, <1>15

LEMMA SinceTypes ==
    ASSUME Inv, RowTypes', History
    PROVE  since' \in [Requests -> Since] /\ SinceNow'
<1>1. ASSUME NEW r \in Requests
      PROVE  since'[r] \in Since /\ Current(r)
  BY SinceIs
<1>2. since' = [r \in Requests |-> since'[r]]
  BY Zenon DEF History
<1>3. since' \in [Requests -> Since]
  BY <1>1, <1>2
<1>4. SinceNow'
  BY <1>1 DEF SinceNow, Current, Usable
<1> QED BY <1>3, <1>4

LEMMA HandedTypes ==
    ASSUME Inv, History
    PROVE  handed' \in [Grants -> Nat]
<1> DEFINE D(t) == {r \in Requests : Delivers(call[r], t)' /\ call[r].at # "ok"}
<1>1. handed' = [t \in Grants |-> handed[t] + Cardinality(D(t))]
  BY Zenon DEF History
<1>2. handed \in [Grants -> Nat]
  BY DEF Inv, TypeOK
<1>3. ASSUME NEW t \in Grants
      PROVE  Cardinality(D(t)) \in Nat
  <2>1. D(t) \subseteq Requests
    OBVIOUS
  <2> HIDE DEF D
  <2> QED BY <2>1, InstanceAssumption, FS_Subset, FS_CardinalityType
<1> HIDE DEF D
<1> QED BY <1>1, <1>2, <1>3

-----------------------------------------------------------------------------
\* What a step keeps of every handler.

LEMMA FlowStays ==
    ASSUME Inv, NEW q \in Requests, Grown, call'[q] = call[q]
    PROVE  Flowing(call[q])'
<1>1. Flowing(call[q]) /\ call[q] \in Call
  BY CallIs
<1>2. /\ call[q].u \in Users /\ user[call[q].u].state # "free" => user'[call[q].u].state # "free"
      /\ call[q].s \in SessionIds /\ session[call[q].s].state # "free"
            => session'[call[q].s].state # "free"
      /\ call[q].u \in Users \cup {NoUser}
  BY <1>1 DEF Grown, Call
<1> QED BY <1>1, <1>2 DEF Flowing, HasUser, HasSession, AtHome

LEMMA FlowMoves ==
    ASSUME Inv, NEW r \in Requests, Grown, Moves(r)
    PROVE  Flowing(call[r])'
<1>1. Flowing(call[r]) /\ AtHome(call[r])
  BY CallIs
<1>2. CASE Enters(r)
  BY <1>2 DEF Enters, Flowing, HasUser, Unknown, HasSession, AtHome, Ending
<1>3. CASE Leaves(r)
  BY <1>3 DEF Leaves, Flowing, AtHome, HasUser, Unknown, HasSession, TokensOf
<1>4. CASE Refuses(r)
  <2>1. AtHome(call'[r]) /\ ~HasUser(call'[r]) /\ ~HasSession(call'[r])
    BY <1>4 DEF Refuses, Left, AtHome, HasUser, Unknown, HasSession
  <2>2. call'[r].u # NoUser => user'[call'[r].u].state # "free"
    BY <1>1, <1>4, CallIs DEF Refuses, Left, Flowing, Grown, Call
  <2> QED BY <1>4, <2>1, <2>2 DEF Refuses, Left, Flowing, HasUser, HasSession, AtHome
<1>5. CASE Walks(r)
  <2>1. OnAsBefore(call[r], call'[r])
    BY <1>5 DEF Walks
  <2>2. HasUser(call'[r]) => call'[r].u \in Users /\ user'[call'[r].u].state # "free"
    BY <1>1, <2>1 DEF OnAsBefore, Like, Flowing, Grown
  <2>3. HasSession(call'[r]) => call'[r].s \in SessionIds /\ session'[call'[r].s].state # "free"
    BY <1>1, <2>1 DEF OnAsBefore, Like, Flowing, Grown
  <2>4. call'[r].u # NoUser => user'[call'[r].u].state # "free"
    BY <1>1, <2>1, CallIs DEF OnAsBefore, Like, Flowing, Grown, Call
  <2>5. /\ call'[r].token \in TokensOf(call'[r].op)
        /\ call'[r].op = "oauth" /\ call'[r].at \notin {"state", "identify"} => call'[r].who \in Identities
        /\ ~HasUser(call'[r]) /\ call'[r].at # "again" => call'[r].u = NoUser
    BY <1>1, <2>1 DEF OnAsBefore, Like, Flowing
  <2>6. AtHome(call'[r])
    BY <2>1 DEF OnAsBefore
  <2> QED BY <2>2, <2>3, <2>4, <2>5, <2>6 DEF Flowing, HasUser, HasSession, AtHome
<1>6. CASE Mints(r)
  <2>1. /\ call'[r].op = call[r].op /\ call'[r].token = call[r].token /\ call'[r].who = call[r].who
        /\ AtHome(call'[r]) /\ call'[r].u \in Users /\ user'[call'[r].u].state # "free"
        /\ call'[r].at \in {"credential", "profile", "mark"} /\ call[r].at = "insert"
    <3> DEFINE e == [call[r] EXCEPT !.u = call'[r].u]
    <3>1. e.op = call[r].op /\ e.token = call[r].token /\ e.who = call[r].who
      BY CallIs DEF Call
    <3>2. Like(e, call'[r], call'[r].at)
      BY <1>6 DEF Mints
    <3> HIDE DEF e
    <3> QED BY <1>6, <3>1, <3>2 DEF Mints, Like
  <2> QED BY <1>1, <2>1 DEF Flowing, HasUser, Unknown, HasSession, AtHome
<1>7. CASE Turns(r)
  <2>1. ~HasSession(call'[r]) /\ call'[r].at \notin {"again", "state", "identify"}
    BY <1>1, <1>7 DEF Turns, HasSession, SignIns, Signups
  <2>2. HasUser(call'[r]) => call'[r].u \in Users /\ user'[call'[r].u].state # "free"
    BY <1>1, <1>7 DEF Turns, HasUser, Unknown, Flowing, Grown
  <2>3. ~HasUser(call'[r]) => call'[r].u = NoUser
    BY <1>1, <1>7 DEF Turns, HasUser, Unknown, Flowing, SignIns
  <2>4. call'[r].op = "oauth" => call'[r].who \in Identities
    <3>1. call[r].at = "reread" => call[r].op = "click"
      BY <1>1 DEF AtHome, Ending, Rollback
    <3> QED BY <1>1, <1>7, <3>1 DEF Turns, Flowing
  <2>5. AtHome(call'[r]) /\ call'[r].token \in TokensOf(call'[r].op) /\ call[r].at # "refused"
    BY <1>1, <1>7 DEF Turns, Flowing, AtHome, SignIns
  <2> QED BY <2>1, <2>2, <2>3, <2>4, <2>5 DEF Flowing, HasUser, HasSession, AtHome
<1>8. CASE Opens(r)
  <2>1. HasUser(call'[r]) /\ HasUser(call[r])
    BY <1>8 DEF Opens, HasUser, Unknown
  <2>2. call'[r].u \in Users /\ user'[call'[r].u].state # "free"
    BY <1>1, <1>8, <2>1 DEF Opens, Flowing, Grown
  <2> QED BY <1>1, <1>8, <2>1, <2>2 DEF Opens, Flowing, HasUser, HasSession, AtHome
<1>9. CASE Trades(r)
  <2> QED BY <1>1, <1>9, NullAssumption DEF Trades, Flowing, HasUser, Unknown, HasSession, AtHome
<1> QED BY <1>2, <1>3, <1>4, <1>5, <1>6, <1>7, <1>8, <1>9 DEF Moves

LEMMA TypeStep ==
    ASSUME Inv, Good, History, UNCHANGED config
    PROVE  Inv'
<1>1. RowTypes' /\ Keyed' /\ Grown /\ BoxTypes' /\ call' \in [Requests -> Call]
  BY DEF Good, RowsGood
<1>2. since' \in [Requests -> Since] /\ handed' \in [Grants -> Nat]
  BY <1>1, SinceTypes, HandedTypes
<1>3. TypeOK'
  BY <1>1, <1>2 DEF Inv, TypeOK, AccountsTypeOK, LinksTypeOK, OAuthTypeOK, InvitesTypeOK,
                    RowTypes, BoxTypes
<1>4. ASSUME NEW q \in Requests
      PROVE  Flowing(call[q])'
  <2>1. call'[q] = call[q] \/ Moves(q)
    BY DEF Good, Alone
  <2> QED BY <1>1, <2>1, FlowStays, FlowMoves
<1>5. FlowOK'
  BY <1>4 DEF FlowOK
<1> QED BY <1>1, <1>3, <1>5 DEF Inv

\* Nobody else makes the account a handler has made.
LEMMA OwnedStep ==
    ASSUME Inv, Owned, Good
    PROVE  Owned'
<1>1. CASE call' = call
  BY <1>1 DEF Owned, Owns
<1>2. ASSUME NEW r \in Requests, Alone(r), Moves(r)
      PROVE  Owned'
  <2>1. CASE Mints(r)
    <3>1. user[call'[r].u].state = "free"
      BY <2>1 DEF Mints
    <3>2. ASSUME NEW q \in Requests, q # r
          PROVE  ~Owns(call'[q]) \/ call'[q].u # call'[r].u
      <4>1. call'[q] = call[q]
        BY <1>2, <3>2 DEF Alone
      <4>2. call[q].u # NoUser => user[call[q].u].state # "free"
        BY CallIs DEF Flowing
      <4> QED BY <3>1, <4>1, <4>2 DEF Owns
    <3> QED BY <1>2, <3>2 DEF Owned, Owns, Alone
  <2>2. CASE ~Mints(r)
    <3>1. Owns(call'[r]) => Owns(call[r]) /\ call'[r].u = call[r].u
      <4>1. AtHome(call[r]) /\ Flowing(call[r])
        BY CallIs
      <4>2. CASE Enters(r)
        BY <4>2 DEF Enters, Owns
      <4>3. CASE Leaves(r)
        BY <4>3 DEF Leaves, Owns
      <4>4. CASE Refuses(r)
        BY <4>4 DEF Refuses, Left, Owns
      <4>5. CASE Walks(r)
        <5>1. call[r].at = "again" => call[r].op = "click"
          BY <4>1 DEF AtHome, Ending, Rollback
        <5>2. Like(call[r], call'[r], call'[r].at)
          BY <4>5 DEF Walks, HandChecks, OnAsBefore
        <5>3. call[r].at = "again" => call'[r].at = "again" \/ call[r].u = NoUser
          BY <4>1, <4>5, CallIs DEF Walks, HandChecks, OnAsBefore, HasUser, Unknown, Flowing
        <5> QED BY <5>2, <5>3, <5>1 DEF Like, Owns, Signups
      <4>6. CASE Turns(r)
        <5>1. call'[r].op \notin Signups
          BY <4>6 DEF Turns, SignIns, Signups
        <5>2. call'[r].at = "insert" => call'[r].u = NoUser
          BY <4>1, <4>6 DEF Turns, SignIns, Flowing, HasUser, Unknown
        <5>3. call'[r].at # "insert" => call'[r].path # "newcomer"
          BY <4>6 DEF Turns, AtHome, Ending, Rollback
        <5> QED BY <5>1, <5>2, <5>3 DEF Owns
      <4>7. CASE Opens(r)
        BY <4>7 DEF Opens, Owns
      <4>8. CASE Trades(r)
        BY <4>8 DEF Trades, Owns, AtHome, Signups, Ending, Rollback
      <4> QED BY <1>2, <2>2, <4>2, <4>3, <4>4, <4>5, <4>6, <4>7, <4>8 DEF Moves
    <3> QED BY <1>2, <3>1 DEF Owned, Alone
  <2> QED BY <2>1, <2>2
<1> QED BY <1>1, <1>2 DEF Good

\* The facts of a handler that does not move.

LEMMA FactsStay ==
    ASSUME Inv, SinceNow, Facts, NEW q \in Requests, Grown, call'[q] = call[q],
           UNCHANGED config,
           call[q].op \in SignIns => Shrunk(q),
           call[q].op \in Signups /\ call[q].u # NoUser /\ profile[call[q].u] # "signup"
               => profile'[call[q].u] # "signup"
    PROVE  /\ BarredFacts(q)' /\ FactorFacts(q)' /\ IdentityFacts(q)'
           /\ SignupFacts(q)' /\ WipeFacts(q)'
<1>1. Flowing(call[q]) /\ AtHome(call[q]) /\ call[q].u \in Users \cup {NoUser}
  BY CallIs DEF Call
<1>2. BarredFacts(q) /\ FactorFacts(q) /\ IdentityFacts(q) /\ SignupFacts(q) /\ WipeFacts(q)
  BY DEF Facts
<1>3. HasUser(call[q]) /\ Exists(call[q].u)' => Exists(call[q].u)
  BY <1>1, NullAssumption DEF Flowing, Exists, Grown, Inv, TypeOK, AccountsTypeOK, User
<1>4. BarredFacts(q)'
  <2>1. call[q].at = "session" => HasUser(call[q])
    BY DEF HasUser, Unknown
  <2> QED BY <1>2, <1>3, <2>1 DEF BarredFacts, Never, HasUser, HasSession, Shrunk, AllowPasswordAccounts, SignIns
<1>5. FactorFacts(q)'
  <2>1. call[q].op \in SignIns /\ call[q].at \in {"code", "tenancy", "ok"} =>
            call[q].s \in SessionIds /\ session[call[q].s].state # "free"
    BY <1>1 DEF Flowing, HasSession
  <2> QED BY <1>2, <2>1 DEF FactorFacts, Never, Shrunk, Grown
<1>6. IdentityFacts(q)'
  <2>1. call[q].op = "oauth" /\ HasUser(call[q]) => call[q].who \in Identities
    BY <1>1 DEF Flowing, HasUser, Unknown
  <2>2. \A p \in Identities : linked'[p] # linked[p] => ~Exists(linked[p])
    BY DEF Grown
  <2> QED BY <1>2, <1>3, <2>1, <2>2 DEF IdentityFacts, HasUser, Linking
<1>7. SignupFacts(q)'
  <2>1. call[q].u # NoUser /\ user[call[q].u].state = "gone" => user'[call[q].u].state = "gone"
    BY <1>1 DEF Grown
  <2> QED BY <1>2, <2>1 DEF SignupFacts, Never
<1>8. WipeFacts(q)'
  <2>1. call[q].path = "known" => call[q].op \in SignIns \/ call[q].at = "refused" \/ call[q].at = "idle"
    BY <1>1 DEF AtHome, SignIns
  <2>2. ASSUME NEW s \in SessionIds, session'[s].user = call[q].u, s \in since[q].open
        PROVE  session[s].user = call[q].u
    BY <2>2 DEF SinceNow, Usable, Grown
  <2> QED BY <1>2, <2>1, <2>2 DEF WipeFacts, SessionsOf, Shrunk
<1> QED BY <1>4, <1>5, <1>6, <1>7, <1>8

\* The facts of the handler that moves.


LEMMA BarredMoves ==
    ASSUME Inv, Facts, RowTypes', NEW r \in Requests, Grown, History, Moves(r), UNCHANGED config
    PROVE  BarredFacts(r)'
<1>1. Flowing(call[r]) /\ AtHome(call[r]) /\ BarredFacts(r)
  BY CallIs DEF Facts
<1>2. Current(r) /\ (call[r].op \in SignIns => Shrunk(r))
  BY SinceIs
<1>3. AllowPasswordAccounts' = AllowPasswordAccounts
  BY DEF AllowPasswordAccounts
<1>4. CASE Enters(r) \/ Leaves(r) \/ Refuses(r)
  BY <1>4 DEF Enters, Leaves, Refuses, Left, BarredFacts, HasUser, HasSession, Unknown
<1>5. CASE Walks(r)
  <2>1. OnAsBefore(call[r], call'[r]) /\ (call[r].op = "click" => ClickChecks(call[r], call'[r]))
          /\ (call[r].op = "oauth" => OAuthChecks(call[r], call'[r]))
    BY <1>5 DEF Walks
  <2>2. CASE call[r].op = "click"
    <3>1. HasUser(call'[r]) => HasUser(call[r])
      BY <2>1 DEF OnAsBefore
    <3>2. call'[r].u = call[r].u /\ call'[r].op = "click"
      BY <2>1, <2>2 DEF OnAsBefore, Like
    <3>3. Shrunk(r)
      BY <1>2, <2>2 DEF SignIns
    <3> QED BY <1>1, <1>2, <1>3, <2>1, <2>2, <3>1, <3>2, <3>3
            DEF BarredFacts, ClickChecks, Current, Shrunk, HasUser
  <2>3. CASE call[r].op = "oauth"
    <3>1. HasSession(call'[r]) => HasSession(call[r])
      BY <2>1 DEF OnAsBefore
    <3>2. call'[r].u = call[r].u /\ call'[r].op = "oauth"
      BY <2>1, <2>3 DEF OnAsBefore, Like
    <3>3. Shrunk(r)
      BY <1>2, <2>3 DEF SignIns
    <3> SUFFICES ASSUME Never("status")
                 PROVE  /\ call'[r].at = "session" /\ Exists(call[r].u)' => call'[r].u \notin since'[r].locked
                        /\ HasSession(call'[r]) => call'[r].u \notin since'[r].locked
      BY <3>2 DEF BarredFacts, Never, HasSession
    <3>4. call'[r].at = "session" /\ Exists(call[r].u)' => call'[r].u \notin since'[r].locked
      <4>1. CASE ~(call'[r].at = "session" /\ Exists(call[r].u)')
        BY <4>1
      <4>2. CASE call'[r].at = "session" /\ Exists(call[r].u)'
        <5>1. user'[call[r].u].state = "row" => user'[call[r].u].status # "locked"
          BY <2>1, <2>3, <4>2 DEF OAuthChecks, Never
        <5> QED BY <1>2, <3>2, <4>2, <5>1 DEF Current, Exists
      <4> QED BY <4>1, <4>2
    <3>5. HasSession(call[r]) => call[r].u \notin since[r].locked
      BY <1>1, <2>3 DEF BarredFacts
    <3>6. HasSession(call'[r]) => call'[r].u \notin since'[r].locked
      BY <3>1, <3>2, <3>3, <3>5 DEF Shrunk
    <3> QED BY <3>4, <3>6
  <2>4. CASE call[r].op \notin SignIns
    BY <2>1, <2>4 DEF OnAsBefore, Like, BarredFacts, SignIns
  <2> QED BY <2>2, <2>3, <2>4 DEF SignIns
<1>6. CASE Mints(r)
  <2>1. call'[r].at \in {"credential", "profile", "mark"}
    BY <1>6 DEF Mints
  <2>2. call'[r].op = "oauth" => ~HasSession(call'[r]) /\ call'[r].at # "session"
    BY <2>1 DEF HasSession, Signups
  <2> QED BY <1>2, <1>6, <2>1, <2>2 DEF Mints, BarredFacts, Current, HasUser, Exists
<1>7. CASE Turns(r)
  <2>1. ~HasSession(call'[r])
    BY <1>7 DEF Turns, HasSession, SignIns, Signups
  <2>2. CASE call[r].op = "oauth"
    <3>1. call'[r].op = "oauth" /\ call'[r].at # "session"
      <4>1. call[r].at # "reread"
        BY <1>1, <2>2 DEF AtHome, Ending, Rollback
      <4> QED BY <1>7, <2>2, <4>1 DEF Turns
    <3> QED BY <2>1, <3>1 DEF BarredFacts, HasSession
  <2>3. CASE call[r].op = "click"
    <3>1. Shrunk(r) /\ call'[r].op = "click"
      BY <1>2, <1>7, <2>3 DEF SignIns, Turns
    <3>2. CASE call'[r].at = "staff"
      BY <1>2, <1>7, <2>3, <3>1, <3>2 DEF Turns, BarredFacts, Current, HasUser
    <3>3. CASE call[r].at = "reread" /\ call'[r].at = "session" /\ call'[r].u = call[r].u
      BY <1>1, <1>3, <2>3, <3>1, <3>3 DEF BarredFacts, Shrunk, HasUser, Unknown
    <3>4. CASE call'[r].at = "insert"
      BY <3>1, <3>4 DEF BarredFacts, HasUser, Unknown
    <3> QED BY <1>7, <2>3, <3>2, <3>3, <3>4 DEF Turns
  <2> QED BY <1>7, <2>2, <2>3 DEF Turns, SignIns
<1>8. CASE Opens(r)
  <2>1. HasUser(call[r])
    BY <1>8 DEF Opens, HasUser, Unknown
  <2>2. CASE call[r].op \in SignIns
    <3>1. Shrunk(r)
      BY <1>2, <2>2
    <3> QED BY <1>1, <1>3, <1>8, <2>1, <2>2, <3>1 DEF Opens, BarredFacts, Shrunk, HasUser, SignIns, Signups, Never
  <2>3. CASE call[r].op \notin SignIns
    BY <1>8, <2>3 DEF Opens, BarredFacts, SignIns
  <2> QED BY <2>2, <2>3
<1>9. CASE Trades(r)
  BY <1>9 DEF Trades, BarredFacts
<1> QED BY <1>4, <1>5, <1>6, <1>7, <1>8, <1>9 DEF Moves

LEMMA FactorMoves ==
    ASSUME Inv, Facts, RowTypes', NEW r \in Requests, Grown, History, Moves(r), UNCHANGED config
    PROVE  FactorFacts(r)'
<1>1. Flowing(call[r]) /\ AtHome(call[r]) /\ FactorFacts(r)
  BY CallIs DEF Facts
<1>2. Current(r) /\ (call[r].op \in SignIns => Shrunk(r))
  BY SinceIs
<1>3. CASE call'[r].at \notin {"onLogin", "code", "tenancy", "ok"} \/ call'[r].op \notin SignIns
  BY <1>3 DEF FactorFacts
<1>4. CASE Walks(r) /\ call'[r].op \in SignIns
  <2>1. OnAsBefore(call[r], call'[r]) /\ call[r].op = call'[r].op /\ call[r].op \in SignIns
          /\ FactorChecks(call[r], call'[r]) /\ call'[r].u = call[r].u /\ call'[r].s = call[r].s
    BY <1>4 DEF Walks, HandChecks, OnAsBefore, Like
  <2>2. Shrunk(r)
    BY <1>2, <2>1
  <2>3. call[r].at \in {"code", "tenancy"} =>
            call[r].s \in SessionIds /\ session[call[r].s].state # "free"
    BY <1>1 DEF Flowing, HasSession
  <2> QED BY <1>1, <1>2, <2>1, <2>2, <2>3 DEF FactorFacts, FactorChecks, Current, Shrunk, Grown, Never
<1>5. Walks(r) \/ call'[r].at \notin {"onLogin", "code", "tenancy", "ok"} \/ call'[r].op \notin SignIns
  BY DEF Moves, Enters, Leaves, Refuses, Left, Mints, Turns, Opens, Trades, SignIns
<1> QED BY <1>3, <1>4, <1>5

LEMMA IdentityMoves ==
    ASSUME Inv, Facts, RowTypes', NEW r \in Requests, Grown, Moves(r)
    PROVE  IdentityFacts(r)'
<1>1. Flowing(call[r]) /\ AtHome(call[r]) /\ IdentityFacts(r)
  BY CallIs DEF Facts
<1>2. HasUser(call[r]) /\ user'[call[r].u].state = "row" => Exists(call[r].u)
  BY <1>1, NullAssumption DEF Flowing, Exists, Grown, Inv, TypeOK, AccountsTypeOK, User
<1>3. call[r].op = "oauth" /\ HasUser(call[r]) => call[r].who \in Identities
  BY <1>1 DEF Flowing, HasUser, Unknown
<1>4. \A p \in Identities : linked'[p] # linked[p] => ~Exists(linked[p])
  BY DEF Grown
<1>5. CASE Enters(r) \/ Leaves(r) \/ Refuses(r) \/ Trades(r)
  BY <1>5 DEF Enters, Leaves, Refuses, Left, Trades, IdentityFacts, HasUser, Unknown
<1>6. CASE Walks(r)
  <2>1. OnAsBefore(call[r], call'[r]) /\ (call[r].op = "oauth" => OAuthChecks(call[r], call'[r]))
    BY <1>6 DEF Walks
  <2>2. /\ call'[r].u = call[r].u /\ call'[r].op = call[r].op /\ call'[r].who = call[r].who
        /\ call'[r].path = call[r].path /\ (HasUser(call'[r]) => HasUser(call[r]))
    BY <2>1 DEF OnAsBefore, Like
  <2>3. call'[r].op = "oauth" /\ ~Linking(call'[r]) =>
            ~Linking(call[r]) \/ linked'[call[r].who] = call[r].u
    BY <2>1, <2>2 DEF OAuthChecks, Linking
  <2>4. call[r].op = "oauth" /\ Exists(call[r].u) /\ HasUser(call[r]) /\ ~Linking(call[r])
          => linked'[call[r].who] = call[r].u
    BY <1>1, <1>3, <1>4 DEF IdentityFacts
  <2> QED BY <1>2, <2>2, <2>3, <2>4 DEF IdentityFacts, HasUser, Linking, Exists
<1>7. CASE Mints(r)
  <2>1. call'[r].op = "oauth" => call[r].op = "oauth"
    <3> DEFINE e == [call[r] EXCEPT !.u = call'[r].u]
    <3>1. e.op = call[r].op
      BY CallIs DEF Call
    <3>2. Like(e, call'[r], call'[r].at)
      BY <1>7 DEF Mints
    <3> HIDE DEF e
    <3> QED BY <3>1, <3>2 DEF Like
  <2>2. call'[r].op = "oauth" => Linking(call'[r])
    BY <1>7, <2>1 DEF Mints
  <2> QED BY <2>2 DEF IdentityFacts, Linking
<1>8. CASE Turns(r)
  <2>1. call[r].op = "oauth" => call[r].at # "reread"
    BY <1>1 DEF AtHome, Ending, Rollback
  <2> QED BY <1>8, <2>1 DEF Turns, IdentityFacts, HasUser, Unknown, Linking
<1>9. CASE Opens(r)
  <2>1. HasUser(call[r]) /\ ~Linking(call[r])
    BY <1>9 DEF Opens, HasUser, Unknown, Linking
  <2> QED BY <1>1, <1>2, <1>3, <1>4, <1>9, <2>1 DEF Opens, IdentityFacts, Exists
<1> QED BY <1>5, <1>6, <1>7, <1>8, <1>9 DEF Moves

LEMMA SignupMovesFacts ==
    ASSUME Inv, Facts, RowTypes', NEW r \in Requests, Grown, Moves(r), UNCHANGED config
    PROVE  SignupFacts(r)'
<1>1. Flowing(call[r]) /\ AtHome(call[r]) /\ SignupFacts(r) /\ call[r].u \in Users \cup {NoUser}
  BY CallIs DEF Facts, Call
<1>2. CASE Enters(r) \/ Leaves(r)
  BY <1>2 DEF Enters, Leaves, SignupFacts
<1>3. CASE Refuses(r)
  BY <1>3 DEF Refuses, Left, SignupFacts, Never
<1>4. CASE Walks(r)
  <2>1. call[r].op \in Signups => SignupChecks(call[r], call'[r])
    BY <1>4 DEF Walks
  <2>2. call'[r].u = call[r].u /\ call'[r].op = call[r].op /\ call'[r].at # "refused"
    BY <1>4 DEF Walks, HandChecks, OnAsBefore, Like
  <2> QED BY <2>1, <2>2 DEF SignupFacts, SignupChecks, Never
<1>5. CASE Mints(r)
  BY <1>5 DEF Mints, SignupFacts
<1>6. CASE Turns(r)
  BY <1>6 DEF Turns, SignupFacts, SignIns, Signups
<1>7. CASE Opens(r)
  BY <1>7 DEF Opens, SignupFacts, Signups
<1>8. CASE Trades(r)
  BY <1>8 DEF Trades, SignupFacts, Signups
<1> QED BY <1>2, <1>3, <1>4, <1>5, <1>6, <1>7, <1>8 DEF Moves

LEMMA WipeMoves ==
    ASSUME Inv, Facts, SinceNow, RowTypes', NEW r \in Requests, Grown, History, Moves(r)
    PROVE  WipeFacts(r)'
<1>1. Flowing(call[r]) /\ AtHome(call[r]) /\ WipeFacts(r)
  BY CallIs DEF Facts
<1>2. Current(r) /\ (call[r].op \in SignIns => Shrunk(r))
  BY SinceIs
<1>3. CASE call'[r].path # "known" \/ call'[r].at \notin {"unpassword", "unfactor", "mark"}
  BY <1>3 DEF WipeFacts
<1>4. CASE Walks(r) /\ call'[r].path = "known" /\ call'[r].at \in {"unpassword", "unfactor", "mark"}
  <2>1. /\ call[r].path = "known" /\ call[r].at \notin {"idle", "refused"} /\ call'[r].u = call[r].u
        /\ WipeChecks(call[r], call'[r])
    BY <1>4 DEF Walks, HandChecks, OnAsBefore, Like
  <2>2. call[r].op \in SignIns
    BY <1>1, <2>1 DEF AtHome, SignIns
  <2>3. Shrunk(r)
    BY <1>2, <2>2
  <2>4. \A s \in SessionIds : session'[s].user = call[r].u => s \notin since'[r].open
    <3>1. CASE call'[r].at = "unpassword"
      BY <1>2, <2>1, <3>1 DEF WipeChecks, Current
    <3>2. CASE call'[r].at # "unpassword"
      <4>1. \A s \in SessionsOf(call[r].u) : s \notin since[r].open
        BY <1>1, <1>4, <2>1, <3>2 DEF WipeFacts, WipeChecks
      <4>2. ASSUME NEW s \in SessionIds, session'[s].user = call[r].u, s \in since[r].open
            PROVE  session[s].user = call[r].u
        BY <4>2 DEF SinceNow, Usable, Grown
      <4> QED BY <2>3, <4>1, <4>2 DEF SessionsOf, Shrunk
    <3> QED BY <3>1, <3>2
  <2>5. call'[r].at \in {"unfactor", "mark"} => call[r].u \notin since'[r].keyed
    BY <1>1, <1>2, <2>1, <2>3 DEF WipeFacts, WipeChecks, Current, Shrunk
  <2>6. call'[r].at = "mark" => call[r].u \notin since'[r].factored
    BY <1>2, <2>1 DEF WipeChecks, Current
  <2> QED BY <2>1, <2>4, <2>5, <2>6 DEF WipeFacts, SessionsOf
<1>5. Walks(r) \/ call'[r].path # "known" \/ call'[r].at \notin {"unpassword", "unfactor", "mark"}
  <2>1. Mints(r) => call'[r].path # "known" \/ call'[r].at # "mark"
    <3> DEFINE e == [call[r] EXCEPT !.u = call'[r].u]
    <3>1. e.op = call[r].op /\ e.path = call[r].path
      BY CallIs DEF Call
    <3>2. Mints(r) => Like(e, call'[r], call'[r].at) /\ call[r].at = "insert"
      BY DEF Mints
    <3>3. call[r].at = "insert" => call[r].path # "known"
      BY <1>1 DEF AtHome, Ending, Rollback
    <3> HIDE DEF e
    <3> QED BY <3>1, <3>2, <3>3 DEF Like
  <2> QED BY <2>1 DEF Moves, Enters, Leaves, Refuses, Left, Mints, Turns, Opens, Trades, AtHome, Ending, Rollback
<1> QED BY <1>3, <1>4, <1>5

LEMMA FactsStep ==
    ASSUME Inv, SinceNow, Owned, Facts, Good, History, UNCHANGED config
    PROVE  Facts'
<1>1. RowTypes' /\ Grown
  BY DEF Good, RowsGood
<1>2. ASSUME NEW q \in Requests
      PROVE  BarredFacts(q)' /\ FactorFacts(q)' /\ IdentityFacts(q)' /\ SignupFacts(q)' /\ WipeFacts(q)'
  <2>1. CASE Moves(q)
    BY <1>1, <2>1, BarredMoves, FactorMoves, IdentityMoves, SignupMovesFacts, WipeMoves
  <2>2. CASE call'[q] = call[q] /\ profile' = profile
    <3>1. call[q].op \in SignIns => Shrunk(q)
      BY <1>1, SinceIs
    <3> QED BY <1>1, <2>2, <3>1, FactsStay
  <2>3. ASSUME NEW r \in Requests, r # q, Alone(r), Signed(r)
        PROVE  BarredFacts(q)' /\ FactorFacts(q)' /\ IdentityFacts(q)' /\ SignupFacts(q)'
                 /\ WipeFacts(q)'
    <3>1. call[q].op \in SignIns => Shrunk(q)
      BY <1>1, SinceIs
    <3>2. call'[q] = call[q]
      BY <2>3 DEF Alone
    <3>3. ASSUME call[q].op \in Signups, call[q].u # NoUser, profile[call[q].u] # "signup",
                 profile'[call[q].u] = "signup"
          PROVE  FALSE
      <4>1. call[q].u \in Users
        BY <3>3, CallIs DEF Call
      <4>2. call[r].at = "profile" /\ call[r].op # "oauth" /\ call[r].u = call[q].u
        BY <2>3, <3>3, <4>1 DEF Signed
      <4>3. call[r].op \in Signups \/ call[r].path = "newcomer"
        BY <4>2, CallIs DEF AtHome, Ending, Rollback, Signups
      <4>4. Owns(call[r]) /\ Owns(call[q])
        BY <3>3, <4>2, <4>3 DEF Owns
      <4> QED BY <2>3, <4>2, <4>4 DEF Owned
    <3> QED BY <1>1, <3>1, <3>2, <3>3, FactsStay
  <2> QED BY <2>1, <2>2, <2>3 DEF Good
<1> QED BY <1>2 DEF Facts

-----------------------------------------------------------------------------
\* The inductive invariant.
AllInv == Inv /\ SinceNow /\ Owned /\ Facts

LEMMA InitAll ==
    ASSUME Init
    PROVE  AllInv
<1>1. /\ call = [r \in Requests |-> Idle] /\ since = [r \in Requests |-> NoSince]
      /\ user = [u \in Users |-> [state |-> "free", email |-> AnAddress,
                                  verified |-> FALSE, status |-> "active"]]
      /\ password = {} /\ factored = {} /\ staff = {}
      /\ profile = [u \in Users |-> "none"]
      /\ session = [s \in SessionIds |-> [state |-> "free", user |-> NoUser, via |-> NoToken]]
      /\ link = [l \in Links |-> [state |-> "none", email |-> AnAddress]]
      /\ code = [k \in Codes |-> [state |-> "none", s |-> NoSession]]
      /\ state = [t \in States |-> "none"] /\ linked = [p \in Identities |-> NoUser]
      /\ invite = [i \in Invites |-> [state |-> "none", email |-> AnAddress]]
      /\ handed = [t \in Grants |-> 0] /\ config \in Configs
  BY DEF Init, AccountsInit, LinksInit, OAuthInit, InvitesInit
<1>2. AnAddress \in Addresses
  BY InstanceAssumption DEF AnAddress
<1>3. AccountsTypeOK
  <2>1. user \in [Users -> User] /\ session \in [SessionIds -> Session]
    BY <1>1, <1>2 DEF User, Session, Statuses
  <2> QED BY <1>1, <2>1, IdleIsCall DEF AccountsTypeOK
<1>4. LinksTypeOK /\ OAuthTypeOK /\ InvitesTypeOK
  BY <1>1, <1>2 DEF LinksTypeOK, Link, Code, OAuthTypeOK, InvitesTypeOK, Invite
<1>5. NoSince \in Since /\ NoSince.open = {}
  BY DEF NoSince, Since
<1>6. TypeOK
  BY <1>1, <1>3, <1>4, <1>5 DEF TypeOK
<1>7. Keyed
  BY <1>1, NullAssumption DEF Keyed, Usable
<1>8. \A r \in Requests : call[r].at = "idle" /\ call[r].op = "none" /\ call[r].u = NoUser
                            /\ call[r].token = NoToken /\ call[r].path = "none"
  BY <1>1, IdleFields
<1>9. FlowOK
  BY <1>8 DEF FlowOK, Flowing, AtHome, HasUser, Unknown, HasSession, TokensOf
<1>10. SinceNow /\ Owned
  BY <1>1, <1>5, <1>8 DEF SinceNow, Owned, Owns
<1>11. Facts
  BY <1>8 DEF Facts, BarredFacts, FactorFacts, IdentityFacts, SignupFacts, WipeFacts, SignIns, Signups
<1> QED BY <1>6, <1>7, <1>9, <1>10, <1>11 DEF AllInv, Inv

LEMMA NextAll ==
    ASSUME AllInv, [Next]_vars
    PROVE  AllInv'
<1>1. CASE Next
  <2>1. Inv /\ SinceNow /\ Owned /\ Facts /\ History /\ UNCHANGED config
    BY <1>1 DEF AllInv, Next
  <2>2. Good
    BY <1>1, <2>1, StepGood
  <2>3. Inv' /\ Owned' /\ Facts'
    BY <2>1, <2>2, TypeStep, OwnedStep, FactsStep
  <2>4. SinceNow'
    BY <2>1, <2>2, SinceTypes DEF Good, RowsGood
  <2> QED BY <2>3, <2>4 DEF AllInv
<1>2. CASE UNCHANGED vars
  <2>1. /\ UNCHANGED <<config, user, password, factored, profile, staff, session, call>>
        /\ UNCHANGED <<link, code, state, linked, invite, handed, since>>
    BY <1>2 DEF vars, accountVars, rows, linkVars, oauthVars, inviteVars
  <2>2. TypeOK'
    BY <2>1 DEF AllInv, Inv, TypeOK, AccountsTypeOK, LinksTypeOK, OAuthTypeOK, InvitesTypeOK
  <2>3. Keyed' /\ FlowOK'
    BY <2>1 DEF AllInv, Inv, Keyed, Exists, Usable, FlowOK, Flowing, HasUser, HasSession, AtHome
  <2>4. SinceNow' /\ Owned'
    BY <2>1 DEF AllInv, SinceNow, Usable, Owned, Owns
  <2>5. Facts'
    BY <2>1 DEF AllInv, Facts, BarredFacts, FactorFacts, IdentityFacts, SignupFacts, WipeFacts,
                HasUser, HasSession, Exists, Linking, SessionsOf, AllowPasswordAccounts, Never
  <2> QED BY <2>2, <2>3, <2>4, <2>5 DEF AllInv, Inv
<1> QED BY <1>1, <1>2

LEMMA AllHolds == Spec => []AllInv
<1>1. Init => AllInv
  BY InitAll
<1>2. AllInv /\ [Next]_vars => AllInv'
  BY NextAll
<1> QED BY <1>1, <1>2, PTL DEF Spec

-----------------------------------------------------------------------------
\* Type correctness: every row, handler and history is of its type, for any number of
\* accounts, sessions, tokens, identities and handlers.
THEOREM TypeCorrect == Spec => []TypeOK
<1>1. AllInv => TypeOK
  BY DEF AllInv, Inv
<1> QED BY <1>1, AllHolds, PTL

\* No link signs in an account that was staff, not active or, where that is refused,
\* held a password all the while, and no provider one that was locked.
THEOREM BarredStayOut == Spec => []BarredNotSignedIn
<1>1. AllInv => BarredNotSignedIn
  <2> SUFFICES ASSUME AllInv, NEW r \in Requests, call[r].at = "ok"
               PROVE  /\ call[r].op = "click" =>
                           /\ call[r].u \notin since[r].staff \cup since[r].inactive
                           /\ ~AllowPasswordAccounts => call[r].u \notin since[r].keyed
                      /\ call[r].op = "oauth" /\ Never("status") => call[r].u \notin since[r].locked
    BY DEF BarredNotSignedIn
  <2>1. BarredFacts(r)
    BY DEF AllInv, Facts
  <2> QED BY <2>1 DEF BarredFacts, HasUser, Unknown, HasSession
<1> QED BY <1>1, AllHolds, PTL

\* Whoever held a factor all the while gets a session that must pass the challenge.
THEOREM FactorAsked == Spec => []SecondFactorAsked
<1>1. AllInv => SecondFactorAsked
  BY DEF AllInv, Facts, FactorFacts, SecondFactorAsked
<1> QED BY <1>1, AllHolds, PTL

\* A provider's identity signs in to the account it is linked to.
THEOREM IdentityIsOwn == Spec => []OwnIdentity
<1>1. AllInv => OwnIdentity
  <2> SUFFICES ASSUME AllInv, NEW r \in Requests, call[r].op = "oauth", call[r].at = "ok",
                      Exists(call[r].u)
               PROVE  Linked(call[r].who) = call[r].u
    BY DEF OwnIdentity
  <2>1. IdentityFacts(r)
    BY DEF AllInv, Facts
  <2>2. linked[call[r].who] = call[r].u
    BY <2>1 DEF IdentityFacts, HasUser, Unknown, Linking
  <2> QED BY <2>2 DEF Linked
<1> QED BY <1>1, AllHolds, PTL

\* A refused signup or redemption has left nothing of its own in either database.
THEOREM RefusalIsClean == Spec => []RefusedLeavesNothing
<1>1. AllInv => RefusedLeavesNothing
  <2> SUFFICES ASSUME AllInv, NEW r \in Requests, call[r].op \in Signups,
                      call[r].at = "refused", call[r].u # NoUser, Never("undo")
               PROVE  /\ ~Exists(call[r].u) /\ call[r].u \notin password
                      /\ profile[call[r].u] # "signup"
                      /\ \A s \in SessionsOf(call[r].u) : ~Usable(s)
    BY DEF RefusedLeavesNothing
  <2>1. SignupFacts(r) /\ Keyed
    BY DEF AllInv, Inv, Facts
  <2>2. user[call[r].u].state = "gone" /\ profile[call[r].u] # "signup"
    BY <2>1 DEF SignupFacts
  <2>3. ~Exists(call[r].u)
    BY <2>2 DEF Exists
  <2> QED BY <2>1, <2>2, <2>3 DEF Keyed, SessionsOf
<1> QED BY <1>1, AllHolds, PTL

\* A take-over marks the address verified when nothing is left of what the account
\* held at the click.
THEOREM WipeComesFirst == Spec => WipedBeforeVerified
<1>1. ASSUME AllInv
      PROVE  \A r \in Requests :
                LET c == call[r]
                IN  c.at = "mark" /\ c.path = "known" /\ call'[r].at = "session" =>
                      /\ c.u \notin since[r].keyed \cup since[r].factored
                      /\ \A s \in SessionsOf(c.u) : s \notin since[r].open
  BY <1>1 DEF AllInv, Facts, WipeFacts
<1> QED BY <1>1, AllHolds, PTL DEF WipedBeforeVerified

-----------------------------------------------------------------------------
\* Whose step it is: the point a handler was at tells its statement.

Arrival(r) ==
    \/ \E a \in config.addresses : Signup(r, a)
    \/ \E l \in Links : Click(r, l)
    \/ \E k \in Codes : Exchange(r, k)
    \/ \E t \in States : Callback(r, t)
    \/ \E i \in Invites : Redeem(r, i)

Statement(r) ==
    \/ Create(r) \/ SignInTail(r) \/ Leave(r)
    \/ ConsumeLink(r) \/ Find(r) \/ Again(r) \/ Reread(r)
    \/ CheckStaff(r) \/ CheckPassword(r)
    \/ Sweep(r) \/ RemovePassword(r) \/ RemoveFactors(r)
    \/ CreateCode(r) \/ BurnCode(r) \/ IssueToken(r) \/ CheckStatus(r)
    \/ ConsumeState(r) \/ Identify(r) \/ Lookup(r) \/ Match(r) \/ InsertLink(r)
    \/ Look(r) \/ Greet(r) \/ CheckLocked(r) \/ CompleteTenancy(r)
    \/ Validate(r) \/ AssignRole(r) \/ MarkRedeemed(r) \/ Answer(r)

LEMMA StepIs ==
    ASSUME Step
    PROVE  call' = call \/ \E r \in Requests : Arrival(r) \/ Statement(r)
<1>1. AccountStep => call' = call \/ \E r \in Requests : Arrival(r) \/ Statement(r)
  BY DEF AccountStep, Others, HostSetStatus, Promote, Enrol, Arrival, Statement
<1>2. LinkStep => call' = call \/ \E r \in Requests : Arrival(r) \/ Statement(r)
  BY DEF LinkStep, Issue, Lapse, Arrival, Statement
<1>3. OAuthStep => call' = call \/ \E r \in Requests : Arrival(r) \/ Statement(r)
  BY DEF OAuthStep, AuthURL, StateLapses, Arrival, Statement
<1>4. InviteStep => call' = call \/ \E r \in Requests : Arrival(r) \/ Statement(r)
  BY DEF InviteStep, IssueInvite, InviteLapses, RevokeInvite, Arrival, Statement
<1> QED BY <1>1, <1>2, <1>3, <1>4 DEF Step

LEMMA PointIs ==
    ASSUME NEW r \in Requests
    PROVE  /\ Arrival(r) => call[r].at = "idle"
           /\ Taken(r) => call[r].at = "taken"
           /\ InsertUser(r) => call[r].at = "insert"
           /\ InsertCredential(r) => call[r].at = "credential"
           /\ InsertProfile(r) => call[r].at = "profile"
           /\ Mark(r) => call[r].at = "mark"
           /\ InsertSession(r) => call[r].at = "session"
           /\ OnSignup(r) => call[r].at = "onSignup"
           /\ DeleteProfile(r) => call[r].at \in {"unprofile", "lateProfile"}
           /\ DeleteCredential(r) => call[r].at \in {"uncredential", "lateCredential"}
           /\ DeleteUser(r) => call[r].at \in {"unuser", "lateUser"}
           /\ Second(r) => call[r].at = "second"
           /\ Pend(r) => call[r].at = "pend"
           /\ OnLogin(r) => call[r].at = "onLogin"
           /\ Revoke(r) => call[r].at = "revoke"
           /\ Leave(r) => call[r].at \in {"ok", "refused"}
           /\ ConsumeLink(r) => call[r].at = "consume"
           /\ Find(r) => call[r].at = "find"
           /\ Again(r) => call[r].at = "again"
           /\ Reread(r) => call[r].at = "reread"
           /\ CheckStaff(r) => call[r].at = "staff"
           /\ CheckPassword(r) => call[r].at = "hasPassword"
           /\ Sweep(r) => call[r].at = "sweep"
           /\ RemovePassword(r) => call[r].at = "unpassword"
           /\ RemoveFactors(r) => call[r].at = "unfactor"
           /\ CreateCode(r) => call[r].at = "code"
           /\ BurnCode(r) => call[r].at = "burn"
           /\ IssueToken(r) => call[r].at = "issue"
           /\ CheckStatus(r) => call[r].at = "status"
           /\ ConsumeState(r) => call[r].at = "state"
           /\ Identify(r) => call[r].at = "identify"
           /\ Lookup(r) => call[r].at = "lookup"
           /\ Match(r) => call[r].at = "match"
           /\ InsertLink(r) => call[r].at = "link"
           /\ Look(r) => call[r].at = "look"
           /\ Greet(r) => call[r].at = "greet"
           /\ CheckLocked(r) => call[r].at = "locked"
           /\ CompleteTenancy(r) => call[r].at = "tenancy"
           /\ Validate(r) => call[r].at = "validate"
           /\ AssignRole(r) => call[r].at = "role"
           /\ MarkRedeemed(r) => call[r].at = "redeem"
           /\ Answer(r) => call[r].at = "answer"
<1>1. Arrival(r) => call[r].at = "idle"
  BY DEF Arrival, Arrives, Signup, Click, Exchange, Callback, Redeem
<1>2. Taken(r) => call[r].at = "taken"
  BY DEF Taken
<1>3. InsertUser(r) => call[r].at = "insert"
  BY DEF InsertUser
<1>4. InsertCredential(r) => call[r].at = "credential"
  BY DEF InsertCredential
<1>5. InsertProfile(r) => call[r].at = "profile"
  BY DEF InsertProfile
<1>6. Mark(r) => call[r].at = "mark"
  BY DEF Mark
<1>7. InsertSession(r) => call[r].at = "session"
  BY DEF InsertSession
<1>8. OnSignup(r) => call[r].at = "onSignup"
  BY DEF OnSignup
<1>9. DeleteProfile(r) => call[r].at \in {"unprofile", "lateProfile"}
  BY DEF DeleteProfile
<1>10. DeleteCredential(r) => call[r].at \in {"uncredential", "lateCredential"}
  BY DEF DeleteCredential
<1>11. DeleteUser(r) => call[r].at \in {"unuser", "lateUser"}
  BY DEF DeleteUser
<1>12. Second(r) => call[r].at = "second"
  BY DEF Second
<1>13. Pend(r) => call[r].at = "pend"
  BY DEF Pend
<1>14. OnLogin(r) => call[r].at = "onLogin"
  BY DEF OnLogin
<1>15. Revoke(r) => call[r].at = "revoke"
  BY DEF Revoke
<1>16. Leave(r) => call[r].at \in {"ok", "refused"}
  BY DEF Leave
<1>17. ConsumeLink(r) => call[r].at = "consume"
  BY DEF ConsumeLink
<1>18. Find(r) => call[r].at = "find"
  BY DEF Find
<1>19. Again(r) => call[r].at = "again"
  BY DEF Again
<1>20. Reread(r) => call[r].at = "reread"
  BY DEF Reread
<1>21. CheckStaff(r) => call[r].at = "staff"
  BY DEF CheckStaff
<1>22. CheckPassword(r) => call[r].at = "hasPassword"
  BY DEF CheckPassword
<1>23. Sweep(r) => call[r].at = "sweep"
  BY DEF Sweep
<1>24. RemovePassword(r) => call[r].at = "unpassword"
  BY DEF RemovePassword
<1>25. RemoveFactors(r) => call[r].at = "unfactor"
  BY DEF RemoveFactors
<1>26. CreateCode(r) => call[r].at = "code"
  BY DEF CreateCode
<1>27. BurnCode(r) => call[r].at = "burn"
  BY DEF BurnCode
<1>28. IssueToken(r) => call[r].at = "issue"
  BY DEF IssueToken
<1>29. CheckStatus(r) => call[r].at = "status"
  BY DEF CheckStatus
<1>30. ConsumeState(r) => call[r].at = "state"
  BY DEF ConsumeState
<1>31. Identify(r) => call[r].at = "identify"
  BY DEF Identify
<1>32. Lookup(r) => call[r].at = "lookup"
  BY DEF Lookup
<1>33. Match(r) => call[r].at = "match"
  BY DEF Match
<1>34. InsertLink(r) => call[r].at = "link"
  BY DEF InsertLink
<1>35. Look(r) => call[r].at = "look"
  BY DEF Look
<1>36. Greet(r) => call[r].at = "greet"
  BY DEF Greet
<1>37. CheckLocked(r) => call[r].at = "locked"
  BY DEF CheckLocked
<1>38. CompleteTenancy(r) => call[r].at = "tenancy"
  BY DEF CompleteTenancy
<1>39. Validate(r) => call[r].at = "validate"
  BY DEF Validate
<1>40. AssignRole(r) => call[r].at = "role"
  BY DEF AssignRole
<1>41. MarkRedeemed(r) => call[r].at = "redeem"
  BY DEF MarkRedeemed
<1>42. Answer(r) => call[r].at = "answer"
  BY DEF Answer
<1> QED BY <1>1, <1>2, <1>3, <1>4, <1>5, <1>6, <1>7, <1>8, <1>9, <1>10, <1>11, <1>12, <1>13, <1>14, <1>15, <1>16, <1>17, <1>18, <1>19, <1>20, <1>21, <1>22, <1>23, <1>24, <1>25, <1>26, <1>27, <1>28, <1>29, <1>30, <1>31, <1>32, <1>33, <1>34, <1>35, <1>36, <1>37, <1>38, <1>39, <1>40, <1>41, <1>42

LEMMA StepAlone ==
    ASSUME Inv, Facts, NEW r \in Requests, Arrival(r) \/ Statement(r)
    PROVE  Alone(r)
<1>1. Arrival(r) => Alone(r)
  BY SignupMoves, ClickMoves, ExchangeMoves, CallbackMoves, RedeemMoves DEF Arrival
<1>2. Create(r) => Alone(r)
  <2>1. SignupFacts(r)
    BY DEF Facts
  <2>2. InsertCredential(r) \/ InsertProfile(r) => Alone(r)
    BY <2>1, InsertCredentialMoves, InsertProfileMoves
  <2>3. DeleteProfile(r) \/ DeleteCredential(r) \/ DeleteUser(r) => Alone(r)
    BY <2>1, DeleteProfileMoves, DeleteCredentialMoves, DeleteUserMoves
  <2>4. Taken(r) \/ InsertUser(r) \/ Mark(r) \/ InsertSession(r) \/ OnSignup(r) => Alone(r)
    BY TakenMoves, InsertUserMoves, MarkMoves, InsertSessionMoves, OnSignupMoves
  <2> QED BY <2>2, <2>3, <2>4 DEF Create
<1>3. SignInTail(r) \/ Leave(r) => Alone(r)
  BY SecondMoves, PendMoves, OnLoginMoves, RevokeMoves, LeaveMoves DEF SignInTail
<1>4. ConsumeLink(r) \/ Find(r) \/ Again(r) \/ Reread(r) \/ CheckStaff(r) \/ CheckPassword(r)
        \/ Sweep(r) \/ RemovePassword(r) \/ RemoveFactors(r) => Alone(r)
  BY ConsumeLinkMoves, FindMoves, AgainMoves, RereadMoves, CheckStaffMoves, CheckPasswordMoves,
     SweepMoves, RemovePasswordMoves, RemoveFactorsMoves
<1>5. CreateCode(r) \/ BurnCode(r) \/ IssueToken(r) \/ CheckStatus(r) => Alone(r)
  BY CreateCodeMoves, BurnCodeMoves, IssueTokenMoves, CheckStatusMoves
<1>6. ConsumeState(r) \/ Identify(r) \/ Lookup(r) \/ Match(r) \/ InsertLink(r)
        \/ Look(r) \/ Greet(r) \/ CheckLocked(r) \/ CompleteTenancy(r) => Alone(r)
  BY ConsumeStateMoves, IdentifyMoves, LookupMoves, MatchMoves, InsertLinkMoves, LookMoves,
     GreetMoves, CheckLockedMoves, CompleteTenancyMoves
<1>7. Validate(r) \/ AssignRole(r) \/ MarkRedeemed(r) \/ Answer(r) => Alone(r)
  BY ValidateMoves, AssignRoleMoves, MarkRedeemedMoves, AnswerMoves
<1> QED BY <1>1, <1>2, <1>3, <1>4, <1>5, <1>6, <1>7 DEF Statement

LEMMA AtPoints ==
    ASSUME Inv, Facts, Step, NEW r \in Requests, call'[r] # call[r]
    PROVE  /\ call[r].at = "state" => ConsumeState(r)
           /\ call[r].at = "consume" => ConsumeLink(r)
           /\ call[r].at = "validate" => Validate(r)
           /\ call[r].at = "redeem" => MarkRedeemed(r)
           /\ call[r].at = "code" => CreateCode(r)
           /\ call[r].at = "burn" => BurnCode(r)
           /\ call[r].at = "issue" => IssueToken(r)
           /\ call[r].at = "status" => CheckStatus(r)
           /\ call[r].at = "revoke" => Revoke(r)
           /\ call[r].at \in {"ok", "refused"} => Leave(r)
<1>1. PICK q \in Requests : Arrival(q) \/ Statement(q)
  BY StepIs
<1>2. q = r
  BY <1>1, StepAlone DEF Alone
<1>3. Arrival(r) \/ Statement(r)
  BY <1>1, <1>2
<1>4. CASE Arrival(r)
  BY <1>4, PointIs
<1>5. CASE Create(r)
  BY <1>5, PointIs DEF Create
<1>6. CASE SignInTail(r)
  BY <1>6, PointIs DEF SignInTail
<1>7. CASE Statement(r) /\ ~Create(r) /\ ~SignInTail(r)
  BY <1>7, PointIs DEF Statement
<1> QED BY <1>3, <1>4, <1>5, <1>6, <1>7
-----------------------------------------------------------------------------
\* The one-time grants: who carries which token.

\* The session of a link's click, of its code and of the exchange is the link's.
Via ==
    /\ \A r \in Requests :
          LET c == call[r]
          IN  /\ c.op = "click" /\ HasSession(c) => session[c.s].via = c.token
              /\ c.op = "exchange" /\ HasSession(c) => session[c.s].via \in Links
    /\ \A k \in Codes : code[k].state # "none" => session[code[k].s].via \in Links
    /\ \A r \in Requests : call[r].at = "code" => CodeFlow

\* A callback past the consumption of its state.
Bound(r, t) == call[r].token = t /\ call[r].at \notin {"state", "ok", "refused"}

StateOnce(t) ==
    /\ state[t] # "spent" => handed[t] = 0 /\ \A r \in Requests : ~Bound(r, t)
    /\ \A r, q \in Requests : Bound(r, t) /\ Bound(q, t) => r = q
    /\ \A r \in Requests : Bound(r, t) => handed[t] = 0

\* A redemption that has marked its invitation, and is to be answered.
Marked(r, i) == call[r].token = i /\ call[r].at = "answer"

InviteOnce(i) ==
    /\ invite[i].state # "redeemed" => handed[i] = 0 /\ \A r \in Requests : ~Marked(r, i)
    /\ \A r, q \in Requests : Marked(r, i) /\ Marked(q, i) => r = q
    /\ \A r \in Requests : Marked(r, i) => handed[i] = 0

\* A click past the consumption of its link; a code of its session; an exchange that
\* has burned that code.
Clicked(r, l) == call[r].token = l /\ call[r].at \notin {"consume", "ok", "refused"}
Coded(k, l) == code[k].state = "open" /\ session[code[k].s].via = l
Traded(r, l) == call[r].op = "exchange" /\ call[r].at \in {"issue", "status"} /\ session[call[r].s].via = l

LinkOnce(l) ==
    /\ link[l].state # "spent" \/ handed[l] > 0 =>
          /\ \A r \in Requests : ~Clicked(r, l) /\ ~Traded(r, l)
          /\ \A k \in Codes : ~Coded(k, l)
    /\ link[l].state # "spent" => handed[l] = 0
    /\ \A r, q \in Requests :
          /\ Clicked(r, l) /\ Clicked(q, l) => r = q
          /\ Traded(r, l) /\ Traded(q, l) => r = q
          /\ ~(Clicked(r, l) /\ Traded(q, l))
    /\ \A k, j \in Codes : Coded(k, l) /\ Coded(j, l) => k = j
    /\ \A r \in Requests, k \in Codes : ~(Clicked(r, l) /\ Coded(k, l)) /\ ~(Traded(r, l) /\ Coded(k, l))

Once ==
    /\ Via
    /\ \A t \in States : StateOnce(t)
    /\ \A i \in Invites : InviteOnce(i)
    /\ \A l \in Links : LinkOnce(l)

\* What a step of the handler r hands over for t.
Delivered(r, t) ==
    /\ call'[r].at = "ok" /\ call[r].at # "ok"
    /\ IF call'[r].op = "click" THEN call'[r].token = t /\ ~CodeFlow
       ELSE IF call'[r].op = "exchange" THEN session'[call'[r].s].via = t
       ELSE call'[r].token = t

LEMMA HandedIs ==
    ASSUME Inv, History, UNCHANGED config, NEW t \in Grants
    PROVE  /\ call' = call => handed'[t] = handed[t]
           /\ \A r \in Requests : Alone(r) =>
                 handed'[t] = IF Delivered(r, t) THEN handed[t] + 1 ELSE handed[t]
<1> DEFINE D(x) == {r \in Requests : Delivers(call[r], x)' /\ call[r].at # "ok"}
<1>1. handed' = [x \in Grants |-> handed[x] + Cardinality(D(x))]
  BY Zenon DEF History
<1>2. handed'[t] = handed[t] + Cardinality(D(t)) /\ handed[t] \in Nat
  BY <1>1 DEF Inv, TypeOK
<1>3. D(t) = {r \in Requests : Delivered(r, t)}
  BY DEF Delivered, Delivers, CodeFlow
<1> HIDE DEF D
<1>4. ASSUME call' = call
      PROVE  handed'[t] = handed[t]
  <2>1. D(t) = {}
    BY <1>3, <1>4 DEF Delivered
  <2> QED BY <1>2, <2>1, FS_EmptySet
<1>5. ASSUME NEW r \in Requests, Alone(r)
      PROVE  handed'[t] = IF Delivered(r, t) THEN handed[t] + 1 ELSE handed[t]
  <2>1. \A q \in Requests \ {r} : ~Delivered(q, t)
    BY <1>5 DEF Alone, Delivered
  <2>2. CASE Delivered(r, t)
    <3>1. D(t) = {r}
      BY <1>3, <2>1, <2>2
    <3>2. Cardinality({r}) = 1
      BY FS_Singleton
    <3> QED BY <1>2, <2>2, <3>1, <3>2
  <2>3. CASE ~Delivered(r, t)
    <3>1. D(t) = {}
      BY <1>3, <2>1, <2>3
    <3> QED BY <1>2, <2>3, <3>1, FS_EmptySet
  <2> QED BY <2>2, <2>3
<1> QED BY <1>4, <1>5

\* A step that lets some grants die, or turns one of them, is a step of OneTimeGrant.
GrantGoes(T, g, n, h, m) ==
    /\ g = [t \in T |-> g[t]] /\ n = [t \in T |-> n[t]]
    /\ h = [t \in T |-> h[t]] /\ m = [t \in T |-> m[t]]
    /\ \/ \A t \in T : m[t] = h[t] /\ (n[t] = g[t] \/ (g[t] \in {"open", "held"} /\ n[t] = "dead"))
       \/ \E x \in T :
             /\ \/ g[x] = "none" /\ n[x] = "open" /\ m[x] = h[x]
                \/ g[x] = "open" /\ n[x] = "held" /\ m[x] = h[x]
                \/ g[x] = "held" /\ n[x] = "done" /\ m[x] = h[x] + 1
             /\ \A t \in T \ {x} : n[t] = g[t] /\ m[t] = h[t]

GrantNext(T, g, n, h, m) ==
    \/ \E x \in T :
          \/ g[x] = "none" /\ n = [g EXCEPT ![x] = "open"] /\ m = h
          \/ g[x] = "open" /\ n = [g EXCEPT ![x] = "held"] /\ m = h
          \/ g[x] = "held" /\ n = [g EXCEPT ![x] = "done"] /\ m = [h EXCEPT ![x] = @ + 1]
    \/ \E G \in SUBSET T :
          /\ \A t \in G : g[t] \in {"open", "held"}
          /\ n = [t \in T |-> IF t \in G THEN "dead" ELSE g[t]]
          /\ m = h

LEMMA GrantStep ==
    ASSUME NEW T, NEW g, NEW n, NEW h, NEW m, GrantGoes(T, g, n, h, m)
    PROVE  GrantNext(T, g, n, h, m)
<1>0. /\ g = [t \in T |-> g[t]] /\ n = [t \in T |-> n[t]]
      /\ h = [t \in T |-> h[t]] /\ m = [t \in T |-> m[t]]
  BY DEF GrantGoes
<1>1. CASE \A t \in T : m[t] = h[t] /\ (n[t] = g[t] \/ (g[t] \in {"open", "held"} /\ n[t] = "dead"))
  <2> DEFINE G == {t \in T : g[t] \in {"open", "held"} /\ n[t] = "dead"}
  <2>1. m = h
    BY <1>0, <1>1
  <2>2. \A t \in T : n[t] = IF t \in G THEN "dead" ELSE g[t]
    BY <1>1
  <2>3. n = [t \in T |-> IF t \in G THEN "dead" ELSE g[t]]
    BY <1>0, <2>2
  <2>4. \A t \in G : g[t] \in {"open", "held"}
    OBVIOUS
  <2>5. G \in SUBSET T
    OBVIOUS
  <2> HIDE DEF G
  <2> QED BY <2>1, <2>3, <2>4, <2>5 DEF GrantNext
<1>2. ASSUME NEW x \in T,
             \/ g[x] = "none" /\ n[x] = "open" /\ m[x] = h[x]
             \/ g[x] = "open" /\ n[x] = "held" /\ m[x] = h[x]
             \/ g[x] = "held" /\ n[x] = "done" /\ m[x] = h[x] + 1,
             \A t \in T \ {x} : n[t] = g[t] /\ m[t] = h[t]
      PROVE  \/ g[x] = "none" /\ n = [g EXCEPT ![x] = "open"] /\ m = h
             \/ g[x] = "open" /\ n = [g EXCEPT ![x] = "held"] /\ m = h
             \/ g[x] = "held" /\ n = [g EXCEPT ![x] = "done"] /\ m = [h EXCEPT ![x] = @ + 1]
  <2>1. n = [g EXCEPT ![x] = n[x]] /\ m = [h EXCEPT ![x] = m[x]]
    BY <1>0, <1>2
  <2>2. m[x] = h[x] => m = h
    BY <1>0, <1>2
  <2> QED BY <1>2, <2>1, <2>2
<1> QED BY <1>1, <1>2 DEF GrantGoes, GrantNext
-----------------------------------------------------------------------------
\* What a step does to the codes.

Hands(r, k) ==
    /\ CreateCode(r) /\ call[r].at = "code" /\ call'[r].at = "ok" /\ session[call[r].s].state # "gone"
    /\ code[k].state = "none" /\ code'[k].state = "open" /\ code'[k].s = call[r].s
    /\ \A j \in Codes \ {k} : code'[j] = code[j]

Burns(r, k) ==
    /\ BurnCode(r) /\ call[r].at = "burn" /\ call[r].token = k /\ call'[r].at \in {"issue", "refused"}
    /\ code[k].state = "open" /\ code'[k].state = "spent" /\ code'[k].s = code[k].s
    /\ session[code[k].s].state # "gone"
    /\ \A j \in Codes \ {k} : code'[j] = code[j]

Expires(k) ==
    /\ call' = call /\ session' = session /\ link' = link
    /\ code[k].state = "open" /\ code'[k].state = "lapsed" /\ code'[k].s = code[k].s
    /\ \A j \in Codes \ {k} : code'[j] = code[j]

LEMMA CreateCodeIs ==
    ASSUME Inv, NEW r \in Requests, CreateCode(r)
    PROVE  \/ code' = code /\ call'[r].at = "revoke"
           \/ \E k \in Codes : Hands(r, k)
<1>1. call \in [Requests -> Call] /\ code \in [Codes -> Code]
  BY CallIs DEF Inv, TypeOK, LinksTypeOK
<1>2. CASE Goto(r, "revoke") /\ UNCHANGED code
  BY <1>1, <1>2, GotoIs, PointsAre DEF Like
<1>3. ASSUME NEW k \in Codes, code[k].state = "none", session[call[r].s].state # "gone",
             code' = [code EXCEPT ![k] = [state |-> "open", s |-> call[r].s]], Goto(r, "ok")
      PROVE  Hands(r, k)
  <2>1. call'[r].at = "ok"
    BY <1>1, <1>3, GotoIs, PointsAre DEF Like
  <2>2. code'[k] = [state |-> "open", s |-> call[r].s] /\ \A j \in Codes \ {k} : code'[j] = code[j]
    BY <1>1, <1>3
  <2>3. call[r].at = "code"
    BY PointIs
  <2> QED BY <1>3, <2>1, <2>2, <2>3 DEF Hands
<1> QED BY <1>2, <1>3 DEF CreateCode

LEMMA BurnCodeIs ==
    ASSUME Inv, NEW r \in Requests, BurnCode(r)
    PROVE  \/ code' = code /\ call'[r].at = "refused"
           \/ \E k \in Codes : Burns(r, k)
<1>1. call \in [Requests -> Call] /\ code \in [Codes -> Code] /\ call[r].at = "burn"
  BY CallIs, PointIs DEF Inv, TypeOK, LinksTypeOK
<1>2. call[r].token \in Codes
  BY <1>1, CallIs DEF AtHome, Flowing, TokensOf, Ending, Rollback
<1> DEFINE k == call[r].token
<1>3. CASE code' = code /\ Goto(r, "refused")
  BY <1>1, <1>3, GotoIs, PointsAre DEF Left
<1>4. CASE ~(code' = code /\ Goto(r, "refused"))
  <2>1. /\ code[k].state = "open" /\ session[code[k].s].state # "gone"
        /\ code' = [code EXCEPT ![k].state = "spent"]
    BY <1>4, Zenon DEF BurnCode
  <2>2. code'[k].state = "spent" /\ code'[k].s = code[k].s /\ \A j \in Codes \ {k} : code'[j] = code[j]
    BY <1>1, <1>2, <2>1 DEF Code
  <2>3. call'[r].at \in {"issue", "refused"}
    <3>1. call' \in [Requests -> Call] /\ Moves(r)
      BY BurnCodeMoves
    <3>2. Refuses(r) => call'[r].at = "refused"
      BY DEF Refuses, Left
    <3>3. call'[r].at = "issue" \/ call'[r].at = "refused"
      <4>1. PICK right \in BOOLEAN :
               Become(r, [call[r] EXCEPT !.s = code[k].s, !.at = IF right THEN "issue" ELSE "refused"])
        BY <1>4, Zenon DEF BurnCode
      <4> DEFINE e1 == [call[r] EXCEPT !.s = code[k].s]
                 e2 == [e1 EXCEPT !.at = IF right THEN "issue" ELSE "refused"]
      <4>2. Become(r, e2)
        BY <4>1, Zenon
      <4>3. e1 \in Call
        BY <1>1, <1>2 DEF Call, Code
      <4> HIDE DEF e1
      <4>4. e2 \in Call /\ e2.at \in {"issue", "refused"}
        BY <4>3, PointsAre DEF Call
      <4> HIDE DEF e2
      <4> QED BY <1>1, <4>2, <4>4, BecomeIs DEF Left
    <3> QED BY <3>3
  <2> QED BY <1>1, <1>2, <2>1, <2>2, <2>3 DEF Burns
<1> QED BY <1>3, <1>4

LEMMA CodeSteps ==
    ASSUME Inv, Step
    PROVE  \/ code' = code
           \/ \E k \in Codes : Expires(k)
           \/ \E r \in Requests, k \in Codes : Hands(r, k) \/ Burns(r, k)
<1>1. code \in [Codes -> Code]
  BY DEF Inv, TypeOK, LinksTypeOK
<1>2. \/ code' = code \/ Lapse
      \/ \E r \in Requests : CreateCode(r) \/ BurnCode(r)
  BY DEF Step, linkVars, LinkStep, Issue, Click, Exchange, ConsumeLink, Find, Again, Reread,
         CheckStaff, CheckPassword, Sweep, RemovePassword, RemoveFactors, IssueToken, CheckStatus
<1>3. CASE Lapse /\ code' # code
  <2>1. PICK k \in Codes : code[k].state = "open" /\ code' = [code EXCEPT ![k].state = "lapsed"]
    BY <1>3 DEF Lapse
  <2>2. call' = call /\ session' = session /\ link' = link
    BY <1>3 DEF Lapse, rows
  <2>3. Expires(k)
    BY <1>1, <2>1, <2>2 DEF Expires, Code
  <2> QED BY <2>3
<1> QED BY <1>2, <1>3, CreateCodeIs, BurnCodeIs

LEMMA ViaNext ==
    ASSUME Inv, Facts, Via, Good, Step, UNCHANGED config
    PROVE  Via'
<1>1. \A s \in SessionIds : session[s].state # "free" =>
         session'[s].state # "free" /\ session'[s].via = session[s].via
  BY DEF Good, RowsGood, Grown
<1>2. ASSUME NEW k \in Codes, code'[k].state # "none"
      PROVE  session'[code'[k].s].via \in Links
  <2>1. CASE code[k].state # "none" /\ code'[k].s = code[k].s
    BY <1>1, <2>1 DEF Via, Inv, Keyed
  <2>2. ASSUME NEW r \in Requests, Hands(r, k)
        PROVE  session'[code'[k].s].via \in Links
    <3>1. call[r].op = "click" /\ HasSession(call[r])
      BY <2>2, CallIs DEF Hands, AtHome, HasSession, Ending, Rollback
    <3>2. call[r].token \in Links /\ call[r].s \in SessionIds /\ session[call[r].s].state # "free"
      BY <2>2, <3>1, CallIs DEF Flowing, TokensOf, Hands
    <3> QED BY <1>1, <2>2, <3>1, <3>2 DEF Via, Hands
  <2> QED BY <1>2, <2>1, <2>2, CodeSteps DEF Expires, Hands, Burns
<1>3. ASSUME NEW r \in Requests, call'[r] = call[r]
      PROVE  LET c == call[r]
             IN  /\ c.op = "click" /\ HasSession(c) => session'[c.s].via = c.token
                 /\ c.op = "exchange" /\ HasSession(c) => session'[c.s].via \in Links
                 /\ c.at = "code" => CodeFlow
  BY <1>1, CallIs DEF Via, Flowing
<1>4. ASSUME NEW r \in Requests, Moves(r)
      PROVE  LET d == call'[r]
             IN  /\ d.op = "click" /\ HasSession(d) => session'[d.s].via = d.token
                 /\ d.op = "exchange" /\ HasSession(d) => session'[d.s].via \in Links
                 /\ d.at = "code" => CodeFlow
  <2>1. CASE Enters(r)
    BY <2>1 DEF Enters, HasSession
  <2>2. CASE Leaves(r)
    BY <2>2 DEF Leaves, HasSession
  <2>3. CASE Refuses(r)
    BY <2>3 DEF Refuses, Left, HasSession
  <2>4. CASE Walks(r)
    <3>1. /\ call'[r].op = call[r].op /\ call'[r].s = call[r].s /\ call'[r].token = call[r].token
          /\ HasSession(call'[r]) => HasSession(call[r])
          /\ AtHome(call'[r]) /\ HandChecks(call[r], call'[r])
      BY <2>4 DEF Walks, OnAsBefore, Like
    <3>2. call'[r].at = "code" => CodeFlow
      BY <3>1 DEF AtHome, HandChecks, Ending, Rollback
    <3> QED BY <1>1, <3>1, <3>2, CallIs DEF Via, Flowing
  <2>5. CASE Mints(r)
    BY <2>5 DEF Mints, HasSession
  <2>6. CASE Turns(r)
    BY <2>6 DEF Turns, HasSession
  <2>7. CASE Opens(r)
    <3>1. call'[r].op # "exchange" /\ call'[r].at # "code"
      BY <2>7 DEF Opens, AtHome
    <3> QED BY <2>7, <3>1 DEF Opens
  <2>8. CASE Trades(r)
    <3>1. call'[r].op = "exchange" /\ call'[r].at # "code" /\ call[r].op = "exchange"
      BY <2>8 DEF Trades
    <3>2. CASE call[r].at = "burn"
      <4>1. /\ call[r].token \in Codes /\ call'[r].s = code[call[r].token].s
            /\ code[call[r].token].state = "open"
        BY <2>8, <3>1, <3>2, CallIs DEF Trades, Flowing, TokensOf
      <4> QED BY <1>1, <3>1, <4>1 DEF Via, Inv, Keyed
    <3>3. CASE call[r].at = "issue"
      <4>1. call'[r].s = call[r].s /\ HasSession(call[r])
        BY <2>8, <3>3 DEF Trades, HasSession
      <4> QED BY <1>1, <3>1, <4>1, CallIs DEF Via, Flowing
    <3> QED BY <2>8, <3>2, <3>3 DEF Trades
  <2> QED BY <1>4, <2>1, <2>2, <2>3, <2>4, <2>5, <2>6, <2>7, <2>8 DEF Moves
<1>5. \A r \in Requests : call'[r] = call[r] \/ Moves(r)
  BY DEF Good, Alone
<1>6. \A r \in Requests :
         LET d == call'[r]
         IN  /\ d.op = "click" /\ HasSession(d) => session'[d.s].via = d.token
             /\ d.op = "exchange" /\ HasSession(d) => session'[d.s].via \in Links
             /\ d.at = "code" => CodeFlow
  BY <1>3, <1>4, <1>5
<1>7. CodeFlow' = CodeFlow
  BY DEF CodeFlow
<1> QED BY <1>2, <1>6, <1>7 DEF Via, HasSession

-----------------------------------------------------------------------------
\* A handler that has moved: what its new token says.

LEMMA TokensApart ==
    /\ \A t \in States : t \notin Links /\ t \notin Codes /\ t \notin Invites /\ t # NoToken /\ t \in Grants
    /\ \A t \in Invites : t \notin Links /\ t \notin Codes /\ t \notin States /\ t # NoToken /\ t \in Grants
    /\ \A t \in Links : t \notin Invites /\ t \notin Codes /\ t \notin States /\ t # NoToken /\ t \in Grants
BY TokenAssumption, NullAssumption DEF Grants

LEMMA OpOfToken ==
    ASSUME Inv, NEW r \in Requests, call[r].at # "refused"
    PROVE  /\ call[r].token \in States => call[r].op = "oauth"
           /\ call[r].token \in Invites => call[r].op = "redeem"
           /\ call[r].token \in Links => call[r].op = "click"
<1>1. call[r].token \in TokensOf(call[r].op) /\ call[r] \in Call
  BY CallIs DEF Flowing
<1> QED BY <1>1, TokensApart DEF TokensOf, Call

\* An answer for a state or an invitation is that of the handler that carries it.
LEMMA DeliveredIs ==
    ASSUME Inv, Inv', Via', Good, UNCHANGED config, NEW r \in Requests, NEW t \in Grants, Delivered(r, t)
    PROVE  /\ t \notin Links => call'[r].token = t
           /\ t \in Links => \/ call'[r].token = t /\ ~CodeFlow
                             \/ call'[r].op = "exchange" /\ session'[call'[r].s].via = t
           /\ call'[r].at = "ok" /\ call[r].at # "ok"
<1>1. call'[r].at = "ok" /\ call[r].at # "ok"
  BY DEF Delivered
<1>2. call'[r].token \in TokensOf(call'[r].op) /\ call'[r] \in Call
  BY <1>1 DEF Inv, FlowOK, Flowing, TypeOK, AccountsTypeOK
<1>3. call'[r].op = "exchange" => session'[call'[r].s].via \in Links
  BY <1>1 DEF Via, HasSession
<1>4. CASE call'[r].op = "click"
  BY <1>1, <1>2, <1>4 DEF Delivered, TokensOf
<1>5. CASE call'[r].op = "exchange"
  BY <1>1, <1>3, <1>5 DEF Delivered
<1>6. CASE call'[r].op \notin {"click", "exchange"}
  <2>1. call'[r].token = t
    BY <1>6 DEF Delivered
  <2>2. t \notin Links
    BY <1>1, <1>2, <1>6, <2>1, TokensApart DEF TokensOf, Call
  <2> QED BY <1>1, <2>1, <2>2
<1> QED BY <1>4, <1>5, <1>6

LEMMA LeaveIs ==
    ASSUME Inv, NEW r \in Requests, Leave(r)
    PROVE  call'[r].at = "idle" /\ call'[r].token = NoToken /\ call'[r].op = "none"
<1>1. call \in [Requests -> Call]
  BY CallIs
<1>2. Become(r, Idle)
  BY DEF Leave
<1>3. call'[r] = Idle
  BY <1>1, <1>2, IdleIsCall, IdleFields, BecomeIs
<1> QED BY <1>3, IdleFields

-----------------------------------------------------------------------------
\* States.

LEMMA StateGrantIs ==
    ASSUME NEW t \in States
    PROVE  /\ stateGrant[t] = IF state[t] \in {"none", "open"} THEN state[t]
                              ELSE IF handed[t] > 0 THEN "done"
                              ELSE IF state[t] = "spent" /\ (\E r \in Requests : Bound(r, t)) THEN "held"
                              ELSE "dead"
           /\ stateGrant'[t] = IF state'[t] \in {"none", "open"} THEN state'[t]
                               ELSE IF handed'[t] > 0 THEN "done"
                               ELSE IF state'[t] = "spent" /\ (\E r \in Requests : Bound(r, t)') THEN "held"
                               ELSE "dead"
BY DEF stateGrant, Takes, Bound

\* A callback that goes on while its state is left alone.
LEMMA BoundMoves ==
    ASSUME Inv, Inv', Facts, Via', Good, Step, UNCHANGED config, state' = state,
           NEW r \in Requests, Alone(r), Moves(r)
    PROVE  \A t \in States : /\ Bound(r, t)' => Bound(r, t)
                             /\ Delivered(r, t) => Bound(r, t) /\ ~Bound(r, t)'
<1> SUFFICES ASSUME NEW t \in States, Bound(r, t)' \/ Delivered(r, t)
             PROVE  Bound(r, t) /\ (Delivered(r, t) => ~Bound(r, t)')
  OBVIOUS
<1>1. call'[r].token = t /\ call'[r].at \notin {"state", "refused"}
  BY TokensApart, DeliveredIs DEF Bound
<1>2. call'[r].at # "idle"
  BY <1>1, TokensApart DEF Inv, FlowOK, Flowing, AtHome, TokensOf, Ending, Rollback
<1>3. call'[r].op = "oauth" /\ AtHome(call'[r])
  <2>1. Flowing(call[r])' /\ call'[r] \in Call
    BY DEF Inv, FlowOK, TypeOK, AccountsTypeOK
  <2>2. call'[r].token \in TokensOf(call'[r].op) /\ AtHome(call'[r])
    BY <1>1, <2>1 DEF Flowing
  <2> QED BY <1>1, <2>1, <2>2, TokensApart DEF TokensOf, Call
<1>4. call[r].token = t /\ call[r].at # "idle"
  <2>1. ~Enters(r)
    BY <1>1, <1>3 DEF Enters, AtHome, Ending, Rollback
  <2>2. ~Leaves(r) /\ ~Refuses(r)
    BY <1>1, <1>2 DEF Leaves, Refuses, Left
  <2>3. call[r].token = call'[r].token
    BY <2>1, <2>2 DEF Moves, Walks, OnAsBefore, Like, Mints, Turns, Opens, Trades
  <2>4. call[r].at # "idle"
    BY <1>1, <2>3, CallIs, TokensApart DEF Flowing, AtHome, TokensOf, Ending, Rollback
  <2> QED BY <1>1, <2>3, <2>4
<1>5. call'[r] # call[r] => call[r].at \notin {"state", "ok", "refused"}
  <2>1. ~Leave(r)
    BY <1>2, LeaveIs
  <2>2. ~ConsumeState(r)
    <3> SUFFICES ASSUME ConsumeState(r) PROVE FALSE
      OBVIOUS
    <3>1. state[t] # "open"
      BY <1>4 DEF ConsumeState, OAuthTypeOK, Inv, TypeOK
    <3>2. Goto(r, "refused")
      BY <1>4, <3>1 DEF ConsumeState
    <3> QED BY <1>1, <3>2, CallIs, GotoIs, PointsAre DEF Left
  <2> QED BY <2>1, <2>2, AtPoints
<1>6. call'[r] = call[r] => call[r].at \notin {"state", "ok", "refused"}
  BY <1>1 DEF Bound, Delivered
<1>7. Delivered(r, t) => ~Bound(r, t)'
  BY DEF Delivered, Bound
<1> QED BY <1>4, <1>5, <1>6, <1>7 DEF Bound

LEMMA StateCases ==
    ASSUME Inv, Step
    PROVE  \/ state' = state
           \/ \E x \in States :
                 /\ \A t \in States \ {x} : state'[t] = state[t]
                 /\ \/ state[x] = "none" /\ state'[x] = "open" /\ call' = call
                    \/ state[x] = "open" /\ state'[x] = "lapsed" /\ call' = call
                    \/ /\ state[x] = "open" /\ state'[x] = "spent"
                       /\ \E r \in Requests :
                             /\ Alone(r) /\ Like(call[r], call'[r], "identify")
                             /\ call[r].at = "state" /\ call[r].token = x
<1>1. state \in [States -> {"none", "open", "spent", "lapsed"}] /\ call \in [Requests -> Call]
  BY CallIs DEF Inv, TypeOK, OAuthTypeOK
<1>2. \/ state' = state
      \/ \E x \in States : AuthURL(x) \/ StateLapses(x)
      \/ \E r \in Requests : ConsumeState(r)
  BY DEF Step, oauthVars, OAuthStep, Callback, Identify, Lookup, Match, InsertLink, Look,
         Greet, CheckLocked, CompleteTenancy
<1>3. ASSUME NEW x \in States, AuthURL(x) \/ StateLapses(x)
      PROVE  /\ \A t \in States \ {x} : state'[t] = state[t]
             /\ \/ state[x] = "none" /\ state'[x] = "open" /\ call' = call
                \/ state[x] = "open" /\ state'[x] = "lapsed" /\ call' = call
  BY <1>1, <1>3 DEF AuthURL, StateLapses
<1>4. ASSUME NEW r \in Requests, ConsumeState(r), state' # state
      PROVE  LET x == call[r].token
             IN  /\ x \in States /\ \A t \in States \ {x} : state'[t] = state[t]
                 /\ state[x] = "open" /\ state'[x] = "spent"
                 /\ Alone(r) /\ Like(call[r], call'[r], "identify") /\ call[r].at = "state"
  <2>1. call[r].at = "state" /\ call[r].op = "oauth"
    BY <1>4, CallIs DEF ConsumeState, AtHome, Ending, Rollback
  <2>2. call[r].token \in States
    BY <2>1, CallIs DEF Flowing, TokensOf
  <2>3. /\ state[call[r].token] = "open" /\ Goto(r, "identify")
        /\ state' = [state EXCEPT ![call[r].token] = "spent"]
    BY <1>4 DEF ConsumeState
  <2>4. Alone(r) /\ Like(call[r], call'[r], "identify")
    BY <1>1, <2>3, GotoIs, PointsAre
  <2> QED BY <1>1, <2>1, <2>2, <2>3, <2>4
<1> QED BY <1>2, <1>3, <1>4

StateGoes ==
    \/ \A t \in States : /\ handed'[t] = handed[t]
                         /\ \/ stateGrant'[t] = stateGrant[t]
                            \/ stateGrant[t] \in {"open", "held"} /\ stateGrant'[t] = "dead"
    \/ \E x \in States :
          /\ \/ stateGrant[x] = "none" /\ stateGrant'[x] = "open" /\ handed'[x] = handed[x]
             \/ stateGrant[x] = "open" /\ stateGrant'[x] = "held" /\ handed'[x] = handed[x]
             \/ stateGrant[x] = "held" /\ stateGrant'[x] = "done" /\ handed'[x] = handed[x] + 1
          /\ \A t \in States \ {x} : stateGrant'[t] = stateGrant[t] /\ handed'[t] = handed[t]

LEMMA StateStep ==
    ASSUME Inv, Inv', Facts, Via', \A t \in States : StateOnce(t), Good, Step, History, UNCHANGED config
    PROVE  StateGoes /\ \A t \in States : StateOnce(t)'
<1>1. \A t \in States : t \in Grants /\ handed[t] \in Nat
  BY TokensApart DEF Inv, TypeOK
<1>2. ASSUME call' = call
      PROVE  /\ \A t \in States : handed'[t] = handed[t]
             /\ \A t \in States, r \in Requests : Bound(r, t)' <=> Bound(r, t)
  BY <1>1, <1>2, HandedIs DEF Bound
<1>3. CASE state' = state /\ call' = call
  <2>1. \A t \in States : stateGrant'[t] = stateGrant[t] /\ handed'[t] = handed[t]
    BY <1>2, <1>3, StateGrantIs
  <2>2. \A t \in States : StateOnce(t)'
    BY <1>2, <1>3 DEF StateOnce
  <2> QED BY <2>1, <2>2 DEF StateGoes
<1>4. ASSUME NEW x \in States, call' = call, \A t \in States \ {x} : state'[t] = state[t],
             \/ state[x] = "none" /\ state'[x] = "open"
             \/ state[x] = "open" /\ state'[x] = "lapsed"
      PROVE  StateGoes /\ \A t \in States : StateOnce(t)'
  <2>1. \A t \in States \ {x} : stateGrant'[t] = stateGrant[t] /\ handed'[t] = handed[t]
    BY <1>2, <1>4, StateGrantIs
  <2>2. handed'[x] = handed[x] /\ handed[x] = 0 /\ \A r \in Requests : ~Bound(r, x)'
    BY <1>2, <1>4 DEF StateOnce
  <2>3. \/ stateGrant[x] = "none" /\ stateGrant'[x] = "open"
        \/ stateGrant[x] = "open" /\ stateGrant'[x] = "dead"
    BY <1>4, <2>2, StateGrantIs
  <2>4. \A t \in States : StateOnce(t)'
    BY <1>2, <1>4, <2>2 DEF StateOnce
  <2> QED BY <2>1, <2>2, <2>3, <2>4 DEF StateGoes
<1>5. ASSUME NEW x \in States, NEW r \in Requests, \A t \in States \ {x} : state'[t] = state[t],
             state[x] = "open", state'[x] = "spent", Alone(r), Like(call[r], call'[r], "identify"),
             call[r].at = "state", call[r].token = x
      PROVE  StateGoes /\ \A t \in States : StateOnce(t)'
  <2>1. \A t \in States : handed'[t] = handed[t]
    BY <1>1, <1>5, HandedIs DEF Delivered, Like
  <2>2. \A t \in States \ {x}, q \in Requests : Bound(q, t)' <=> Bound(q, t)
    BY <1>5 DEF Bound, Like, Alone
  <2>3. \A t \in States \ {x} : stateGrant'[t] = stateGrant[t]
    BY <1>5, <2>1, <2>2, StateGrantIs
  <2>4. handed[x] = 0 /\ \A q \in Requests : ~Bound(q, x)
    BY <1>5 DEF StateOnce
  <2>5. Bound(r, x)' /\ \A q \in Requests : Bound(q, x)' => q = r
    BY <1>5, <2>4 DEF Bound, Like, Alone
  <2>6. stateGrant[x] = "open" /\ stateGrant'[x] = "held"
    BY <1>5, <2>1, <2>4, <2>5, StateGrantIs
  <2>7. \A t \in States : StateOnce(t)'
    BY <1>5, <2>1, <2>2, <2>4, <2>5 DEF StateOnce
  <2> QED BY <2>1, <2>3, <2>6, <2>7 DEF StateGoes
<1>6. ASSUME NEW r \in Requests, state' = state, Alone(r), Moves(r)
      PROVE  StateGoes /\ \A t \in States : StateOnce(t)'
  <2>1. \A t \in States : /\ Bound(r, t)' => Bound(r, t)
                          /\ Delivered(r, t) => Bound(r, t) /\ ~Bound(r, t)'
    BY <1>6, BoundMoves
  <2>2. \A t \in States, q \in Requests \ {r} : Bound(q, t)' <=> Bound(q, t)
    BY <1>6 DEF Alone, Bound
  <2>3. \A t \in States : handed'[t] = IF Delivered(r, t) THEN handed[t] + 1 ELSE handed[t]
    BY <1>1, <1>6, HandedIs
  <2>4. \A t \in States : StateOnce(t)'
    BY <1>1, <1>6, <2>1, <2>2, <2>3 DEF StateOnce
  <2>5. ASSUME NEW t \in States, ~Delivered(r, t)
        PROVE  /\ handed'[t] = handed[t]
               /\ \/ stateGrant'[t] = stateGrant[t]
                  \/ stateGrant[t] \in {"open", "held"} /\ stateGrant'[t] = "dead"
               /\ ~Bound(r, t) => stateGrant'[t] = stateGrant[t]
    BY <1>1, <1>6, <2>1, <2>2, <2>3, <2>5, StateGrantIs DEF StateOnce
  <2>6. ASSUME NEW x \in States, Delivered(r, x)
        PROVE  /\ stateGrant[x] = "held" /\ stateGrant'[x] = "done" /\ handed'[x] = handed[x] + 1
               /\ \A t \in States \ {x} : ~Delivered(r, t) /\ ~Bound(r, t)
    <3>1. Bound(r, x) /\ ~Bound(r, x)' /\ handed[x] = 0 /\ state[x] = "spent"
      BY <2>1, <2>6 DEF StateOnce
    <3>2. stateGrant[x] = "held" /\ stateGrant'[x] = "done"
      BY <1>1, <1>6, <2>3, <2>6, <3>1, StateGrantIs
    <3>3. \A t \in States \ {x} : ~Bound(r, t)
      BY <3>1 DEF Bound
    <3> QED BY <2>1, <2>3, <2>6, <3>2, <3>3
  <2> QED BY <2>4, <2>5, <2>6 DEF StateGoes
<1>7. call' = call \/ \E r \in Requests : Alone(r) /\ Moves(r)
  BY DEF Good
<1> QED BY <1>3, <1>4, <1>5, <1>6, <1>7, StateCases

LEMMA StateNext ==
    ASSUME StateGoes
    PROVE  StateGrants!Next
<1>1. /\ stateGrant = [t \in States |-> stateGrant[t]]
      /\ stateGrant' = [t \in States |-> stateGrant'[t]]
  BY DEF stateGrant
<1>2. GrantGoes(States, stateGrant, stateGrant', fruitsOf(States), fruitsOf(States)')
  BY <1>1 DEF StateGoes, GrantGoes, fruitsOf
<1>3. GrantNext(States, stateGrant, stateGrant', fruitsOf(States), fruitsOf(States)')
  BY <1>2, GrantStep, Zenon
<1> QED BY <1>3, Zenon
        DEF GrantNext, StateGrants!Next, StateGrants!Issue, StateGrants!Take, StateGrants!Bear, StateGrants!Die

-----------------------------------------------------------------------------
\* Invitations.

\* A redemption that has validated its invitation, and is not answered.
Past(r, i) == call[r].token = i /\ call[r].at \notin {"ok", "refused", "validate"}

LEMMA InviteGrantIs ==
    ASSUME NEW i \in Invites
    PROVE  /\ inviteGrant[i] =
                IF invite[i].state \in {"none", "open"} THEN invite[i].state
                ELSE IF handed[i] > 0 THEN "done"
                ELSE IF invite[i].state = "lapsed" /\ (\E r \in Requests : Past(r, i)) THEN "open"
                ELSE IF invite[i].state = "redeemed" /\ (\E r \in Requests : Marked(r, i)) THEN "held"
                ELSE "dead"
           /\ inviteGrant'[i] =
                IF invite'[i].state \in {"none", "open"} THEN invite'[i].state
                ELSE IF handed'[i] > 0 THEN "done"
                ELSE IF invite'[i].state = "lapsed" /\ (\E r \in Requests : Past(r, i)') THEN "open"
                ELSE IF invite'[i].state = "redeemed" /\ (\E r \in Requests : Marked(r, i)') THEN "held"
                ELSE "dead"
BY DEF inviteGrant, Takes, Past, Marked

LEMMA ValidateIs ==
    ASSUME Inv, NEW r \in Requests, Validate(r), invite[call[r].token].state # "open"
    PROVE  call'[r].at = "refused"
<1>1. Goto(r, "refused")
  BY DEF Validate
<1> QED BY <1>1, CallIs, GotoIs, PointsAre DEF Left

\* A redemption that goes on while its invitation is left alone.
LEMMA PastMoves ==
    ASSUME Inv, Inv', Facts, Via', Good, Step, UNCHANGED config, invite' = invite,
           NEW r \in Requests, Alone(r), Moves(r)
    PROVE  \A i \in Invites : /\ Marked(r, i)' => Marked(r, i)
                              /\ Past(r, i)' => Past(r, i) \/ invite[i].state = "open"
                              /\ Delivered(r, i) => Marked(r, i) /\ ~Marked(r, i)'
<1> SUFFICES ASSUME NEW i \in Invites, Marked(r, i)' \/ Past(r, i)' \/ Delivered(r, i)
             PROVE  /\ Marked(r, i)' => Marked(r, i)
                    /\ Past(r, i)' => Past(r, i) \/ invite[i].state = "open"
                    /\ Delivered(r, i) => Marked(r, i) /\ ~Marked(r, i)'
  OBVIOUS
<1>1. call'[r].token = i /\ call'[r].at \notin {"validate", "refused"}
  BY TokensApart, DeliveredIs DEF Marked, Past
<1>2. call'[r].at # "idle"
  BY <1>1, TokensApart DEF Inv, FlowOK, Flowing, AtHome, TokensOf, Ending, Rollback
<1>3. call'[r].op = "redeem" /\ AtHome(call'[r])
  <2>1. Flowing(call[r])' /\ call'[r] \in Call
    BY DEF Inv, FlowOK, TypeOK, AccountsTypeOK
  <2>2. call'[r].token \in TokensOf(call'[r].op) /\ AtHome(call'[r])
    BY <1>1, <2>1 DEF Flowing
  <2> QED BY <1>1, <2>1, <2>2, TokensApart DEF TokensOf, Call
<1>4. call[r].token = i /\ call[r].at # "idle"
  <2>1. ~Enters(r)
    BY <1>1, <1>3 DEF Enters, AtHome, Ending, Rollback
  <2>2. ~Leaves(r) /\ ~Refuses(r)
    BY <1>1, <1>2 DEF Leaves, Refuses, Left
  <2>3. call[r].token = call'[r].token
    BY <2>1, <2>2 DEF Moves, Walks, OnAsBefore, Like, Mints, Turns, Opens, Trades
  <2>4. call[r].at # "idle"
    BY <1>1, <2>3, CallIs, TokensApart DEF Flowing, AtHome, TokensOf, Ending, Rollback
  <2> QED BY <1>1, <2>3, <2>4
<1>5. call'[r] # call[r] => call[r].at \notin {"ok", "refused"}
  BY <1>2, LeaveIs, AtPoints
<1>6. call[r].at = "validate" /\ call'[r] # call[r] => invite[i].state = "open"
  BY <1>1, <1>4, AtPoints, ValidateIs
<1>7. Past(r, i)' => Past(r, i) \/ invite[i].state = "open"
  BY <1>4, <1>5, <1>6 DEF Past
<1>8. Marked(r, i)' => Marked(r, i)
  <2> SUFFICES ASSUME Marked(r, i)', ~Marked(r, i) PROVE FALSE
    OBVIOUS
  <2>1. call'[r] # call[r] /\ call'[r].at = "answer"
    BY DEF Marked
  <2>2. call[r].at = "redeem"
    BY <1>3, <2>1 DEF Moves, Enters, Leaves, Refuses, Left, Walks, OnAsBefore, Like, HandChecks,
                      Mints, Turns, Opens, Trades, SignIns, Signups
  <2>3. MarkRedeemed(r)
    BY <2>1, <2>2, AtPoints
  <2>4. ~Pending(i)
    <3> SUFFICES ASSUME Pending(i) PROVE FALSE
      OBVIOUS
    <3>1. invite' = [invite EXCEPT ![i].state = "redeemed"]
      BY <1>4, <2>3 DEF MarkRedeemed
    <3>2. invite'[i].state = "redeemed"
      BY <3>1 DEF Inv, TypeOK, InvitesTypeOK, Invite
    <3> QED BY <3>2 DEF Pending
  <2>5. Goto(r, "lateCredential")
    BY <1>4, <2>3, <2>4 DEF MarkRedeemed
  <2> QED BY <2>1, <2>5, CallIs, GotoIs, PointsAre DEF Like
<1>9. Delivered(r, i) => Marked(r, i) /\ ~Marked(r, i)'
  <2> SUFFICES ASSUME Delivered(r, i) PROVE call[r].at = "answer" /\ call'[r].at = "ok"
    BY <1>4 DEF Marked
  <2>1. call'[r].at = "ok" /\ call[r].at # "ok"
    BY DEF Delivered
  <2>2. call[r].at = "answer"
    BY <1>3, <2>1 DEF Moves, Enters, Leaves, Refuses, Left, Walks, OnAsBefore, Like, HandChecks,
                      Mints, Turns, Opens, Trades, SignIns, Signups
  <2> QED BY <2>1, <2>2
<1> QED BY <1>7, <1>8, <1>9

LEMMA InviteCases ==
    ASSUME Inv, Step
    PROVE  \/ invite' = invite
           \/ \E x \in Invites :
                 /\ \A i \in Invites \ {x} : invite'[i].state = invite[i].state
                 /\ \/ invite[x].state = "none" /\ invite'[x].state = "open" /\ call' = call
                    \/ invite[x].state = "open" /\ invite'[x].state = "lapsed" /\ call' = call
                    \/ /\ invite[x].state \in {"open", "lapsed"} /\ invite'[x].state = "revoked"
                       /\ call' = call
                    \/ /\ invite[x].state \in {"open", "lapsed"} /\ invite'[x].state = "redeemed"
                       /\ \E r \in Requests :
                             /\ Alone(r) /\ Like(call[r], call'[r], "answer")
                             /\ call[r].at = "redeem" /\ call[r].token = x
<1>1. invite \in [Invites -> Invite] /\ call \in [Requests -> Call]
  BY CallIs DEF Inv, TypeOK, InvitesTypeOK
<1>2. \/ invite' = invite
      \/ \E x \in Invites : (\E a \in config.addresses : IssueInvite(x, a)) \/ InviteLapses(x) \/ RevokeInvite(x)
      \/ \E r \in Requests : MarkRedeemed(r)
  BY DEF Step, inviteVars, InviteStep, Redeem, Validate, AssignRole, Answer
<1>3. ASSUME NEW x \in Invites, (\E a \in config.addresses : IssueInvite(x, a)) \/ InviteLapses(x) \/ RevokeInvite(x)
      PROVE  /\ \A i \in Invites \ {x} : invite'[i].state = invite[i].state
             /\ \/ invite[x].state = "none" /\ invite'[x].state = "open" /\ call' = call
                \/ invite[x].state = "open" /\ invite'[x].state = "lapsed" /\ call' = call
                \/ /\ invite[x].state \in {"open", "lapsed"} /\ invite'[x].state = "revoked"
                   /\ call' = call
  <2>1. ASSUME NEW a \in config.addresses, IssueInvite(x, a)
        PROVE  /\ \A i \in Invites \ {x} : invite'[i].state = invite[i].state
               /\ invite[x].state = "none" /\ invite'[x].state = "open" /\ call' = call
    BY <1>1, <2>1 DEF IssueInvite
  <2>2. CASE InviteLapses(x)
    BY <1>1, <2>2 DEF InviteLapses, Invite
  <2>3. CASE RevokeInvite(x)
    BY <1>1, <2>3 DEF RevokeInvite, Pending, Invite
  <2> QED BY <1>3, <2>1, <2>2, <2>3
<1>4. ASSUME NEW r \in Requests, MarkRedeemed(r), invite' # invite
      PROVE  LET x == call[r].token
             IN  /\ x \in Invites /\ \A i \in Invites \ {x} : invite'[i].state = invite[i].state
                 /\ invite[x].state \in {"open", "lapsed"} /\ invite'[x].state = "redeemed"
                 /\ Alone(r) /\ Like(call[r], call'[r], "answer") /\ call[r].at = "redeem"
  <2>1. call[r].at = "redeem" /\ call[r].op = "redeem" /\ call[r].path = "redeem"
    BY <1>4, CallIs DEF MarkRedeemed, AtHome, Ending, Rollback
  <2>2. call[r].token \in Invites
    BY <2>1, CallIs DEF Flowing, TokensOf
  <2>3. /\ invite[call[r].token].state \in {"open", "lapsed"} /\ Goto(r, "answer")
        /\ invite' = [invite EXCEPT ![call[r].token].state = "redeemed"]
    <3>1. Then(call[r]) = "answer"
      BY <2>1, CallIs, NextPoint DEF Flowing
    <3> QED BY <1>4, <3>1, Zenon DEF MarkRedeemed, Pending
  <2>4. Alone(r) /\ Like(call[r], call'[r], "answer")
    BY <1>1, <2>3, GotoIs, PointsAre
  <2>5. /\ invite'[call[r].token].state = "redeemed"
        /\ \A i \in Invites \ {call[r].token} : invite'[i].state = invite[i].state
    BY <1>1, <2>2, <2>3 DEF Invite
  <2> QED BY <2>1, <2>2, <2>3, <2>4, <2>5
<1> QED BY <1>2, <1>3, <1>4

InviteGoes ==
    \/ \A t \in Invites : /\ handed'[t] = handed[t]
                          /\ \/ inviteGrant'[t] = inviteGrant[t]
                             \/ inviteGrant[t] \in {"open", "held"} /\ inviteGrant'[t] = "dead"
    \/ \E x \in Invites :
          /\ \/ inviteGrant[x] = "none" /\ inviteGrant'[x] = "open" /\ handed'[x] = handed[x]
             \/ inviteGrant[x] = "open" /\ inviteGrant'[x] = "held" /\ handed'[x] = handed[x]
             \/ inviteGrant[x] = "held" /\ inviteGrant'[x] = "done" /\ handed'[x] = handed[x] + 1
          /\ \A t \in Invites \ {x} : inviteGrant'[t] = inviteGrant[t] /\ handed'[t] = handed[t]

LEMMA InviteStepIs ==
    ASSUME Inv, Inv', Facts, Via', \A i \in Invites : InviteOnce(i), Good, Step, History, UNCHANGED config
    PROVE  InviteGoes /\ \A i \in Invites : InviteOnce(i)'
<1>1. \A i \in Invites : i \in Grants /\ handed[i] \in Nat
  BY TokensApart DEF Inv, TypeOK
<1>2. ASSUME call' = call
      PROVE  /\ \A i \in Invites : handed'[i] = handed[i]
             /\ \A i \in Invites, r \in Requests : /\ Marked(r, i)' <=> Marked(r, i)
                                                   /\ Past(r, i)' <=> Past(r, i)
  BY <1>1, <1>2, HandedIs DEF Marked, Past
<1>3. CASE invite' = invite /\ call' = call
  <2>1. \A i \in Invites : inviteGrant'[i] = inviteGrant[i] /\ handed'[i] = handed[i]
    BY <1>2, <1>3, InviteGrantIs
  <2>2. \A i \in Invites : InviteOnce(i)'
    BY <1>2, <1>3 DEF InviteOnce
  <2> QED BY <2>1, <2>2 DEF InviteGoes
<1>4. ASSUME NEW x \in Invites, call' = call,
             \A i \in Invites \ {x} : invite'[i].state = invite[i].state,
             \/ invite[x].state = "none" /\ invite'[x].state = "open"
             \/ invite[x].state = "open" /\ invite'[x].state = "lapsed"
             \/ invite[x].state \in {"open", "lapsed"} /\ invite'[x].state = "revoked"
      PROVE  InviteGoes /\ \A i \in Invites : InviteOnce(i)'
  <2>1. \A i \in Invites \ {x} : inviteGrant'[i] = inviteGrant[i] /\ handed'[i] = handed[i]
    BY <1>2, <1>4, InviteGrantIs
  <2>2. handed'[x] = handed[x] /\ handed[x] = 0 /\ \A r \in Requests : ~Marked(r, x)'
    BY <1>2, <1>4 DEF InviteOnce
  <2>3. \/ inviteGrant[x] = "none" /\ inviteGrant'[x] = "open"
        \/ inviteGrant'[x] = inviteGrant[x]
        \/ inviteGrant[x] = "open" /\ inviteGrant'[x] = "dead"
    BY <1>4, <2>2, InviteGrantIs
  <2>4. \A i \in Invites : InviteOnce(i)'
    BY <1>2, <1>4, <2>2 DEF InviteOnce
  <2> QED BY <2>1, <2>2, <2>3, <2>4 DEF InviteGoes
<1>5. ASSUME NEW x \in Invites, NEW r \in Requests,
             \A i \in Invites \ {x} : invite'[i].state = invite[i].state,
             invite[x].state \in {"open", "lapsed"}, invite'[x].state = "redeemed",
             Alone(r), Like(call[r], call'[r], "answer"), call[r].at = "redeem", call[r].token = x
      PROVE  InviteGoes /\ \A i \in Invites : InviteOnce(i)'
  <2>1. \A i \in Invites : handed'[i] = handed[i]
    BY <1>1, <1>5, HandedIs DEF Delivered, Like
  <2>2. \A i \in Invites \ {x}, q \in Requests : /\ Marked(q, i)' <=> Marked(q, i)
                                                 /\ Past(q, i)' <=> Past(q, i)
    BY <1>5 DEF Marked, Past, Like, Alone
  <2>3. \A i \in Invites \ {x} : inviteGrant'[i] = inviteGrant[i]
    BY <1>5, <2>1, <2>2, InviteGrantIs
  <2>4. handed[x] = 0 /\ \A q \in Requests : ~Marked(q, x)
    BY <1>5 DEF InviteOnce
  <2>5. Marked(r, x)' /\ \A q \in Requests : Marked(q, x)' => q = r
    BY <1>5, <2>4 DEF Marked, Like, Alone
  <2>6. Past(r, x)
    BY <1>5 DEF Past
  <2>7. inviteGrant[x] = "open" /\ inviteGrant'[x] = "held"
    BY <1>5, <2>1, <2>4, <2>5, <2>6, InviteGrantIs
  <2>8. \A i \in Invites : InviteOnce(i)'
    BY <1>5, <2>1, <2>2, <2>4, <2>5 DEF InviteOnce
  <2> QED BY <2>1, <2>3, <2>7, <2>8 DEF InviteGoes
<1>6. ASSUME NEW r \in Requests, invite' = invite, Alone(r), Moves(r)
      PROVE  InviteGoes /\ \A i \in Invites : InviteOnce(i)'
  <2>1. \A i \in Invites : /\ Marked(r, i)' => Marked(r, i)
                           /\ Past(r, i)' => Past(r, i) \/ invite[i].state = "open"
                           /\ Delivered(r, i) => Marked(r, i) /\ ~Marked(r, i)'
    BY <1>6, PastMoves
  <2>2. \A i \in Invites, q \in Requests \ {r} : /\ Marked(q, i)' <=> Marked(q, i)
                                                 /\ Past(q, i)' <=> Past(q, i)
    BY <1>6 DEF Alone, Marked, Past
  <2>3. \A i \in Invites : handed'[i] = IF Delivered(r, i) THEN handed[i] + 1 ELSE handed[i]
    BY <1>1, <1>6, HandedIs
  <2>4. \A i \in Invites : InviteOnce(i)'
    BY <1>1, <1>6, <2>1, <2>2, <2>3 DEF InviteOnce
  <2>5. ASSUME NEW i \in Invites, ~Delivered(r, i)
        PROVE  /\ handed'[i] = handed[i]
               /\ \/ inviteGrant'[i] = inviteGrant[i]
                  \/ inviteGrant[i] \in {"open", "held"} /\ inviteGrant'[i] = "dead"
               /\ call[r].token # i => inviteGrant'[i] = inviteGrant[i]
    <3>1. handed'[i] = handed[i] /\ handed[i] \in Nat /\ invite'[i].state = invite[i].state
      BY <1>1, <1>6, <2>3, <2>5
    <3>2. invite[i].state # "redeemed" => handed[i] = 0
      BY DEF InviteOnce
    <3>3. (\E q \in Requests : Marked(q, i)') => \E q \in Requests : Marked(q, i)
      BY <2>1, <2>2
    <3>4. invite[i].state = "lapsed" /\ (\E q \in Requests : Past(q, i)') => \E q \in Requests : Past(q, i)
      BY <2>1, <2>2
    <3>5. \/ inviteGrant'[i] = inviteGrant[i]
          \/ inviteGrant[i] \in {"open", "held"} /\ inviteGrant'[i] = "dead"
      BY <3>1, <3>2, <3>3, <3>4, InviteGrantIs
    <3>6. ASSUME call[r].token # i
          PROVE  inviteGrant'[i] = inviteGrant[i]
      <4>1. (\E q \in Requests : Marked(q, i)) => \E q \in Requests : Marked(q, i)'
        BY <2>2, <3>6 DEF Marked
      <4>2. (\E q \in Requests : Past(q, i)) => \E q \in Requests : Past(q, i)'
        BY <2>2, <3>6 DEF Past
      <4> QED BY <3>1, <3>3, <3>4, <4>1, <4>2, InviteGrantIs
    <3> QED BY <3>1, <3>5, <3>6
  <2>6. ASSUME NEW x \in Invites, Delivered(r, x)
        PROVE  /\ inviteGrant[x] = "held" /\ inviteGrant'[x] = "done" /\ handed'[x] = handed[x] + 1
               /\ \A i \in Invites \ {x} : ~Delivered(r, i) /\ call[r].token # i
    <3>1. Marked(r, x) /\ ~Marked(r, x)' /\ handed[x] = 0 /\ invite[x].state = "redeemed"
      BY <2>1, <2>6 DEF InviteOnce
    <3>2. inviteGrant[x] = "held" /\ inviteGrant'[x] = "done"
      BY <1>1, <1>6, <2>3, <2>6, <3>1, InviteGrantIs
    <3>3. \A i \in Invites \ {x} : call[r].token # i
      BY <3>1 DEF Marked
    <3>4. \A i \in Invites \ {x} : ~Delivered(r, i)
      BY <2>1, <3>3 DEF Marked
    <3> QED BY <2>3, <2>6, <3>2, <3>3, <3>4
  <2> QED BY <2>4, <2>5, <2>6 DEF InviteGoes
<1>7. call' = call \/ \E r \in Requests : Alone(r) /\ Moves(r)
  BY DEF Good
<1>8. CASE invite' = invite
  BY <1>3, <1>6, <1>7, <1>8
<1>9. CASE invite' # invite
  BY <1>4, <1>5, <1>9, InviteCases
<1> QED BY <1>8, <1>9

LEMMA InviteNext ==
    ASSUME InviteGoes
    PROVE  InviteGrants!Next
<1>1. /\ inviteGrant = [i \in Invites |-> inviteGrant[i]]
      /\ inviteGrant' = [i \in Invites |-> inviteGrant'[i]]
  BY DEF inviteGrant
<1>2. GrantGoes(Invites, inviteGrant, inviteGrant', fruitsOf(Invites), fruitsOf(Invites)')
  BY <1>1 DEF InviteGoes, GrantGoes, fruitsOf
<1>3. GrantNext(Invites, inviteGrant, inviteGrant', fruitsOf(Invites), fruitsOf(Invites)')
  BY <1>2, GrantStep, Zenon
<1> QED BY <1>3, Zenon
        DEF GrantNext, InviteGrants!Next, InviteGrants!Issue, InviteGrants!Take, InviteGrants!Bear, InviteGrants!Die

-----------------------------------------------------------------------------
\* Links.

\* A code whose session, and with it its own row, is still there.
Live(k, l) == Coded(k, l) /\ session[code[k].s].state # "gone"

LEMMA LinkGrantIs ==
    ASSUME NEW l \in Links
    PROVE  /\ linkGrant[l] =
                IF link[l].state \in {"none", "open"} THEN link[l].state
                ELSE IF handed[l] > 0 THEN "done"
                ELSE IF link[l].state = "spent"
                          /\ \/ \E r \in Requests : Clicked(r, l) \/ Traded(r, l)
                             \/ \E k \in Codes : Live(k, l)
                THEN "held"
                ELSE "dead"
           /\ linkGrant'[l] =
                IF link'[l].state \in {"none", "open"} THEN link'[l].state
                ELSE IF handed'[l] > 0 THEN "done"
                ELSE IF link'[l].state = "spent"
                          /\ \/ \E r \in Requests : Clicked(r, l)' \/ Traded(r, l)'
                             \/ \E k \in Codes : Live(k, l)'
                THEN "held"
                ELSE "dead"
<1>1. Carried(l) <=> \/ \E r \in Requests : Clicked(r, l) \/ Traded(r, l)
                     \/ \E k \in Codes : Live(k, l)
  BY DEF Carried, Takes, Clicked, Traded, Live, Coded
<1>2. Carried(l)' <=> \/ \E r \in Requests : Clicked(r, l)' \/ Traded(r, l)'
                      \/ \E k \in Codes : Live(k, l)'
  BY DEF Carried, Takes, Clicked, Traded, Live, Coded
<1> QED BY <1>1, <1>2 DEF linkGrant

\* What a row or a handler that is left alone says of every link.
LEMMA RowsKept ==
    ASSUME Inv, Good, NEW l \in Links
    PROVE  /\ \A k \in Codes : code'[k] = code[k] =>
                 /\ Coded(k, l)' <=> Coded(k, l)
                 /\ Live(k, l)' => Live(k, l)
                 /\ (\A s \in SessionIds : session'[s].state = "gone" => session[s].state = "gone")
                       => (Live(k, l)' <=> Live(k, l))
           /\ \A q \in Requests : call'[q] = call[q] =>
                 (Clicked(q, l)' <=> Clicked(q, l)) /\ (Traded(q, l)' <=> Traded(q, l))
<1>1. \A s \in SessionIds : session[s].state # "free" =>
         /\ session'[s].state # "free" /\ session'[s].via = session[s].via
         /\ session[s].state = "gone" => session'[s].state = "gone"
  BY DEF Good, RowsGood, Grown
<1>2. ASSUME NEW k \in Codes, code'[k] = code[k]
      PROVE  /\ Coded(k, l)' <=> Coded(k, l)
             /\ Live(k, l)' => Live(k, l)
             /\ (\A s \in SessionIds : session'[s].state = "gone" => session[s].state = "gone")
                   => (Live(k, l)' <=> Live(k, l))
  <2>1. CASE code[k].state = "open"
    <3>1. code[k].s \in SessionIds /\ session[code[k].s].state # "free"
      BY <2>1 DEF Inv, Keyed
    <3> QED BY <1>1, <1>2, <2>1, <3>1 DEF Coded, Live
  <2>2. CASE code[k].state # "open"
    BY <1>2, <2>2 DEF Coded, Live
  <2> QED BY <2>1, <2>2
<1>3. ASSUME NEW q \in Requests, call'[q] = call[q]
      PROVE  (Clicked(q, l)' <=> Clicked(q, l)) /\ (Traded(q, l)' <=> Traded(q, l))
  <2>1. Clicked(q, l)' <=> Clicked(q, l)
    BY <1>3 DEF Clicked
  <2>2. call[q].at \in {"issue", "status"} => session'[call[q].s].via = session[call[q].s].via
    BY <1>1, CallIs DEF Flowing, HasSession
  <2> QED BY <1>3, <2>1, <2>2 DEF Traded
<1> QED BY <1>2, <1>3

LEMMA DeleteUserIs ==
    ASSUME Inv, NEW r \in Requests, DeleteUser(r)
    PROVE  call'[r].at \in {"lateProfile", "refused", "again"}
<1>1. \/ Goto(r, "lateProfile") \/ Goto(r, "refused") \/ Goto(r, "again")
  BY DEF DeleteUser
<1> QED BY <1>1, CallIs, GotoIs, PointsAre DEF Like, Left

\* Sessions go with their account, and only so.
LEMMA Deletions ==
    ASSUME Inv, Step
    PROVE  \/ \A s \in SessionIds : session'[s].state = "gone" => session[s].state = "gone"
           \/ \E r \in Requests : DeleteUser(r)
<1> DEFINE Stays == \A s \in SessionIds : session'[s].state = "gone" => session[s].state = "gone"
<1>1. session \in [SessionIds -> Session]
  BY DEF Inv, TypeOK, AccountsTypeOK
<1>2. ASSUME NEW S, NEW p \in {"pending", "revoked"}, SetSessions(S, p)
      PROVE  Stays
  BY <1>1, <1>2 DEF SetSessions, Session
<1>3. session' = session => Stays
  OBVIOUS
<1>4. ASSUME NEW r \in Requests, Create(r)
      PROVE  Stays \/ DeleteUser(r)
  <2>1. CASE InsertSession(r)
    <3>1. \/ session' = session
          \/ \E s \in SessionIds :
                session' = [session EXCEPT ![s] = [state |-> "open", user |-> call[r].u, via |-> call[r].token]]
      BY <2>1, Zenon DEF InsertSession
    <3>2. ASSUME NEW s \in SessionIds,
                 session' = [session EXCEPT ![s] = [state |-> "open", user |-> call[r].u, via |-> call[r].token]]
          PROVE  Stays
      BY <1>1, <3>2
    <3> QED BY <3>1, <3>2
  <2> QED BY <1>3, <1>4, <2>1 DEF Create, Taken, InsertUser, InsertCredential, InsertProfile, Mark,
                                  OnSignup, DeleteProfile, DeleteCredential, rows
<1>5. ASSUME NEW r \in Requests, SignInTail(r)
      PROVE  Stays
  BY <1>2, <1>3, <1>5 DEF SignInTail, Second, Pend, OnLogin, Revoke, rows
<1>6. AccountStep => Stays \/ \E r \in Requests : DeleteUser(r)
  BY <1>3, <1>4, <1>5 DEF AccountStep, Others, HostSetStatus, Promote, Enrol, Signup, Leave, rows
<1>7. LinkStep => Stays
  <2>1. ASSUME NEW r \in Requests, Sweep(r)
        PROVE  Stays
    BY <1>2, <1>3, <2>1 DEF Sweep
  <2> QED BY <1>3, <2>1 DEF LinkStep, Issue, Lapse, Click, Exchange, ConsumeLink, Find, Again, Reread,
         CheckStaff, CheckPassword, RemovePassword, RemoveFactors, CreateCode, BurnCode,
         IssueToken, CheckStatus, rows
<1>8. OAuthStep \/ InviteStep => Stays
  BY <1>3 DEF OAuthStep, AuthURL, StateLapses, Callback, ConsumeState, Identify, Lookup, Match,
              InsertLink, Look, Greet, CheckLocked, CompleteTenancy, InviteStep, IssueInvite,
              InviteLapses, RevokeInvite, Redeem, Validate, AssignRole, MarkRedeemed, Answer, rows
<1> QED BY <1>6, <1>7, <1>8 DEF Step

LEMMA LinkCases ==
    ASSUME Inv, Step
    PROVE  \/ link' = link
           \/ \E x \in Links :
                 /\ \A l \in Links \ {x} : link'[l].state = link[l].state
                 /\ code' = code /\ session' = session
                 /\ \/ link[x].state = "none" /\ link'[x].state = "open" /\ call' = call
                    \/ link[x].state = "open" /\ link'[x].state = "lapsed" /\ call' = call
                    \/ /\ link[x].state = "open" /\ link'[x].state = "spent"
                       /\ \E r \in Requests :
                             /\ Alone(r) /\ Like(call[r], call'[r], "find")
                             /\ call[r].at = "consume" /\ call[r].token = x
<1>1. link \in [Links -> Link] /\ call \in [Requests -> Call]
  BY CallIs DEF Inv, TypeOK, LinksTypeOK
<1>2. \/ link' = link \/ Lapse
      \/ \E x \in Links, a \in config.addresses : Issue(x, a)
      \/ \E r \in Requests : ConsumeLink(r)
  BY DEF Step, linkVars, LinkStep, Click, Exchange, Find, Again, Reread, CheckStaff, CheckPassword,
         Sweep, RemovePassword, RemoveFactors, CreateCode, BurnCode, IssueToken, CheckStatus
<1>3. ASSUME NEW x \in Links, NEW a \in config.addresses, Issue(x, a)
      PROVE  /\ \A l \in Links \ {x} : link'[l].state = link[l].state
             /\ code' = code /\ session' = session
             /\ link[x].state = "none" /\ link'[x].state = "open" /\ call' = call
  BY <1>1, <1>3 DEF Issue, rows
<1>4. CASE Lapse /\ link' # link
  <2>1. PICK x \in Links : link[x].state = "open" /\ link' = [link EXCEPT ![x].state = "lapsed"]
    BY <1>4 DEF Lapse
  <2>2. code' = code /\ session' = session /\ call' = call
    BY <1>4 DEF Lapse, rows
  <2>3. link'[x].state = "lapsed" /\ \A l \in Links \ {x} : link'[l].state = link[l].state
    BY <1>1, <2>1 DEF Link
  <2> QED BY <2>1, <2>2, <2>3
<1>5. ASSUME NEW r \in Requests, ConsumeLink(r), link' # link
      PROVE  LET x == call[r].token
             IN  /\ x \in Links /\ \A l \in Links \ {x} : link'[l].state = link[l].state
                 /\ code' = code /\ session' = session
                 /\ link[x].state = "open" /\ link'[x].state = "spent"
                 /\ Alone(r) /\ Like(call[r], call'[r], "find") /\ call[r].at = "consume"
  <2>1. call[r].at = "consume" /\ call[r].op = "click"
    BY <1>5, CallIs DEF ConsumeLink, AtHome, Ending, Rollback
  <2>2. call[r].token \in Links
    BY <2>1, CallIs DEF Flowing, TokensOf
  <2>3. /\ link[call[r].token].state = "open" /\ Goto(r, "find")
        /\ link' = [link EXCEPT ![call[r].token].state = "spent"]
        /\ code' = code /\ session' = session
    BY <1>5 DEF ConsumeLink, rows
  <2>4. Alone(r) /\ Like(call[r], call'[r], "find")
    BY <1>1, <2>3, GotoIs, PointsAre
  <2>5. /\ link'[call[r].token].state = "spent"
        /\ \A l \in Links \ {call[r].token} : link'[l].state = link[l].state
    BY <1>1, <2>2, <2>3 DEF Link
  <2> QED BY <2>1, <2>2, <2>3, <2>4, <2>5
<1> QED BY <1>2, <1>3, <1>4, <1>5

\* A sign-in by link, or the exchange of its code, that goes on while links and codes
\* are left alone.
LEMMA CarriedMoves ==
    ASSUME Inv, Inv', Facts, Via', Good, Step, UNCHANGED config, link' = link, code' = code,
           NEW r \in Requests, Alone(r), Moves(r)
    PROVE  \A l \in Links : /\ Clicked(r, l)' => Clicked(r, l)
                            /\ Traded(r, l)' => Traded(r, l)
                            /\ Delivered(r, l) => /\ Clicked(r, l) \/ Traded(r, l)
                                                  /\ ~Clicked(r, l)' /\ ~Traded(r, l)'
<1> SUFFICES ASSUME NEW l \in Links
             PROVE  /\ Clicked(r, l)' => Clicked(r, l)
                    /\ Traded(r, l)' => Traded(r, l)
                    /\ Delivered(r, l) => /\ Clicked(r, l) \/ Traded(r, l)
                                          /\ ~Clicked(r, l)' /\ ~Traded(r, l)'
  OBVIOUS
<1>1. ASSUME call'[r].token = l, call'[r].at \notin {"consume", "refused"}, call'[r].at # "ok" \/ call'[r] # call[r]
      PROVE  Clicked(r, l)
  <2>1. call'[r].at # "idle"
    BY <1>1, TokensApart DEF Inv, FlowOK, Flowing, AtHome, TokensOf, Ending, Rollback
  <2>2. call'[r].op = "click" /\ AtHome(call'[r])
    <3>1. Flowing(call[r])' /\ call'[r] \in Call
      BY DEF Inv, FlowOK, TypeOK, AccountsTypeOK
    <3>2. call'[r].token \in TokensOf(call'[r].op) /\ AtHome(call'[r])
      BY <1>1, <3>1 DEF Flowing
    <3> QED BY <1>1, <3>1, <3>2, TokensApart DEF TokensOf, Call
  <2>3. call[r].token = l /\ call[r].at # "idle"
    <3>1. ~Enters(r)
      BY <1>1, <2>2 DEF Enters, AtHome, Ending, Rollback
    <3>2. ~Leaves(r) /\ ~Refuses(r)
      BY <1>1, <2>1 DEF Leaves, Refuses, Left
    <3>3. call[r].token = call'[r].token
      BY <3>1, <3>2 DEF Moves, Walks, OnAsBefore, Like, Mints, Turns, Opens, Trades
    <3>4. call[r].at # "idle"
      BY <1>1, <3>3, CallIs, TokensApart DEF Flowing, AtHome, TokensOf, Ending, Rollback
    <3> QED BY <1>1, <3>3, <3>4
  <2>4. CASE call'[r] = call[r]
    BY <1>1, <2>3, <2>4 DEF Clicked
  <2>5. CASE call'[r] # call[r]
    <3>1. ~Leave(r)
      BY <2>1, LeaveIs
    <3>2. ~ConsumeLink(r)
      <4> SUFFICES ASSUME ConsumeLink(r) PROVE FALSE
        OBVIOUS
      <4>1. link[l].state # "open"
        BY <2>3 DEF ConsumeLink, Inv, TypeOK, LinksTypeOK, Link
      <4>2. Goto(r, "refused")
        BY <2>3, <4>1 DEF ConsumeLink
      <4> QED BY <1>1, <4>2, CallIs, GotoIs, PointsAre DEF Left
    <3> QED BY <2>3, <2>5, <3>1, <3>2, AtPoints DEF Clicked
  <2> QED BY <2>4, <2>5
<1>2. Clicked(r, l)' => Clicked(r, l)
  BY <1>1 DEF Clicked
<1>3. ASSUME call'[r].op = "exchange", call'[r].at \in {"issue", "status", "ok"},
             call'[r].at # "ok" \/ call'[r] # call[r], session'[call'[r].s].via = l
      PROVE  Traded(r, l)
  <2>1. \A s \in SessionIds : session[s].state # "free" => session'[s].via = session[s].via
    BY DEF Good, RowsGood, Grown
  <2>2. CASE call'[r] = call[r]
    <3>1. call[r].s \in SessionIds /\ session[call[r].s].state # "free"
      BY <1>3, <2>2, CallIs DEF Flowing, HasSession
    <3> QED BY <1>3, <2>1, <2>2, <3>1 DEF Traded
  <2>3. CASE call'[r] # call[r]
    <3>1. ~BurnCode(r)
      <4> SUFFICES ASSUME BurnCode(r) PROVE FALSE
        OBVIOUS
      <4>1. CASE call'[r].at = "refused"
        BY <1>3, <4>1
      <4>2. ASSUME NEW k \in Codes, Burns(r, k)
            PROVE  FALSE
        BY <4>2 DEF Burns
      <4> QED BY <4>1, <4>2, BurnCodeIs
    <3>2. ~Leave(r)
      BY <1>3, LeaveIs
    <3>3. ~Revoke(r)
      <4> SUFFICES ASSUME Revoke(r) PROVE FALSE
        OBVIOUS
      <4>1. Goto(r, "refused")
        BY DEF Revoke
      <4> QED BY <1>3, <4>1, CallIs, GotoIs, PointsAre DEF Left
    <3>4. call[r].at \notin {"burn", "ok", "refused", "revoke"}
      BY <2>3, <3>1, <3>2, <3>3, AtPoints
    <3>5. call[r].op = "exchange" /\ call'[r].s = call[r].s
      BY <1>3, <3>4 DEF Moves, Enters, Leaves, Refuses, Left, Walks, OnAsBefore, Like, Mints, Turns,
                        Opens, Trades, SignIns, AtHome, Ending, Rollback
    <3>6. call[r].at \in {"issue", "status"}
      BY <1>3, <3>4, <3>5, CallIs DEF Flowing, AtHome, Moves, Enters, Walks, OnAsBefore, HasSession,
                        Trades, Mints, Turns, Opens, Leaves, Refuses, Left, Like, Signups
    <3>7. call[r].s \in SessionIds /\ session[call[r].s].state # "free"
      BY <3>6, CallIs DEF Flowing, HasSession
    <3> QED BY <1>3, <2>1, <3>5, <3>6, <3>7 DEF Traded
  <2> QED BY <2>2, <2>3
<1>4. Traded(r, l)' => Traded(r, l)
  BY <1>3 DEF Traded
<1>5. Delivered(r, l) => Clicked(r, l) \/ Traded(r, l)
  BY <1>1, <1>3, TokensApart, DeliveredIs
<1>6. Delivered(r, l) => ~Clicked(r, l)' /\ ~Traded(r, l)'
  BY DEF Delivered, Clicked, Traded
<1> QED BY <1>2, <1>4, <1>5, <1>6

\* A link whose click, codes and exchanges only become fewer.
LEMMA LinkFades ==
    ASSUME NEW l \in Links, LinkOnce(l), handed[l] \in Nat, handed'[l] = handed[l],
           link'[l].state = link[l].state,
           \A r \in Requests : (Clicked(r, l)' => Clicked(r, l)) /\ (Traded(r, l)' => Traded(r, l)),
           \A k \in Codes : (Coded(k, l)' => Coded(k, l)) /\ (Live(k, l)' => Live(k, l))
    PROVE  /\ LinkOnce(l)'
           /\ linkGrant'[l] = linkGrant[l] \/ (linkGrant[l] = "held" /\ linkGrant'[l] = "dead")
<1>1. LinkOnce(l)'
  BY DEF LinkOnce
<1>2. linkGrant'[l] = linkGrant[l] \/ (linkGrant[l] = "held" /\ linkGrant'[l] = "dead")
  BY LinkGrantIs
<1> QED BY <1>1, <1>2

\* ... or stay.
LEMMA LinkStays ==
    ASSUME NEW l \in Links, LinkOnce(l), handed[l] \in Nat, handed'[l] = handed[l],
           link'[l].state = link[l].state,
           \A r \in Requests : (Clicked(r, l)' <=> Clicked(r, l)) /\ (Traded(r, l)' <=> Traded(r, l)),
           \A k \in Codes : (Coded(k, l)' <=> Coded(k, l)) /\ (Live(k, l)' <=> Live(k, l))
    PROVE  LinkOnce(l)' /\ linkGrant'[l] = linkGrant[l]
<1>1. LinkOnce(l)'
  BY DEF LinkOnce
<1>2. linkGrant'[l] = linkGrant[l]
  BY LinkGrantIs
<1> QED BY <1>1, <1>2

LinkGoes ==
    \/ \A t \in Links : /\ handed'[t] = handed[t]
                        /\ \/ linkGrant'[t] = linkGrant[t]
                           \/ linkGrant[t] \in {"open", "held"} /\ linkGrant'[t] = "dead"
    \/ \E x \in Links :
          /\ \/ linkGrant[x] = "none" /\ linkGrant'[x] = "open" /\ handed'[x] = handed[x]
             \/ linkGrant[x] = "open" /\ linkGrant'[x] = "held" /\ handed'[x] = handed[x]
             \/ linkGrant[x] = "held" /\ linkGrant'[x] = "done" /\ handed'[x] = handed[x] + 1
          /\ \A t \in Links \ {x} : linkGrant'[t] = linkGrant[t] /\ handed'[t] = handed[t]

\* The code takes over from the click that made it.
LEMMA HandsIs ==
    ASSUME Inv, Inv', Via, Via', \A l \in Links : LinkOnce(l), Good, History, UNCHANGED config,
           link' = link, NEW r \in Requests, NEW k \in Codes, Hands(r, k), Alone(r)
    PROVE  LinkGoes /\ \A l \in Links : LinkOnce(l)'
<1>1. /\ call[r].at = "code" /\ call'[r].at = "ok" /\ session[call[r].s].state # "gone"
      /\ code[k].state = "none" /\ code'[k].state = "open" /\ code'[k].s = call[r].s
      /\ \A j \in Codes \ {k} : code'[j] = code[j]
      /\ session' = session
  BY DEF Hands, CreateCode, rows
<1>2. call[r].op = "click" /\ HasSession(call[r]) /\ CodeFlow
  BY <1>1, CallIs DEF AtHome, HasSession, Ending, Rollback, Via
<1>3. PICK x \in Links : call[r].token = x /\ session[call[r].s].via = x
  BY <1>1, <1>2, CallIs DEF Flowing, TokensOf, Via
<1>4. call'[r].op = "click" /\ call'[r].token = x
  <2>1. Goto(r, "ok")
    <3>1. ~Goto(r, "revoke")
      BY <1>1, CallIs, GotoIs, PointsAre DEF Like
    <3> QED BY <3>1 DEF Hands, CreateCode
  <2> QED BY <1>2, <1>3, <2>1, CallIs, GotoIs, PointsAre DEF Like
<1>5. \A l \in Links : l \in Grants /\ handed[l] \in Nat
  BY TokensApart DEF Inv, TypeOK
<1>6. \A l \in Links : handed'[l] = handed[l]
  <2>1. CodeFlow' = CodeFlow
    BY DEF CodeFlow
  <2> QED BY <1>2, <1>4, <1>5, HandedIs DEF Delivered
<1>7. \A l \in Links, q \in Requests \ {r} : (Clicked(q, l)' <=> Clicked(q, l)) /\ (Traded(q, l)' <=> Traded(q, l))
  BY RowsKept DEF Alone
<1>8. \A l \in Links, j \in Codes \ {k} : (Coded(j, l)' <=> Coded(j, l)) /\ (Live(j, l)' <=> Live(j, l))
  BY <1>1, RowsKept
<1>9. \A l \in Links : ~Clicked(r, l)' /\ ~Traded(r, l)' /\ ~Traded(r, l) /\ ~Coded(k, l) /\ ~Live(k, l)
  BY <1>1, <1>4, <1>2 DEF Clicked, Traded, Coded, Live
<1>10. ASSUME NEW l \in Links, l # x
       PROVE  LinkOnce(l)' /\ linkGrant'[l] = linkGrant[l]
  <2>1. ~Clicked(r, l) /\ ~Coded(k, l)' /\ ~Live(k, l)'
    BY <1>1, <1>3, <1>10 DEF Clicked, Coded, Live
  <2>2. LinkOnce(l)
    BY <1>10
  <2>3. \A q \in Requests : (Clicked(q, l)' <=> Clicked(q, l)) /\ (Traded(q, l)' <=> Traded(q, l))
    BY <1>7, <1>9, <2>1
  <2>4. \A j \in Codes : (Coded(j, l)' <=> Coded(j, l)) /\ (Live(j, l)' <=> Live(j, l))
    BY <1>8, <1>9, <2>1
  <2> QED BY <1>5, <1>6, <2>2, <2>3, <2>4, LinkStays
<1>11. LinkOnce(x)' /\ linkGrant'[x] = linkGrant[x]
  <2>1. Clicked(r, x) /\ Coded(k, x)' /\ Live(k, x)'
    BY <1>1, <1>3 DEF Clicked, Coded, Live
  <2>2. /\ link[x].state = "spent" /\ handed[x] = 0
        /\ \A q \in Requests : (Clicked(q, x) => q = r) /\ ~Traded(q, x)
        /\ \A j \in Codes : ~Coded(j, x)
    BY <1>3, <1>5, <2>1 DEF LinkOnce
  <2>3. /\ link'[x].state = "spent" /\ handed'[x] = 0
        /\ \A q \in Requests : ~Clicked(q, x)' /\ ~Traded(q, x)'
        /\ \A j \in Codes : Coded(j, x)' => j = k
    BY <1>3, <1>6, <1>7, <1>8, <1>9, <2>2
  <2>4. LinkOnce(x)'
    BY <2>3 DEF LinkOnce
  <2>5. linkGrant[x] = "held" /\ linkGrant'[x] = "held"
    BY <1>3, <2>1, <2>2, <2>3, LinkGrantIs
  <2> QED BY <2>4, <2>5
<1> QED BY <1>6, <1>10, <1>11 DEF LinkGoes

\* The exchange takes over from the code it burns, or the link dies with it.
LEMMA BurnsIs ==
    ASSUME Inv, Inv', Via, Via', \A l \in Links : LinkOnce(l), Good, History, UNCHANGED config,
           link' = link, NEW r \in Requests, NEW k \in Codes, Burns(r, k), Alone(r), Moves(r)
    PROVE  LinkGoes /\ \A l \in Links : LinkOnce(l)'
<1>1. /\ call[r].at = "burn" /\ call[r].token = k /\ call'[r].at \in {"issue", "refused"}
      /\ code[k].state = "open" /\ code'[k].state = "spent" /\ code'[k].s = code[k].s
      /\ session[code[k].s].state # "gone" /\ \A j \in Codes \ {k} : code'[j] = code[j]
      /\ session' = session
  BY DEF Burns, BurnCode, rows
<1>2. call[r].op = "exchange"
  BY <1>1, CallIs DEF AtHome, Ending, Rollback
<1>3. PICK x \in Links : session[code[k].s].via = x
  BY <1>1 DEF Via
<1>4. call'[r].at = "issue" => call'[r].op = "exchange" /\ call'[r].s = code[k].s /\ call'[r].token = k
  BY <1>1, <1>2 DEF Moves, Enters, Leaves, Refuses, Left, Walks, OnAsBefore, Like, HasSession, Mints,
                    Turns, Opens, Trades, Signups, SignIns, AtHome
<1>5. \A l \in Links : l \in Grants /\ handed[l] \in Nat
  BY TokensApart DEF Inv, TypeOK
<1>6. \A l \in Links : handed'[l] = handed[l]
  BY <1>1, <1>5, HandedIs DEF Delivered
<1>7. \A l \in Links, q \in Requests \ {r} : (Clicked(q, l)' <=> Clicked(q, l)) /\ (Traded(q, l)' <=> Traded(q, l))
  BY RowsKept DEF Alone
<1>8. \A l \in Links, j \in Codes \ {k} : (Coded(j, l)' <=> Coded(j, l)) /\ (Live(j, l)' <=> Live(j, l))
  BY <1>1, RowsKept
<1>9. \A l \in Links : ~Clicked(r, l) /\ ~Clicked(r, l)' /\ ~Traded(r, l) /\ ~Coded(k, l)' /\ ~Live(k, l)'
  <2>1. \A l \in Links : l # k
    BY TokenAssumption
  <2>2. \A l \in Links : ~Clicked(r, l)'
    BY <1>1, <1>4, <2>1 DEF Clicked
  <2> QED BY <1>1, <2>1, <2>2 DEF Clicked, Traded, Coded, Live
<1>10. ASSUME NEW l \in Links, l # x
       PROVE  LinkOnce(l)' /\ linkGrant'[l] = linkGrant[l]
  <2>1. ~Traded(r, l)' /\ ~Coded(k, l) /\ ~Live(k, l)
    BY <1>1, <1>3, <1>4, <1>10 DEF Traded, Coded, Live
  <2>2. LinkOnce(l)
    BY <1>10
  <2>3. \A q \in Requests : (Clicked(q, l)' <=> Clicked(q, l)) /\ (Traded(q, l)' <=> Traded(q, l))
    BY <1>7, <1>9, <2>1
  <2>4. \A j \in Codes : (Coded(j, l)' <=> Coded(j, l)) /\ (Live(j, l)' <=> Live(j, l))
    BY <1>8, <1>9, <2>1
  <2> QED BY <1>5, <1>6, <2>2, <2>3, <2>4, LinkStays
<1>11. LinkOnce(x)' /\ (linkGrant'[x] = linkGrant[x] \/ (linkGrant[x] = "held" /\ linkGrant'[x] = "dead"))
  <2>1. Coded(k, x) /\ Live(k, x)
    BY <1>1, <1>3 DEF Coded, Live
  <2>2. /\ link[x].state = "spent" /\ handed[x] = 0
        /\ \A q \in Requests : ~Clicked(q, x) /\ ~Traded(q, x)
        /\ \A j \in Codes : Coded(j, x) => j = k
    BY <1>3, <1>5, <2>1 DEF LinkOnce
  <2>3. /\ link'[x].state = "spent" /\ handed'[x] = 0
        /\ \A q \in Requests : ~Clicked(q, x)' /\ (Traded(q, x)' => q = r)
        /\ \A j \in Codes : ~Coded(j, x)' /\ ~Live(j, x)'
    BY <1>3, <1>6, <1>7, <1>8, <1>9, <2>2 DEF Live
  <2>4. LinkOnce(x)'
    BY <2>3 DEF LinkOnce
  <2>5. linkGrant[x] = "held" /\ linkGrant'[x] \in {"held", "dead"}
    BY <1>3, <2>1, <2>2, <2>3, LinkGrantIs
  <2> QED BY <2>4, <2>5
<1> QED BY <1>6, <1>10, <1>11 DEF LinkGoes

LEMMA ExpiresIs ==
    ASSUME Inv, \A l \in Links : LinkOnce(l), Good, History, UNCHANGED config, NEW k \in Codes, Expires(k)
    PROVE  LinkGoes /\ \A l \in Links : LinkOnce(l)'
<1>1. \A l \in Links : handed'[l] = handed[l] /\ handed[l] \in Nat
  BY TokensApart, HandedIs DEF Expires, Inv, TypeOK
<1>2. ASSUME NEW l \in Links
      PROVE  /\ LinkOnce(l)'
             /\ linkGrant'[l] = linkGrant[l] \/ (linkGrant[l] = "held" /\ linkGrant'[l] = "dead")
  <2>1. \A q \in Requests : (Clicked(q, l)' <=> Clicked(q, l)) /\ (Traded(q, l)' <=> Traded(q, l))
    BY RowsKept DEF Expires
  <2>2. ~Coded(k, l)' /\ ~Live(k, l)'
    BY DEF Expires, Coded, Live
  <2>3. \A j \in Codes : (Coded(j, l)' => Coded(j, l)) /\ (Live(j, l)' => Live(j, l))
    BY <2>2, RowsKept DEF Expires
  <2>4. LinkOnce(l) /\ link'[l].state = link[l].state
    BY DEF Expires
  <2> QED BY <1>1, <2>1, <2>3, <2>4, LinkFades
<1> QED BY <1>1, <1>2 DEF LinkGoes

\* A handler moves, and leaves links and codes alone.
LEMMA CarriedStep ==
    ASSUME Inv, Inv', Facts, Via', \A l \in Links : LinkOnce(l), Good, Step, History, UNCHANGED config,
           link' = link, code' = code, NEW r \in Requests, Alone(r), Moves(r)
    PROVE  LinkGoes /\ \A l \in Links : LinkOnce(l)'
<1>1. \A l \in Links : l \in Grants /\ handed[l] \in Nat
  BY TokensApart DEF Inv, TypeOK
<1>2. \A l \in Links : handed'[l] = IF Delivered(r, l) THEN handed[l] + 1 ELSE handed[l]
  BY <1>1, HandedIs
<1>3. \A l \in Links : /\ Clicked(r, l)' => Clicked(r, l)
                       /\ Traded(r, l)' => Traded(r, l)
                       /\ Delivered(r, l) => /\ Clicked(r, l) \/ Traded(r, l)
                                             /\ ~Clicked(r, l)' /\ ~Traded(r, l)'
  BY CarriedMoves
<1>4. \A l \in Links, q \in Requests \ {r} : (Clicked(q, l)' <=> Clicked(q, l)) /\ (Traded(q, l)' <=> Traded(q, l))
  BY RowsKept DEF Alone
<1>5. \A l \in Links, k \in Codes : (Coded(k, l)' <=> Coded(k, l)) /\ (Live(k, l)' => Live(k, l))
  BY RowsKept
<1>6. ASSUME NEW l \in Links, ~Delivered(r, l)
      PROVE  /\ LinkOnce(l)'
             /\ linkGrant'[l] = linkGrant[l] \/ (linkGrant[l] = "held" /\ linkGrant'[l] = "dead")
  <2>1. LinkOnce(l) /\ handed[l] \in Nat /\ handed'[l] = handed[l] /\ link'[l].state = link[l].state
    BY <1>1, <1>2, <1>6
  <2>2. \A q \in Requests : (Clicked(q, l)' => Clicked(q, l)) /\ (Traded(q, l)' => Traded(q, l))
    BY <1>3, <1>4
  <2> QED BY <1>5, <2>1, <2>2, LinkFades
<1>7. ASSUME NEW x \in Links, Delivered(r, x)
      PROVE  /\ LinkOnce(x)'
             /\ linkGrant[x] = "held" /\ linkGrant'[x] = "done" /\ handed'[x] = handed[x] + 1
             /\ \A l \in Links \ {x} : linkGrant'[l] = linkGrant[l] /\ handed'[l] = handed[l]
  <2>1. Clicked(r, x) \/ Traded(r, x)
    BY <1>3, <1>7
  <2>2. ~Clicked(r, x)' /\ ~Traded(r, x)'
    BY <1>3, <1>7
  <2>3. /\ link[x].state = "spent" /\ handed[x] = 0
        /\ \A q \in Requests \ {r} : ~Clicked(q, x) /\ ~Traded(q, x)
        /\ \A k \in Codes : ~Coded(k, x)
    BY <1>1, <2>1 DEF LinkOnce
  <2>4. /\ link'[x].state = "spent" /\ handed'[x] = 1
        /\ \A q \in Requests : ~Clicked(q, x)' /\ ~Traded(q, x)'
        /\ \A k \in Codes : ~Coded(k, x)'
    BY <1>2, <1>4, <1>5, <1>7, <2>2, <2>3
  <2>5. LinkOnce(x)'
    BY <2>4 DEF LinkOnce
  <2>6. linkGrant[x] = "held" /\ linkGrant'[x] = "done"
    BY <2>1, <2>3, <2>4, LinkGrantIs
  <2>7. ASSUME NEW l \in Links \ {x}
        PROVE  ~Clicked(r, l) /\ ~Traded(r, l)
    <3>1. CASE Clicked(r, x)
      <4>1. call[r].op = "click"
        BY <3>1, OpOfToken DEF Clicked
      <4> QED BY <3>1, <4>1 DEF Clicked, Traded
    <3>2. CASE Traded(r, x)
      <4>1. call[r].token \in Codes
        BY <3>2, CallIs DEF Traded, Flowing, TokensOf
      <4> QED BY <3>2, <4>1, TokenAssumption DEF Clicked, Traded
    <3> QED BY <2>1, <3>1, <3>2
  <2>8. \A s \in SessionIds : session'[s].state = "gone" => session[s].state = "gone"
    <3>1. call'[r].at = "ok" /\ call[r].at # "ok"
      BY <1>7 DEF Delivered
    <3>2. ASSUME NEW q \in Requests, DeleteUser(q)
          PROVE  FALSE
      <4>1. call'[q].at \in {"lateProfile", "refused", "again"} /\ call[q].at \in {"unuser", "lateUser"}
        BY <3>2, DeleteUserIs, PointIs
      <4>2. q = r
        BY <3>2, <4>1 DEF Alone
      <4> QED BY <3>1, <4>1, <4>2
    <3> QED BY <3>2, Deletions
  <2>9. ASSUME NEW l \in Links \ {x}
        PROVE  linkGrant'[l] = linkGrant[l] /\ handed'[l] = handed[l]
    <3>1. ~Delivered(r, l)
      BY <1>3, <2>7
    <3>2. LinkOnce(l) /\ handed[l] \in Nat /\ handed'[l] = handed[l] /\ link'[l].state = link[l].state
      BY <1>1, <1>2, <3>1
    <3>3. \A q \in Requests : (Clicked(q, l)' <=> Clicked(q, l)) /\ (Traded(q, l)' <=> Traded(q, l))
      BY <1>3, <1>4, <2>7
    <3>4. \A k \in Codes : (Coded(k, l)' <=> Coded(k, l)) /\ (Live(k, l)' <=> Live(k, l))
      BY <2>8, RowsKept
    <3> QED BY <3>2, <3>3, <3>4, LinkStays
  <2> QED BY <2>3, <2>4, <2>5, <2>6, <2>9
<1>8. CASE \A l \in Links : ~Delivered(r, l)
  BY <1>2, <1>6, <1>8 DEF LinkGoes
<1>9. ASSUME NEW x \in Links, Delivered(r, x)
      PROVE  LinkGoes /\ \A l \in Links : LinkOnce(l)'
  BY <1>6, <1>7, <1>9 DEF LinkGoes
<1> QED BY <1>8, <1>9

\* A link is issued, lapses, or is clicked.
LEMMA LinkTurns ==
    ASSUME Inv, \A l \in Links : LinkOnce(l), Good, History, UNCHANGED config,
           NEW x \in Links, \A l \in Links \ {x} : link'[l].state = link[l].state,
           code' = code, session' = session,
           \/ link[x].state = "none" /\ link'[x].state = "open" /\ call' = call
           \/ link[x].state = "open" /\ link'[x].state = "lapsed" /\ call' = call
           \/ /\ link[x].state = "open" /\ link'[x].state = "spent"
              /\ \E r \in Requests :
                    /\ Alone(r) /\ Like(call[r], call'[r], "find")
                    /\ call[r].at = "consume" /\ call[r].token = x
    PROVE  LinkGoes /\ \A l \in Links : LinkOnce(l)'
<1>1. \A l \in Links : l \in Grants /\ handed[l] \in Nat
  BY TokensApart DEF Inv, TypeOK
<1>2. \A l \in Links, k \in Codes : (Coded(k, l)' <=> Coded(k, l)) /\ (Live(k, l)' <=> Live(k, l))
  BY RowsKept
<1>3. /\ handed[x] = 0 /\ \A q \in Requests : ~Clicked(q, x) /\ ~Traded(q, x)
      /\ \A k \in Codes : ~Coded(k, x) /\ ~Live(k, x)
  BY DEF LinkOnce, Live
<1>4. CASE call' = call
  <2>1. \A l \in Links : handed'[l] = handed[l]
    BY <1>1, <1>4, HandedIs
  <2>2. \A l \in Links, q \in Requests : (Clicked(q, l)' <=> Clicked(q, l)) /\ (Traded(q, l)' <=> Traded(q, l))
    BY <1>4, RowsKept
  <2>3. \A l \in Links \ {x} : LinkOnce(l)' /\ linkGrant'[l] = linkGrant[l]
    BY <1>1, <1>2, <2>1, <2>2, LinkStays
  <2>4. \/ link[x].state = "none" /\ link'[x].state = "open"
        \/ link[x].state = "open" /\ link'[x].state = "lapsed"
    <3>1. ASSUME NEW r \in Requests, Like(call[r], call'[r], "find"), call[r].at = "consume"
          PROVE  FALSE
      BY <1>4, <3>1 DEF Like
    <3> QED BY <3>1
  <2>5. LinkOnce(x)'
    BY <1>2, <1>3, <2>1, <2>2 DEF LinkOnce
  <2>6. \/ linkGrant[x] = "none" /\ linkGrant'[x] = "open"
        \/ linkGrant[x] = "open" /\ linkGrant'[x] = "dead"
    BY <1>3, <2>1, <2>4, LinkGrantIs
  <2> QED BY <2>1, <2>3, <2>5, <2>6 DEF LinkGoes
<1>5. ASSUME link[x].state = "open", link'[x].state = "spent",
             NEW r \in Requests, Alone(r), Like(call[r], call'[r], "find"),
             call[r].at = "consume", call[r].token = x
      PROVE  LinkGoes /\ \A l \in Links : LinkOnce(l)'
  <2>1. \A l \in Links : handed'[l] = handed[l]
    BY <1>1, <1>5, HandedIs DEF Delivered, Like
  <2>2. \A l \in Links, q \in Requests \ {r} : (Clicked(q, l)' <=> Clicked(q, l)) /\ (Traded(q, l)' <=> Traded(q, l))
    BY <1>5, RowsKept DEF Alone
  <2>3. /\ \A l \in Links : ~Traded(r, l) /\ ~Traded(r, l)' /\ ~Clicked(r, l)
        /\ \A l \in Links \ {x} : ~Clicked(r, l)'
        /\ Clicked(r, x)'
    BY <1>5 DEF Clicked, Traded, Like
  <2>4. ASSUME NEW l \in Links \ {x}
        PROVE  LinkOnce(l)' /\ linkGrant'[l] = linkGrant[l]
    <3>1. \A q \in Requests : (Clicked(q, l)' <=> Clicked(q, l)) /\ (Traded(q, l)' <=> Traded(q, l))
      BY <2>2, <2>3
    <3> QED BY <1>1, <1>2, <2>1, <3>1, LinkStays
  <2>5. LinkOnce(x)'
    BY <1>2, <1>3, <1>5, <2>1, <2>2, <2>3 DEF LinkOnce
  <2>6. linkGrant[x] = "open" /\ linkGrant'[x] = "held"
    BY <1>3, <1>5, <2>1, <2>3, LinkGrantIs
  <2> QED BY <2>1, <2>4, <2>5, <2>6 DEF LinkGoes
<1> QED BY <1>4, <1>5

LEMMA LinkStepIs ==
    ASSUME Inv, Inv', Facts, Via, Via', \A l \in Links : LinkOnce(l), Good, Step, History, UNCHANGED config
    PROVE  LinkGoes /\ \A l \in Links : LinkOnce(l)'
<1>1. CASE link' # link
  <2>1. PICK x \in Links :
          /\ \A l \in Links \ {x} : link'[l].state = link[l].state
          /\ code' = code /\ session' = session
          /\ \/ link[x].state = "none" /\ link'[x].state = "open" /\ call' = call
             \/ link[x].state = "open" /\ link'[x].state = "lapsed" /\ call' = call
             \/ /\ link[x].state = "open" /\ link'[x].state = "spent"
                /\ \E r \in Requests :
                      /\ Alone(r) /\ Like(call[r], call'[r], "find")
                      /\ call[r].at = "consume" /\ call[r].token = x
    BY <1>1, LinkCases
  <2> QED BY <2>1, LinkTurns
<1>2. ASSUME link' = link, NEW k \in Codes, Expires(k)
      PROVE  LinkGoes /\ \A l \in Links : LinkOnce(l)'
  BY <1>2, ExpiresIs
<1>3. ASSUME link' = link, NEW r \in Requests, NEW k \in Codes, Hands(r, k)
      PROVE  LinkGoes /\ \A l \in Links : LinkOnce(l)'
  <2>1. Alone(r)
    BY <1>3, CreateCodeMoves DEF Hands
  <2> QED BY <1>3, <2>1, HandsIs
<1>4. ASSUME link' = link, NEW r \in Requests, NEW k \in Codes, Burns(r, k)
      PROVE  LinkGoes /\ \A l \in Links : LinkOnce(l)'
  <2>1. Alone(r) /\ Moves(r)
    BY <1>4, BurnCodeMoves DEF Burns
  <2> QED BY <1>4, <2>1, BurnsIs
<1>5. CASE link' = link /\ code' = code
  <2>1. CASE \E r \in Requests : Alone(r) /\ Moves(r)
    BY <1>5, <2>1, CarriedStep
  <2>2. CASE call' = call
    <3>1. \A l \in Links : handed'[l] = handed[l] /\ handed[l] \in Nat
      BY <2>2, TokensApart, HandedIs DEF Inv, TypeOK
    <3>2. \A l \in Links, q \in Requests : (Clicked(q, l)' <=> Clicked(q, l)) /\ (Traded(q, l)' <=> Traded(q, l))
      BY <2>2, RowsKept
    <3>3. \A l \in Links, k \in Codes : (Coded(k, l)' <=> Coded(k, l)) /\ (Live(k, l)' => Live(k, l))
      BY <1>5, RowsKept
    <3>4. \A l \in Links : /\ LinkOnce(l)'
                           /\ linkGrant'[l] = linkGrant[l] \/ (linkGrant[l] = "held" /\ linkGrant'[l] = "dead")
      BY <1>5, <3>1, <3>2, <3>3, LinkFades
    <3> QED BY <3>1, <3>4 DEF LinkGoes
  <2> QED BY <2>1, <2>2 DEF Good
<1> QED BY <1>1, <1>2, <1>3, <1>4, <1>5, CodeSteps

LEMMA LinkNext ==
    ASSUME LinkGoes
    PROVE  LinkGrants!Next
<1>1. /\ linkGrant = [l \in Links |-> linkGrant[l]]
      /\ linkGrant' = [l \in Links |-> linkGrant'[l]]
  BY DEF linkGrant
<1>2. GrantGoes(Links, linkGrant, linkGrant', fruitsOf(Links), fruitsOf(Links)')
  BY <1>1 DEF LinkGoes, GrantGoes, fruitsOf
<1>3. GrantNext(Links, linkGrant, linkGrant', fruitsOf(Links), fruitsOf(Links)')
  BY <1>2, GrantStep, Zenon
<1> QED BY <1>3, Zenon
        DEF GrantNext, LinkGrants!Next, LinkGrants!Issue, LinkGrants!Take, LinkGrants!Bear, LinkGrants!Die

-----------------------------------------------------------------------------
\* The grants implement OneTimeGrant.
LEMMA OnceInit ==
    ASSUME Init
    PROVE  Once /\ LinkGrants!Init /\ StateGrants!Init /\ InviteGrants!Init
<1>1. /\ call = [r \in Requests |-> Idle] /\ handed = [t \in Grants |-> 0]
      /\ link = [l \in Links |-> [state |-> "none", email |-> AnAddress]]
      /\ code = [k \in Codes |-> [state |-> "none", s |-> NoSession]]
      /\ state = [t \in States |-> "none"]
      /\ invite = [i \in Invites |-> [state |-> "none", email |-> AnAddress]]
  BY DEF Init, AccountsInit, LinksInit, OAuthInit, InvitesInit
<1>2. \A r \in Requests : call[r].at = "idle" /\ call[r].op = "none" /\ call[r].token = NoToken
  BY <1>1, IdleFields
<1>3. /\ \A t \in States : handed[t] = 0 /\ state[t] = "none"
      /\ \A i \in Invites : handed[i] = 0 /\ invite[i].state = "none"
      /\ \A l \in Links : handed[l] = 0 /\ link[l].state = "none"
      /\ \A k \in Codes : code[k].state = "none"
  BY <1>1, TokensApart
<1>4. /\ \A t \in States, r \in Requests : ~Bound(r, t)
      /\ \A i \in Invites, r \in Requests : ~Marked(r, i)
      /\ \A l \in Links, r \in Requests : ~Clicked(r, l) /\ ~Traded(r, l)
      /\ \A l \in Links, k \in Codes : ~Coded(k, l)
  BY <1>2, <1>3, TokensApart DEF Bound, Marked, Clicked, Traded, Coded
<1>5. Via
  BY <1>2, <1>3 DEF Via
<1>6. Once
  BY <1>3, <1>4, <1>5 DEF Once, StateOnce, InviteOnce, LinkOnce
<1>7. LinkGrants!Init
  BY <1>3 DEF LinkGrants!Init, linkGrant, fruitsOf
<1>8. StateGrants!Init
  BY <1>3 DEF StateGrants!Init, stateGrant, fruitsOf
<1>9. InviteGrants!Init
  BY <1>3 DEF InviteGrants!Init, inviteGrant, fruitsOf
<1> QED BY <1>6, <1>7, <1>8, <1>9

LEMMA OnceNext ==
    ASSUME AllInv, AllInv', Once, [Next]_vars
    PROVE  /\ Once'
           /\ [LinkGrants!Next]_(LinkGrants!vars)
           /\ [StateGrants!Next]_(StateGrants!vars)
           /\ [InviteGrants!Next]_(InviteGrants!vars)
<1>1. CASE Next
  <2>1. Inv /\ Facts /\ Step /\ History /\ UNCHANGED config /\ Inv'
    BY <1>1 DEF AllInv, Next
  <2>2. Good
    BY <1>1, <2>1, StepGood
  <2>3. Via /\ Via'
    BY <2>1, <2>2, ViaNext DEF Once
  <2>4. StateGoes /\ \A t \in States : StateOnce(t)'
    BY <2>1, <2>2, <2>3, StateStep DEF Once
  <2>5. InviteGoes /\ \A i \in Invites : InviteOnce(i)'
    BY <2>1, <2>2, <2>3, InviteStepIs DEF Once
  <2>6. LinkGoes /\ \A l \in Links : LinkOnce(l)'
    BY <2>1, <2>2, <2>3, LinkStepIs DEF Once
  <2>7. Once'
    BY <2>3, <2>4, <2>5, <2>6 DEF Once
  <2> QED BY <2>4, <2>5, <2>6, <2>7, StateNext, InviteNext, LinkNext
<1>2. CASE UNCHANGED vars
  <2>1. UNCHANGED <<config, session, call, link, code, state, invite, handed>>
    BY <1>2 DEF vars, accountVars, rows, linkVars, oauthVars, inviteVars
  <2>2. /\ \A r \in Requests, t \in States : Bound(r, t)' <=> Bound(r, t)
        /\ \A r \in Requests, i \in Invites : (Marked(r, i)' <=> Marked(r, i)) /\ (Past(r, i)' <=> Past(r, i))
        /\ \A r \in Requests, l \in Links : (Clicked(r, l)' <=> Clicked(r, l)) /\ (Traded(r, l)' <=> Traded(r, l))
        /\ \A k \in Codes, l \in Links : (Coded(k, l)' <=> Coded(k, l)) /\ (Live(k, l)' <=> Live(k, l))
    BY <2>1 DEF Bound, Marked, Past, Clicked, Traded, Coded, Live
  <2>3. Via'
    BY <2>1 DEF Once, Via, HasSession, CodeFlow
  <2>4. \A t \in States : StateOnce(t)'
    BY <2>1, <2>2 DEF Once, StateOnce
  <2>5. \A i \in Invites : InviteOnce(i)'
    BY <2>1, <2>2 DEF Once, InviteOnce
  <2>6. \A l \in Links : LinkOnce(l)'
    BY <2>1, <2>2 DEF Once, LinkOnce
  <2>7. UNCHANGED LinkGrants!vars
    BY <2>1 DEF LinkGrants!vars, linkGrant, Carried, Takes, fruitsOf
  <2>8. UNCHANGED StateGrants!vars
    BY <2>1 DEF StateGrants!vars, stateGrant, Takes, fruitsOf
  <2>9. UNCHANGED InviteGrants!vars
    BY <2>1 DEF InviteGrants!vars, inviteGrant, Takes, fruitsOf
  <2>10. Once'
    BY <2>3, <2>4, <2>5, <2>6 DEF Once
  <2> QED BY <2>7, <2>8, <2>9, <2>10
<1> QED BY <1>1, <1>2

LEMMA OnceHolds == Spec => []Once
<1>1. Init => Once
  BY OnceInit
<1>2. AllInv /\ AllInv' /\ Once /\ [Next]_vars => Once'
  BY OnceNext
<1> QED BY <1>1, <1>2, AllHolds, PTL DEF Spec

\* A link and its code bring one session at most into a caller's hands, however many
\* handlers they are presented to: every step on links, codes, exchanges and the
\* sessions behind them is a step of a one-time grant.
THEOREM LinksAreOneTime == Spec => LinkIsOneTime
<1>1. Init => LinkGrants!Init
  BY OnceInit
<1>2. AllInv /\ AllInv' /\ Once /\ [Next]_vars => [LinkGrants!Next]_(LinkGrants!vars)
  BY OnceNext
<1> QED BY <1>1, <1>2, AllHolds, OnceHolds, PTL DEF Spec, LinkIsOneTime, LinkGrants!Spec

\* The state of a provider sign-in carries one callback to an answer at most.
THEOREM StatesAreOneTime == Spec => StateIsOneTime
<1>1. Init => StateGrants!Init
  BY OnceInit
<1>2. AllInv /\ AllInv' /\ Once /\ [Next]_vars => [StateGrants!Next]_(StateGrants!vars)
  BY OnceNext
<1> QED BY <1>1, <1>2, AllHolds, OnceHolds, PTL DEF Spec, StateIsOneTime, StateGrants!Spec

\* An invitation opens one account at most, whoever races for it, and none once it was
\* revoked or redeemed by another.
THEOREM InvitesAreOneTime == Spec => InviteIsOneTime
<1>1. Init => InviteGrants!Init
  BY OnceInit
<1>2. AllInv /\ AllInv' /\ Once /\ [Next]_vars => [InviteGrants!Next]_(InviteGrants!vars)
  BY OnceNext
<1> QED BY <1>1, <1>2, AllHolds, OnceHolds, PTL DEF Spec, InviteIsOneTime, InviteGrants!Spec

=============================================================================
