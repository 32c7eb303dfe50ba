-------------------------- MODULE CredentialsProofs --------------------------
(***************************************************************************)
(* What Credentials guarantees for every number of sessions, tokens,       *)
(* factors, codes, handlers and workloads.  The first invariant, Inv, is   *)
(* TypeOK with FlowOK: a handler is at a point of its own operation and    *)
(* has read by then what that point needs.                                 *)
(* The second, Safe, adds what a handler knows about the tables.           *)
(***************************************************************************)
EXTENDS Credentials, FiniteSetTheorems, TLAPS

\* Where a handler of an operation can be.
AtHome(c) ==
    \/ c.op = "none" /\ c.at = "idle"
    \/ c.op \in {"login", "hostLogin", "takeOver"} /\
         c.at \in {"session", "second", "pend", "ok", "refused"}
    \/ c.op \in {"login", "takeOver"} /\ c.at \in {"hook", "revoke"}
    \/ c.op \in {"login", "hostLogin"} /\ c.at = "match"
    \/ c.op = "hostLogin" /\ c.at = "reread"
    \/ c.op = "takeOver" /\ c.at \in {"sweep", "unpassword", "unfactor", "mark"}
    \/ c.op = "set" /\ c.at \in {"reload", "user", "read", "create", "update", "others", "ok", "refused"}
    \/ c.op = "ask" /\ c.at \in {"lookup", "issue", "ok", "refused"}
    \/ c.op = "reset" /\ c.at \in {"read", "owner", "create", "update", "spend", "ok", "refused"}
    \/ c.op = "resend" /\ c.at \in {"clear", "mint", "ok"}
    \/ c.op = "verify" /\ c.at \in {"mark", "clear", "ok"}
    \/ c.op = "enrol" /\ c.at \in {"factor", "wipe", "code", "ok"}
    \/ c.op = "hostEnrol" /\ c.at \in {"factor", "wipe", "code", "ok", "refused"}
    \/ c.op = "confirm" /\ c.at \in {"totp", "confirm", "ok", "refused"}
    \/ c.op = "drop" /\ c.at \in {"drop", "ok"}
    \/ c.op = "challenge" /\
         c.at \in {"list", "totp", "confirm", "recover", "unpend", "hook", "revoke", "ok", "refused"}
    \/ c.op = "complete" /\ c.at \in {"list", "recover", "unpend", "ok", "refused"}

SignsIn(c) == c.op \in {"login", "hostLogin", "takeOver"}

\* What it knows there.
Knows(c) ==
    /\ SignsIn(c) /\ c.at \in {"second", "pend", "hook", "revoke", "ok"} => c.s \in SessionIds
    /\ c.op \in {"ask", "resend"} /\ c.at = "ok" => c.given \in Tokens
    /\ c.op \in {"enrol", "hostEnrol"} /\ c.at \in {"wipe", "code", "ok"} => c.factor \in Factors
    /\ c.op = "reset" /\ c.at # "refused" => c.given \in Resets
    /\ c.op = "verify" => c.given \in Proofs

Flow(c) == AtHome(c) /\ Knows(c)
FlowOK == \A r \in Requests : Flow(call[r])

TablesOK ==
    /\ account \in Account /\ credential \in Credential /\ lastRow \in 0..MaxRow
    /\ session \in [SessionIds -> Session]
    /\ token \in [Tokens -> {"none", "open", "gone"}]
    /\ factor \in [Factors -> {"none", "new", "verified", "gone"}]
    /\ recovery \in [Codes -> {"none", "open", "used", "gone"}]

Inv == TypeOK /\ FlowOK

-----------------------------------------------------------------------------
\* A minted id is one of the free ones.
LEMMA MintedFresh ==
    ASSUME NEW rows, NEW empty, NEW x, rows[x] = empty, x \in DOMAIN rows
    PROVE  Minted(rows, empty) \in DOMAIN rows /\ rows[Minted(rows, empty)] = empty
BY DEF Minted, Fresh

LEMMA FreshRow ==
    ASSUME NEW rows, NEW empty
    PROVE  Fresh(rows, empty) # {} => Minted(rows, empty) \in Fresh(rows, empty)
BY DEF Minted

LEMMA IdleOK == Idle \in Call /\ Flow(Idle) /\ Idle.at = "idle" /\ Idle.op = "none"
BY CredentialAssumption DEF Idle, Call, Flow, AtHome, Knows, SignsIn, Points

\* The call in r becomes c, or forgets what it read when it is refused.
LEMMA BecomeOK ==
    ASSUME Inv, NEW r \in Requests, NEW c \in Call, Become(r, c), Flow(c)
    PROVE  /\ call' \in [Requests -> Call] /\ FlowOK'
           /\ \A q \in Requests \ {r} : call'[q] = call[q]
           /\ call'[r] = IF c.at = "refused" THEN [Idle EXCEPT !.at = "refused", !.op = c.op] ELSE c
<1> DEFINE d == IF c.at = "refused" THEN [Idle EXCEPT !.at = "refused", !.op = c.op] ELSE c
<1>1. call' = [call EXCEPT ![r] = d] /\ call \in [Requests -> Call] BY DEF Become, Inv, TypeOK
<1>2. d \in Call
  <2>1. CASE c.at # "refused" BY <2>1
  <2>2. CASE c.at = "refused"
    <3>1. c.op \in Operations \cup {"none"} /\ "refused" \in Points BY DEF Call, Points
    <3>2. [Idle EXCEPT !.at = "refused", !.op = c.op] \in Call BY <3>1, IdleOK DEF Call
    <3> QED BY <2>2, <3>2
  <2> QED BY <2>1, <2>2
<1>3. Flow(d)
  <2>1. CASE c.at # "refused" BY <2>1
  <2>2. CASE c.at = "refused"
    <3>1. d.at = "refused" /\ d.op = c.op BY <2>2 DEF Idle
    <3>2. AtHome(d) BY <2>2, <3>1 DEF Flow, AtHome
    <3>3. c.op # "verify" BY <2>2 DEF Flow, AtHome
    <3> QED BY <3>1, <3>2, <3>3 DEF Flow, Knows
  <2> QED BY <2>1, <2>2
<1>4. \A q \in Requests : call'[q] = IF q = r THEN d ELSE call[q] BY <1>1
<1>5. call' \in [Requests -> Call] BY <1>1, <1>2
<1>6. FlowOK' BY <1>3, <1>4 DEF FlowOK, Inv
<1> QED BY <1>4, <1>5, <1>6

\* The call in r goes on to another point.
LEMMA GotoOK ==
    ASSUME Inv, NEW r \in Requests, NEW point \in Points, Goto(r, point),
           Flow([call[r] EXCEPT !.at = point])
    PROVE  /\ call' \in [Requests -> Call] /\ FlowOK'
           /\ \A q \in Requests \ {r} : call'[q] = call[q]
           /\ call'[r] = IF point = "refused"
                         THEN [Idle EXCEPT !.at = "refused", !.op = call[r].op]
                         ELSE [call[r] EXCEPT !.at = point]
<1> DEFINE c == [call[r] EXCEPT !.at = point]
<1>1. call[r] \in Call BY DEF Inv, TypeOK
<1>2. c \in Call /\ c.at = point /\ c.op = call[r].op BY <1>1 DEF Call
<1>3. Become(r, c) /\ Flow(c) BY DEF Goto
<1> HIDE DEF c
<1>4. /\ call' \in [Requests -> Call] /\ FlowOK'
      /\ \A q \in Requests \ {r} : call'[q] = call[q]
      /\ call'[r] = IF c.at = "refused" THEN [Idle EXCEPT !.at = "refused", !.op = c.op] ELSE c
  BY <1>2, <1>3, BecomeOK
<1> QED BY <1>2, <1>4 DEF c

-----------------------------------------------------------------------------
\* One step of one handler keeps the types.
After == TablesOK' /\ (held \subseteq Handed)' /\ call' \in [Requests -> Call] /\ FlowOK'

LEMMA Still ==
    ASSUME Inv, UNCHANGED <<tables, held>> PROVE TablesOK' /\ (held \subseteq Handed)'
BY DEF Inv, TypeOK, TablesOK, tables

\* The statements that only read.
LEMMA ReadsOK ==
    ASSUME Inv, NEW r \in Requests,
           \/ ReadUser(r) \/ Match(r) \/ Second(r) \/ OnLogin(r) \/ Reload(r) \/ CheckActive(r)
           \/ ReadCredential(r) \/ LookUp(r) \/ CheckOwner(r) \/ ListFactors(r) \/ CheckTOTP(r)
    PROVE  After
<1> DEFINE c == call[r]
<1>1. c \in Call /\ Flow(c) /\ TablesOK BY DEF Inv, TypeOK, FlowOK, TablesOK
<1>2. UNCHANGED <<tables, held>>
  BY DEF ReadUser, Match, Second, OnLogin, Reload, CheckActive, ReadCredential, LookUp,
         CheckOwner, ListFactors, CheckTOTP
<1>3. SUFFICES call' \in [Requests -> Call] /\ FlowOK' BY <1>2, Still DEF After
<1>4. \A point \in Points : Goto(r, point) /\ Flow([c EXCEPT !.at = point]) =>
         call' \in [Requests -> Call] /\ FlowOK'
  BY GotoOK
<1>5. \A d \in Call : Become(r, d) /\ Flow(d) => call' \in [Requests -> Call] /\ FlowOK'
  BY BecomeOK
<1>6. CASE ReadUser(r)
  <2> DEFINE d == [c EXCEPT !.at = "match", !.admits = MayLogIn]
  <2>1. MayLogIn \in BOOLEAN BY DEF MayLogIn
  <2>2. d \in Call BY <1>1, <2>1 DEF Call, Points
  <2>3. Flow(d) BY <1>1, <1>6 DEF ReadUser, Call, Flow, AtHome, Knows, SignsIn
  <2> QED BY <1>5, <1>6, <2>2, <2>3 DEF ReadUser
<1>7. CASE Match(r)
  <2>1. PICK point \in {"session", "refused"} : Goto(r, point) BY <1>7 DEF Match
  <2>2. Flow([c EXCEPT !.at = point]) BY <1>1, <1>7 DEF Match, Call, Flow, AtHome, Knows, SignsIn
  <2> QED BY <1>4, <2>1, <2>2 DEF Points
<1>8. CASE Second(r)
  <2>1. PICK point \in {"pend", "ok", "hook"} :
           Goto(r, point) /\ (point = "hook" => c.op \notin ByHost) /\ c.at = "second"
    BY <1>8 DEF Second
  <2>2. Flow([c EXCEPT !.at = point]) BY <1>1, <2>1 DEF Call, Flow, AtHome, Knows, SignsIn, ByHost
  <2> QED BY <1>4, <2>1, <2>2 DEF Points
<1>9. CASE OnLogin(r)
  <2>1. PICK point \in {"revoke", "ok"} : Goto(r, point) BY <1>9 DEF OnLogin
  <2>2. Flow([c EXCEPT !.at = point]) BY <1>1, <1>9 DEF OnLogin, Call, Flow, AtHome, Knows, SignsIn
  <2> QED BY <1>4, <2>1, <2>2 DEF Points
<1>10. CASE Reload(r)
  <2>1. PICK point \in {"user", "refused"} : Goto(r, point) BY <1>10 DEF Reload
  <2>2. Flow([c EXCEPT !.at = point]) BY <1>1, <1>10 DEF Reload, Call, Flow, AtHome, Knows, SignsIn
  <2> QED BY <1>4, <2>1, <2>2 DEF Points
<1>11. CASE CheckActive(r)
  <2>1. PICK point \in {"read", "refused"} :
           Become(r, [c EXCEPT !.admits = account.verified, !.at = point])
    BY <1>11 DEF CheckActive
  <2> DEFINE d == [c EXCEPT !.admits = account.verified, !.at = point]
  <2>2. account.verified \in BOOLEAN BY <1>1 DEF TablesOK, Account
  <2>3. d \in Call BY <1>1, <2>2 DEF Call, Points
  <2>4. Flow(d) BY <1>1, <1>11 DEF CheckActive, Call, Flow, AtHome, Knows, SignsIn
  <2> QED BY <1>5, <2>1, <2>3, <2>4
<1>12. CASE ReadCredential(r)
  <2>1. PICK point \in {"update", "owner", "create", "refused"} :
           /\ Become(r, [c EXCEPT !.row = credential.row, !.at = point])
           /\ c.at = "read" /\ (point = "owner" => c.op = "reset")
    BY <1>12 DEF ReadCredential
  <2> DEFINE d == [c EXCEPT !.row = credential.row, !.at = point]
  <2>2. credential.row \in 0..MaxRow BY <1>1 DEF TablesOK, Credential
  <2>3. d \in Call BY <1>1, <2>2 DEF Call, Points
  <2>4. Flow(d) BY <1>1, <2>1 DEF Call, Flow, AtHome, Knows, SignsIn
  <2> QED BY <1>5, <2>1, <2>3, <2>4
<1>13. CASE LookUp(r)
  <2>1. PICK point \in {"issue", "refused"} : Goto(r, point) BY <1>13 DEF LookUp
  <2>2. Flow([c EXCEPT !.at = point]) BY <1>1, <1>13 DEF LookUp, Call, Flow, AtHome, Knows, SignsIn
  <2> QED BY <1>4, <2>1, <2>2 DEF Points
<1>14. CASE CheckOwner(r)
  <2>1. PICK point \in {"create", "refused"} : Goto(r, point) BY <1>14 DEF CheckOwner
  <2>2. Flow([c EXCEPT !.at = point])
    BY <1>1, <1>14 DEF CheckOwner, Call, Flow, AtHome, Knows, SignsIn
  <2> QED BY <1>4, <2>1, <2>2 DEF Points
<1>15. CASE CheckTOTP(r)
  <2>1. PICK point \in {"recover", "refused", "confirm", "unpend", "ok"} :
           /\ Goto(r, point) /\ c.at = "totp"
           /\ point \in {"recover", "unpend"} => c.op = "challenge"
    BY <1>15 DEF CheckTOTP
  <2>2. Flow([c EXCEPT !.at = point]) BY <1>1, <2>1 DEF Call, Flow, AtHome, Knows, SignsIn
  <2> QED BY <1>4, <2>1, <2>2 DEF Points
<1>16. CASE ListFactors(r)
  <2>1. PICK point \in {"refused", "unpend", "recover"} : Goto(r, point) /\ c.at = "list"
    BY <1>16 DEF ListFactors
  <2>2. Flow([c EXCEPT !.at = point]) BY <1>1, <2>1 DEF Call, Flow, AtHome, Knows, SignsIn
  <2> QED BY <1>4, <2>1, <2>2 DEF Points
<1> QED BY <1>6, <1>7, <1>8, <1>9, <1>10, <1>11, <1>12, <1>13, <1>14, <1>15, <1>16

-----------------------------------------------------------------------------
\* A call that arrives.
LEMMA ArriveOK ==
    ASSUME Inv, NEW r \in Requests, NEW op \in Operations, NEW c \in Call, Arrive(r, op, c),
           Flow([c EXCEPT !.op = op])
    PROVE  After
<1>1. [c EXCEPT !.op = op] \in Call BY DEF Call
<1>2. call' \in [Requests -> Call] /\ FlowOK' BY <1>1, BecomeOK DEF Arrive
<1> QED BY <1>2, Still DEF After, Arrive

LEMMA CallsOK ==
    ASSUME Inv, NEW r \in Requests, Calls(r)
    PROVE  After
<1>1. ASSUME NEW x \in Secrets, LogIn(r, x) PROVE After
  <2> DEFINE c == [Idle EXCEPT !.at = "match", !.given = x, !.admits = MayLogIn]
  <2>1. MayLogIn \in BOOLEAN BY DEF Inv, TypeOK, Account, MayLogIn
  <2>2. c \in Call /\ "login" \in Operations BY IdleOK, <2>1 DEF Call, Points, Operations
  <2>3. Flow([c EXCEPT !.op = "login"])
    BY CredentialAssumption DEF Flow, AtHome, Knows, SignsIn, Idle
  <2> QED BY <1>1, <2>2, <2>3, ArriveOK DEF LogIn
<1>2. ASSUME NEW x \in Secrets, HostLogIn(r, x) PROVE After
  <2> DEFINE c == [Idle EXCEPT !.at = "reread", !.given = x]
  <2>1. c \in Call /\ "hostLogin" \in Operations BY IdleOK DEF Call, Points, Operations
  <2>2. Flow([c EXCEPT !.op = "hostLogin"])
    BY CredentialAssumption DEF Flow, AtHome, Knows, SignsIn, Idle
  <2> QED BY <1>2, <2>1, <2>2, ArriveOK DEF HostLogIn
<1>3. ASSUME NEW s \in SessionIds, NEW x \in Secrets \cup {Nil}, NEW y \in Secrets, SetPassword(r, s, x, y) PROVE After
  <2> DEFINE c == [Idle EXCEPT !.at = "reload", !.s = s, !.given = x, !.new = y]
  <2>1. c \in Call /\ "set" \in Operations BY IdleOK DEF Call, Points, Operations
  <2>2. Flow([c EXCEPT !.op = "set"])
    BY CredentialAssumption DEF Flow, AtHome, Knows, SignsIn, Idle
  <2> QED BY <1>3, <2>1, <2>2, ArriveOK DEF SetPassword
<1>4. ASSUME NEW t \in Resets, NEW x \in Secrets, ResetPassword(r, t, x) PROVE After
  <2> DEFINE c == [Idle EXCEPT !.at = "read", !.given = t, !.new = x]
  <2>1. c \in Call /\ "reset" \in Operations BY IdleOK DEF Call, Points, Operations, Tokens
  <2>2. Flow([c EXCEPT !.op = "reset"])
    BY CredentialAssumption DEF Flow, AtHome, Knows, SignsIn, Idle
  <2> QED BY <1>4, <2>1, <2>2, ArriveOK DEF ResetPassword
<1>5. ASSUME NEW t \in Proofs, VerifyEmail(r, t) PROVE After
  <2> DEFINE c == [Idle EXCEPT !.at = "mark", !.given = t]
  <2>1. c \in Call /\ "verify" \in Operations BY IdleOK DEF Call, Points, Operations, Tokens
  <2>2. Flow([c EXCEPT !.op = "verify"])
    BY CredentialAssumption DEF Flow, AtHome, Knows, SignsIn, Idle
  <2> QED BY <1>5, <2>1, <2>2, ArriveOK DEF VerifyEmail
<1>6. CASE AskReset(r)
  <2> DEFINE c == [Idle EXCEPT !.at = "lookup", !.admits = account.verified]
  <2>1. account.verified \in BOOLEAN BY DEF Inv, TypeOK, Account, MayLogIn
  <2>2. c \in Call /\ "ask" \in Operations BY IdleOK, <2>1 DEF Call, Points, Operations
  <2>3. Flow([c EXCEPT !.op = "ask"])
    BY CredentialAssumption DEF Flow, AtHome, Knows, SignsIn, Idle
  <2> QED BY <1>6, <2>2, <2>3, ArriveOK DEF AskReset
<1>7. CASE Resend(r)
  <2> DEFINE c == [Idle EXCEPT !.at = "clear"]
  <2>1. c \in Call /\ "resend" \in Operations BY IdleOK DEF Call, Points, Operations
  <2>2. Flow([c EXCEPT !.op = "resend"])
    BY CredentialAssumption DEF Flow, AtHome, Knows, SignsIn, Idle
  <2> QED BY <1>7, <2>1, <2>2, ArriveOK DEF Resend
<1>8. CASE TakeOver(r)
  <2> DEFINE c == [Idle EXCEPT !.at = "sweep"]
  <2>1. c \in Call /\ "takeOver" \in Operations BY IdleOK DEF Call, Points, Operations
  <2>2. Flow([c EXCEPT !.op = "takeOver"])
    BY CredentialAssumption DEF Flow, AtHome, Knows, SignsIn, Idle
  <2> QED BY <1>8, <2>1, <2>2, ArriveOK DEF TakeOver
<1>9. CASE HostEnrol(r)
  <2> DEFINE c == [Idle EXCEPT !.at = "factor"]
  <2>1. c \in Call /\ "hostEnrol" \in Operations BY IdleOK DEF Call, Points, Operations
  <2>2. Flow([c EXCEPT !.op = "hostEnrol"])
    BY CredentialAssumption DEF Flow, AtHome, Knows, SignsIn, Idle
  <2> QED BY <1>9, <2>1, <2>2, ArriveOK DEF HostEnrol
<1>10. ASSUME NEW s \in SessionIds, Enrol(r, s) PROVE After
  <2> DEFINE c == [Idle EXCEPT !.at = "factor", !.s = s]
  <2>1. c \in Call /\ "enrol" \in Operations BY IdleOK DEF Call, Points, Operations
  <2>2. Flow([c EXCEPT !.op = "enrol"])
    BY CredentialAssumption DEF Flow, AtHome, Knows, SignsIn, Idle
  <2> QED BY <1>10, <2>1, <2>2, ArriveOK DEF Enrol
<1>11. ASSUME NEW s \in SessionIds, NEW f \in Factors, Confirm(r, s, f) PROVE After
  <2> DEFINE c == [Idle EXCEPT !.at = "totp", !.s = s, !.factor = f, !.given = f]
  <2>1. c \in Call /\ "confirm" \in Operations BY IdleOK DEF Call, Points, Operations
  <2>2. Flow([c EXCEPT !.op = "confirm"])
    BY CredentialAssumption DEF Flow, AtHome, Knows, SignsIn, Idle
  <2> QED BY <1>11, <2>1, <2>2, ArriveOK DEF Confirm
<1>12. ASSUME NEW s \in SessionIds, NEW f \in Factors, Drop(r, s, f) PROVE After
  <2> DEFINE c == [Idle EXCEPT !.at = "drop", !.s = s, !.factor = f]
  <2>1. c \in Call /\ "drop" \in Operations BY IdleOK DEF Call, Points, Operations
  <2>2. Flow([c EXCEPT !.op = "drop"])
    BY CredentialAssumption DEF Flow, AtHome, Knows, SignsIn, Idle
  <2> QED BY <1>12, <2>1, <2>2, ArriveOK DEF Drop
<1>13. ASSUME NEW s \in SessionIds, NEW code \in Factors \cup Codes \cup {Nil}, CompleteMFA(r, s, code) PROVE After
  <2> DEFINE c == [Idle EXCEPT !.at = "list", !.s = s, !.given = code]
  <2>1. c \in Call /\ "complete" \in Operations BY IdleOK DEF Call, Points, Operations
  <2>2. Flow([c EXCEPT !.op = "complete"])
    BY CredentialAssumption DEF Flow, AtHome, Knows, SignsIn, Idle
  <2> QED BY <1>13, <2>1, <2>2, ArriveOK DEF CompleteMFA
<1>14. ASSUME NEW s \in SessionIds, NEW code \in Factors \cup Codes \cup {Nil}, NEW f \in Factors \cup {Nil}, Challenge(r, s, f, code) PROVE After
  <2> DEFINE c == [Idle EXCEPT !.at = IF f = Nil THEN "list" ELSE "totp",
                             !.s = s, !.factor = f, !.given = code]
  <2>1. (IF f = Nil THEN "list" ELSE "totp") \in Points /\ "challenge" \in Operations
    BY DEF Points, Operations
  <2>2. c \in Call BY <2>1, IdleOK DEF Call
  <2>3. Flow([c EXCEPT !.op = "challenge"])
    BY CredentialAssumption DEF Flow, AtHome, Knows, SignsIn, Idle
  <2> QED BY <1>14, <2>1, <2>2, <2>3, ArriveOK DEF Challenge
<1> QED BY <1>1, <1>2, <1>3, <1>4, <1>5, <1>6, <1>7, <1>8, <1>9, <1>10, <1>11, <1>12, <1>13, <1>14 DEF Calls

-----------------------------------------------------------------------------
\* The statements that write.
LEMMA SetSessionsOK ==
    ASSUME Inv, NEW S, NEW state \in {"open", "pending", "revoked"}, SetSessions(S, state)
    PROVE  /\ session' \in [SessionIds -> Session]
           /\ \A s \in SessionIds : session'[s].state = IF s \in S THEN state ELSE session[s].state
<1>1. session \in [SessionIds -> Session] BY DEF Inv, TypeOK
<1>2. session' = [s \in SessionIds |-> IF s \in S THEN [session[s] EXCEPT !.state = state]
                                       ELSE session[s]]
  BY DEF SetSessions
<1>3. \A s \in SessionIds : session[s] \in Session /\ [session[s] EXCEPT !.state = state] \in Session
  BY <1>1 DEF Session
<1>4. \A s \in SessionIds : session'[s].state = IF s \in S THEN state ELSE session[s].state
  BY <1>2, <1>3 DEF Session
<1> QED BY <1>2, <1>3, <1>4

\* A handler goes on to a point that its operation has.
LEMMA OnwardOK ==
    ASSUME Inv, NEW r \in Requests, NEW point \in Points, Goto(r, point),
           Flow(call[r]) => Flow([call[r] EXCEPT !.at = point])
    PROVE  call' \in [Requests -> Call] /\ FlowOK'
BY GotoOK DEF Inv, FlowOK

LEMMA PendOK == ASSUME Inv, NEW r \in Requests, Pend(r) PROVE After
<1>1. call[r] \in Call /\ Flow(call[r]) /\ TablesOK /\ held \subseteq Handed
  BY DEF Inv, TypeOK, FlowOK, TablesOK
<1>2. PICK point \in {"refused", "ok"} : Goto(r, point) BY DEF Pend
<1>3. Flow([call[r] EXCEPT !.at = point])
  BY <1>1, <1>2 DEF Pend, Call, Flow, AtHome, Knows, SignsIn
<1>4. call' \in [Requests -> Call] /\ FlowOK' BY <1>2, <1>3, OnwardOK DEF Points
<1>5. TablesOK' /\ (held \subseteq Handed)'
  BY <1>1, SetSessionsOK DEF Pend, TablesOK
<1> QED BY <1>4, <1>5 DEF After

LEMMA RevokeOK == ASSUME Inv, NEW r \in Requests, Revoke(r) PROVE After
<1>1. call[r] \in Call /\ Flow(call[r]) /\ TablesOK /\ held \subseteq Handed
  BY DEF Inv, TypeOK, FlowOK, TablesOK
<1>2. PICK point \in {"refused"} : Goto(r, point) BY DEF Revoke
<1>3. Flow([call[r] EXCEPT !.at = point])
  BY <1>1, <1>2 DEF Revoke, Call, Flow, AtHome, Knows, SignsIn
<1>4. call' \in [Requests -> Call] /\ FlowOK' BY <1>2, <1>3, OnwardOK DEF Points
<1>5. CASE UNCHANGED session BY <1>1, <1>4, <1>5 DEF Revoke, TablesOK, After
<1>6. CASE SetSessions({call[r].s} \cap {s \in SessionIds : Usable(s)}, "revoked")
  BY <1>1, <1>4, <1>6, SetSessionsOK DEF Revoke, TablesOK, After
<1> QED BY <1>5, <1>6 DEF Revoke

LEMMA UpdateHashOK == ASSUME Inv, NEW r \in Requests, UpdateHash(r) PROVE After
<1>1. call[r] \in Call /\ Flow(call[r]) /\ TablesOK /\ held \subseteq Handed
  BY DEF Inv, TypeOK, FlowOK, TablesOK
<1>2. PICK point \in {"others", "spend"} : Goto(r, point) /\ (point = "others" <=> call[r].op = "set") BY DEF UpdateHash
<1>3. Flow([call[r] EXCEPT !.at = point])
  BY <1>1, <1>2 DEF UpdateHash, Call, Flow, AtHome, Knows, SignsIn
<1>4. call' \in [Requests -> Call] /\ FlowOK' BY <1>2, <1>3, OnwardOK DEF Points
<1>5. TablesOK' /\ (held \subseteq Handed)'
  BY <1>1 DEF UpdateHash, TablesOK, Credential, Call
<1> QED BY <1>4, <1>5 DEF After

LEMMA RevokeOthersOK == ASSUME Inv, NEW r \in Requests, RevokeOthers(r) PROVE After
<1>1. call[r] \in Call /\ Flow(call[r]) /\ TablesOK /\ held \subseteq Handed
  BY DEF Inv, TypeOK, FlowOK, TablesOK
<1>2. PICK point \in {"refused", "ok"} : Goto(r, point) BY DEF RevokeOthers
<1>3. Flow([call[r] EXCEPT !.at = point])
  BY <1>1, <1>2 DEF RevokeOthers, Call, Flow, AtHome, Knows, SignsIn
<1>4. call' \in [Requests -> Call] /\ FlowOK' BY <1>2, <1>3, OnwardOK DEF Points
<1>5. TablesOK' /\ (held \subseteq Handed)'
  BY <1>1, SetSessionsOK DEF RevokeOthers, TablesOK
<1> QED BY <1>4, <1>5 DEF After

LEMMA SpendResetOK == ASSUME Inv, NEW r \in Requests, SpendReset(r) PROVE After
<1>1. call[r] \in Call /\ Flow(call[r]) /\ TablesOK /\ held \subseteq Handed
  BY DEF Inv, TypeOK, FlowOK, TablesOK
<1>2. PICK point \in {"refused", "ok"} : Goto(r, point) BY DEF SpendReset
<1>3. Flow([call[r] EXCEPT !.at = point])
  BY <1>1, <1>2 DEF SpendReset, Call, Flow, AtHome, Knows, SignsIn
<1>4. call' \in [Requests -> Call] /\ FlowOK' BY <1>2, <1>3, OnwardOK DEF Points
<1>5. TablesOK' /\ (held \subseteq Handed)'
  BY <1>1 DEF SpendReset, TablesOK
<1> QED BY <1>4, <1>5 DEF After

LEMMA ClearProofsOK == ASSUME Inv, NEW r \in Requests, ClearProofs(r) PROVE After
<1>1. call[r] \in Call /\ Flow(call[r]) /\ TablesOK /\ held \subseteq Handed
  BY DEF Inv, TypeOK, FlowOK, TablesOK
<1>2. PICK point \in {"mint", "ok"} : Goto(r, point) /\ (point = "mint" <=> call[r].op = "resend") BY DEF ClearProofs
<1>3. Flow([call[r] EXCEPT !.at = point])
  BY <1>1, <1>2 DEF ClearProofs, Call, Flow, AtHome, Knows, SignsIn
<1>4. call' \in [Requests -> Call] /\ FlowOK' BY <1>2, <1>3, OnwardOK DEF Points
<1>5. TablesOK' /\ (held \subseteq Handed)'
  BY <1>1 DEF ClearProofs, TablesOK
<1> QED BY <1>4, <1>5 DEF After

LEMMA MarkVerifiedOK == ASSUME Inv, NEW r \in Requests, MarkVerified(r) PROVE After
<1>1. call[r] \in Call /\ Flow(call[r]) /\ TablesOK /\ held \subseteq Handed
  BY DEF Inv, TypeOK, FlowOK, TablesOK
<1>2. PICK point \in {"clear", "session"} : Goto(r, point) /\ (point = "clear" <=> call[r].op = "verify") BY DEF MarkVerified
<1>3. Flow([call[r] EXCEPT !.at = point])
  BY <1>1, <1>2 DEF MarkVerified, Call, Flow, AtHome, Knows, SignsIn
<1>4. call' \in [Requests -> Call] /\ FlowOK' BY <1>2, <1>3, OnwardOK DEF Points
<1>5. TablesOK' /\ (held \subseteq Handed)'
  BY <1>1 DEF MarkVerified, TablesOK, Account
<1> QED BY <1>4, <1>5 DEF After

LEMMA SweepOK == ASSUME Inv, NEW r \in Requests, Sweep(r) PROVE After
<1>1. call[r] \in Call /\ Flow(call[r]) /\ TablesOK /\ held \subseteq Handed
  BY DEF Inv, TypeOK, FlowOK, TablesOK
<1>2. PICK point \in {"unpassword"} : Goto(r, point) BY DEF Sweep
<1>3. Flow([call[r] EXCEPT !.at = point])
  BY <1>1, <1>2 DEF Sweep, Call, Flow, AtHome, Knows, SignsIn
<1>4. call' \in [Requests -> Call] /\ FlowOK' BY <1>2, <1>3, OnwardOK DEF Points
<1>5. TablesOK' /\ (held \subseteq Handed)'
  BY <1>1, SetSessionsOK DEF Sweep, TablesOK
<1> QED BY <1>4, <1>5 DEF After

LEMMA RemovePasswordOK == ASSUME Inv, NEW r \in Requests, RemovePassword(r) PROVE After
<1>1. call[r] \in Call /\ Flow(call[r]) /\ TablesOK /\ held \subseteq Handed
  BY DEF Inv, TypeOK, FlowOK, TablesOK
<1>2. PICK point \in {"unfactor"} : Goto(r, point) BY DEF RemovePassword
<1>3. Flow([call[r] EXCEPT !.at = point])
  BY <1>1, <1>2 DEF RemovePassword, Call, Flow, AtHome, Knows, SignsIn
<1>4. call' \in [Requests -> Call] /\ FlowOK' BY <1>2, <1>3, OnwardOK DEF Points
<1>5. TablesOK' /\ (held \subseteq Handed)'
  BY <1>1, CredentialAssumption DEF RemovePassword, TablesOK, Credential, NoCredential
<1> QED BY <1>4, <1>5 DEF After

LEMMA RemoveFactorsOK == ASSUME Inv, NEW r \in Requests, RemoveFactors(r) PROVE After
<1>1. call[r] \in Call /\ Flow(call[r]) /\ TablesOK /\ held \subseteq Handed
  BY DEF Inv, TypeOK, FlowOK, TablesOK
<1>2. PICK point \in {"mark"} : Goto(r, point) BY DEF RemoveFactors
<1>3. Flow([call[r] EXCEPT !.at = point])
  BY <1>1, <1>2 DEF RemoveFactors, Call, Flow, AtHome, Knows, SignsIn
<1>4. call' \in [Requests -> Call] /\ FlowOK' BY <1>2, <1>3, OnwardOK DEF Points
<1>5. TablesOK' /\ (held \subseteq Handed)'
  BY <1>1 DEF RemoveFactors, TablesOK
<1> QED BY <1>4, <1>5 DEF After

LEMMA WipeCodesOK == ASSUME Inv, NEW r \in Requests, WipeCodes(r) PROVE After
<1>1. call[r] \in Call /\ Flow(call[r]) /\ TablesOK /\ held \subseteq Handed
  BY DEF Inv, TypeOK, FlowOK, TablesOK
<1>2. PICK point \in {"code"} : Goto(r, point) BY DEF WipeCodes
<1>3. Flow([call[r] EXCEPT !.at = point])
  BY <1>1, <1>2 DEF WipeCodes, Call, Flow, AtHome, Knows, SignsIn
<1>4. call' \in [Requests -> Call] /\ FlowOK' BY <1>2, <1>3, OnwardOK DEF Points
<1>5. TablesOK' /\ (held \subseteq Handed)'
  BY <1>1 DEF WipeCodes, TablesOK
<1> QED BY <1>4, <1>5 DEF After

LEMMA DeleteFactorOK == ASSUME Inv, NEW r \in Requests, DeleteFactor(r) PROVE After
<1>1. call[r] \in Call /\ Flow(call[r]) /\ TablesOK /\ held \subseteq Handed
  BY DEF Inv, TypeOK, FlowOK, TablesOK
<1>2. PICK point \in {"ok"} : Goto(r, point) BY DEF DeleteFactor
<1>3. Flow([call[r] EXCEPT !.at = point])
  BY <1>1, <1>2 DEF DeleteFactor, Call, Flow, AtHome, Knows, SignsIn
<1>4. call' \in [Requests -> Call] /\ FlowOK' BY <1>2, <1>3, OnwardOK DEF Points
<1>5. TablesOK' /\ (held \subseteq Handed)'
  BY <1>1 DEF DeleteFactor, TablesOK
<1> QED BY <1>4, <1>5 DEF After

LEMMA ConfirmFactorOK == ASSUME Inv, NEW r \in Requests, ConfirmFactor(r) PROVE After
<1>1. call[r] \in Call /\ Flow(call[r]) /\ TablesOK /\ held \subseteq Handed
  BY DEF Inv, TypeOK, FlowOK, TablesOK
<1>2. PICK point \in {"unpend", "ok", "recover", "refused"} : Goto(r, point)
                      /\ (point \in {"unpend", "recover"} => call[r].op = "challenge") BY DEF ConfirmFactor
<1>3. Flow([call[r] EXCEPT !.at = point])
  BY <1>1, <1>2 DEF ConfirmFactor, Call, Flow, AtHome, Knows, SignsIn
<1>4. call' \in [Requests -> Call] /\ FlowOK' BY <1>2, <1>3, OnwardOK DEF Points
<1>5. TablesOK' /\ (held \subseteq Handed)'
  BY <1>1 DEF ConfirmFactor, TablesOK
<1> QED BY <1>4, <1>5 DEF After

LEMMA RecoverOK == ASSUME Inv, NEW r \in Requests, Recover(r) PROVE After
<1>1. call[r] \in Call /\ Flow(call[r]) /\ TablesOK /\ held \subseteq Handed
  BY DEF Inv, TypeOK, FlowOK, TablesOK
<1>2. PICK point \in {"unpend", "refused"} : Goto(r, point) BY DEF Recover
<1>3. Flow([call[r] EXCEPT !.at = point])
  BY <1>1, <1>2 DEF Recover, Call, Flow, AtHome, Knows, SignsIn
<1>4. call' \in [Requests -> Call] /\ FlowOK' BY <1>2, <1>3, OnwardOK DEF Points
<1>5. TablesOK' /\ (held \subseteq Handed)'
  BY <1>1 DEF Recover, TablesOK
<1> QED BY <1>4, <1>5 DEF After

LEMMA UnpendOK == ASSUME Inv, NEW r \in Requests, Unpend(r) PROVE After
<1>1. call[r] \in Call /\ Flow(call[r]) /\ TablesOK /\ held \subseteq Handed
  BY DEF Inv, TypeOK, FlowOK, TablesOK
<1>2. PICK point \in {"refused", "ok", "hook"} : Goto(r, point) /\ (point = "hook" => call[r].op \notin ByHost) BY DEF Unpend
<1>3. Flow([call[r] EXCEPT !.at = point])
  BY <1>1, <1>2 DEF Unpend, Call, Flow, AtHome, Knows, SignsIn, ByHost
<1>4. call' \in [Requests -> Call] /\ FlowOK' BY <1>2, <1>3, OnwardOK DEF Points
<1>5. TablesOK' /\ (held \subseteq Handed)'
  BY <1>1, SetSessionsOK DEF Unpend, TablesOK
<1> QED BY <1>4, <1>5 DEF After

LEMMA InsertSessionOK == ASSUME Inv, NEW r \in Requests, InsertSession(r) PROVE After
<1>1. call[r] \in Call /\ Flow(call[r]) /\ TablesOK /\ held \subseteq Handed
  BY DEF Inv, TypeOK, FlowOK, TablesOK
<1>2. CASE Goto(r, "refused") /\ UNCHANGED session
  <2>1. Flow([call[r] EXCEPT !.at = "refused"])
    BY <1>1 DEF InsertSession, Call, Flow, AtHome, Knows, SignsIn
  <2>2. call' \in [Requests -> Call] /\ FlowOK' BY <1>2, <2>1, OnwardOK DEF Points
  <2> QED BY <1>1, <1>2, <2>2 DEF InsertSession, TablesOK, After
<1>3. CASE Fresh(session, NoSessionRow) # {} /\ ~(Goto(r, "refused") /\ UNCHANGED session)
  <2> DEFINE s == Minted(session, NoSessionRow)
             c == [call[r] EXCEPT !.at = "second", !.s = s]
  <2>1. s \in SessionIds BY <1>1, <1>3, FreshRow DEF TablesOK, Fresh
  <2>2. session' = [session EXCEPT ![s].state = "open"] /\ Become(r, c) /\ call[r].at = "session"
        /\ UNCHANGED <<account, credential, lastRow, token, factor, recovery, held>>
    BY <1>3 DEF InsertSession
  <2> HIDE DEF s
  <2>3. session' \in [SessionIds -> Session] BY <1>1, <2>2 DEF TablesOK, Session
  <2>4. c \in Call BY <1>1, <2>1 DEF Call, Points
  <2>5. Flow(c) BY <1>1, <2>1, <2>2 DEF Call, Flow, AtHome, Knows, SignsIn
  <2>6. call' \in [Requests -> Call] /\ FlowOK' BY <2>2, <2>4, <2>5, BecomeOK
  <2> QED BY <1>1, <2>2, <2>3, <2>6 DEF TablesOK, After
<1> QED BY <1>2, <1>3 DEF InsertSession

LEMMA CreateCredentialOK == ASSUME Inv, NEW r \in Requests, CreateCredential(r) PROVE After
<1>1. call[r] \in Call /\ Flow(call[r]) /\ TablesOK /\ held \subseteq Handed
  BY DEF Inv, TypeOK, FlowOK, TablesOK
<1>2. PICK point \in {"refused", "others", "spend"} :
         /\ Goto(r, point) /\ call[r].at = "create"
         /\ point = "others" => call[r].op = "set"
         /\ point = "spend" => call[r].op # "set"
  BY DEF CreateCredential
<1>3. Flow([call[r] EXCEPT !.at = point]) BY <1>1, <1>2 DEF Call, Flow, AtHome, Knows, SignsIn
<1>4. call' \in [Requests -> Call] /\ FlowOK' BY <1>2, <1>3, OnwardOK DEF Points
<1>5. credential' \in Credential /\ lastRow' \in 0..MaxRow
  BY <1>1, CredentialAssumption DEF CreateCredential, TablesOK, Credential, Call
<1>6. TablesOK' /\ (held \subseteq Handed)' BY <1>1, <1>5 DEF CreateCredential, TablesOK
<1> QED BY <1>4, <1>6 DEF After

LEMMA IssueResetOK == ASSUME Inv, NEW r \in Requests, IssueReset(r) PROVE After
<1>1. call[r] \in Call /\ Flow(call[r]) /\ TablesOK /\ held \subseteq Handed
  BY DEF Inv, TypeOK, FlowOK, TablesOK
<1> DEFINE t == Minted([x \in Resets |-> token[x]], "none")
           c == [call[r] EXCEPT !.at = "ok", !.given = t]
<1>2. t \in Resets
  <2>1. PICK x \in Resets : token[x] = "none" BY <1>1 DEF IssueReset, Fresh, TablesOK
  <2> QED BY <2>1, MintedFresh
<1>3. token' = [token EXCEPT ![t] = "open"] /\ Become(r, c) /\ call[r].at = "issue"
      /\ UNCHANGED <<account, credential, lastRow, session, factor, recovery, held>>
  BY DEF IssueReset
<1> HIDE DEF t
<1>4. token' \in [Tokens -> {"none", "open", "gone"}] BY <1>1, <1>3 DEF TablesOK
<1>5. c \in Call BY <1>1, <1>2 DEF Call, Points, Tokens
<1>6. Flow(c) BY <1>1, <1>2, <1>3 DEF Call, Flow, AtHome, Knows, SignsIn, Tokens
<1>7. call' \in [Requests -> Call] /\ FlowOK' BY <1>3, <1>5, <1>6, BecomeOK
<1> QED BY <1>1, <1>3, <1>4, <1>7 DEF TablesOK, After

LEMMA MintProofOK == ASSUME Inv, NEW r \in Requests, MintProof(r) PROVE After
<1>1. call[r] \in Call /\ Flow(call[r]) /\ TablesOK /\ held \subseteq Handed
  BY DEF Inv, TypeOK, FlowOK, TablesOK
<1> DEFINE t == Minted([x \in Proofs |-> token[x]], "none")
           c == [call[r] EXCEPT !.at = "ok", !.given = t]
<1>2. t \in Proofs
  <2>1. PICK x \in Proofs : token[x] = "none" BY <1>1 DEF MintProof, Fresh, TablesOK
  <2> QED BY <2>1, MintedFresh
<1>3. token' = [token EXCEPT ![t] = "open"] /\ Become(r, c) /\ call[r].at = "mint"
      /\ UNCHANGED <<account, credential, lastRow, session, factor, recovery, held>>
  BY DEF MintProof
<1> HIDE DEF t
<1>4. token' \in [Tokens -> {"none", "open", "gone"}] BY <1>1, <1>3 DEF TablesOK
<1>5. c \in Call BY <1>1, <1>2 DEF Call, Points, Tokens
<1>6. Flow(c) BY <1>1, <1>2, <1>3 DEF Call, Flow, AtHome, Knows, SignsIn, Tokens
<1>7. call' \in [Requests -> Call] /\ FlowOK' BY <1>3, <1>5, <1>6, BecomeOK
<1> QED BY <1>1, <1>3, <1>4, <1>7 DEF TablesOK, After

LEMMA InsertFactorOK == ASSUME Inv, NEW r \in Requests, InsertFactor(r) PROVE After
<1>1. call[r] \in Call /\ Flow(call[r]) /\ TablesOK /\ held \subseteq Handed
  BY DEF Inv, TypeOK, FlowOK, TablesOK
<1> DEFINE f == Minted(factor, "none")
           c == [call[r] EXCEPT !.at = "wipe", !.factor = f]
<1>2. f \in Factors BY <1>1, FreshRow DEF InsertFactor, TablesOK, Fresh
<1>3. factor' = [factor EXCEPT ![f] = "new"] /\ Become(r, c) /\ call[r].at = "factor"
      /\ UNCHANGED <<account, credential, lastRow, session, token, recovery, held>>
  BY DEF InsertFactor
<1> HIDE DEF f
<1>4. factor' \in [Factors -> {"none", "new", "verified", "gone"}] BY <1>1, <1>3 DEF TablesOK
<1>5. c \in Call BY <1>1, <1>2 DEF Call, Points
<1>6. Flow(c) BY <1>1, <1>2, <1>3 DEF Call, Flow, AtHome, Knows, SignsIn
<1>7. call' \in [Requests -> Call] /\ FlowOK' BY <1>3, <1>5, <1>6, BecomeOK
<1> QED BY <1>1, <1>3, <1>4, <1>7 DEF TablesOK, After

LEMMA InsertCodeOK == ASSUME Inv, NEW r \in Requests, InsertCode(r) PROVE After
<1>1. call[r] \in Call /\ Flow(call[r]) /\ TablesOK /\ held \subseteq Handed
  BY DEF Inv, TypeOK, FlowOK, TablesOK
<1>2. PICK codes \in SUBSET Codes, point \in {"ok", "refused", "code"} :
         /\ Become(r, [call[r] EXCEPT !.codes = codes, !.at = point]) /\ call[r].at = "code"
         /\ point = "refused" => call[r].op # "enrol"
         /\ recovery' \in [Codes -> {"none", "open", "used", "gone"}]
  <2>1. CASE Become(r, [call[r] EXCEPT !.codes = {}, !.at = IF call[r].op = "enrol" THEN "ok" ELSE "refused"])
              /\ UNCHANGED recovery
    BY <1>1, <2>1 DEF InsertCode, TablesOK
  <2>2. CASE Fresh(recovery, "none") # {} /\ \E k \in {Minted(recovery, "none")} :
                 /\ recovery' = [recovery EXCEPT ![k] = "open"]
                 /\ Become(r, [call[r] EXCEPT !.codes = @ \cup {k},
                       !.at = IF Cardinality(call[r].codes) + 1 = CodesPerSet THEN "ok" ELSE "code"])
    <3>1. PICK k : /\ k = Minted(recovery, "none")
                   /\ recovery' = [recovery EXCEPT ![k] = "open"]
                   /\ Become(r, [call[r] EXCEPT !.codes = @ \cup {k},
                         !.at = IF Cardinality(call[r].codes) + 1 = CodesPerSet THEN "ok" ELSE "code"])
      BY <2>2
    <3>2. k \in Codes BY <1>1, <2>2, <3>1, FreshRow DEF Fresh, TablesOK
    <3>3. call[r].codes \cup {k} \in SUBSET Codes BY <1>1, <3>2 DEF Call
    <3>4. recovery' \in [Codes -> {"none", "open", "used", "gone"}] BY <1>1, <3>1 DEF TablesOK
    <3> QED BY <3>1, <3>3, <3>4 DEF InsertCode
  <2> QED BY <2>1, <2>2 DEF InsertCode
<1> DEFINE c == [call[r] EXCEPT !.codes = codes, !.at = point]
<1>3. c \in Call BY <1>1 DEF Call, Points
<1>4. Flow(c) BY <1>1, <1>2 DEF Call, Flow, AtHome, Knows, SignsIn
<1>5. call' \in [Requests -> Call] /\ FlowOK' BY <1>2, <1>3, <1>4, BecomeOK
<1> QED BY <1>1, <1>2, <1>5 DEF InsertCode, TablesOK, After

LEMMA LeaveOK == ASSUME Inv, NEW r \in Requests, Leave(r) PROVE After
<1>1. call[r] \in Call /\ Flow(call[r]) /\ TablesOK /\ held \subseteq Handed
  BY DEF Inv, TypeOK, FlowOK, TablesOK
<1>2. Shown(call[r]) \subseteq Handed
  <2> DEFINE c == call[r]
  <2>1. CASE c.at = "ok" /\ c.op \in {"login", "hostLogin", "takeOver"}
    <3>1. Shown(c) = {c.s} BY <2>1 DEF Shown
    <3> QED BY <1>1, <2>1, <3>1 DEF Flow, Knows, SignsIn, Handed
  <2>2. CASE c.at = "ok" /\ c.op \in {"ask", "resend"}
    <3>1. Shown(c) = {c.given} BY <2>2 DEF Shown
    <3> QED BY <1>1, <2>2, <3>1 DEF Flow, Knows, Handed
  <2>3. CASE c.at = "ok" /\ c.op \in {"enrol", "hostEnrol"}
    <3>1. Shown(c) = {c.factor} \cup c.codes BY <2>3 DEF Shown
    <3>2. c.factor \in Factors /\ c.codes \subseteq Codes BY <1>1, <2>3 DEF Flow, Knows, Call
    <3> QED BY <3>1, <3>2 DEF Handed
  <2>4. CASE ~(c.at = "ok" /\ c.op \in {"login", "hostLogin", "takeOver", "ask", "resend", "enrol", "hostEnrol"})
    <3>1. CASE c.at # "ok" BY <3>1 DEF Shown
    <3>2. CASE /\ c.at = "ok" /\ c.op \notin {"login", "hostLogin", "takeOver"}
               /\ c.op \notin {"ask", "resend"} /\ c.op \notin {"enrol", "hostEnrol"}
      BY <3>2 DEF Shown
    <3> QED BY <2>4, <3>1, <3>2
  <2> QED BY <2>1, <2>2, <2>3, <2>4
<1>3. call' \in [Requests -> Call] /\ FlowOK' BY IdleOK, BecomeOK DEF Leave
<1> QED BY <1>1, <1>2, <1>3 DEF Leave, TablesOK, tables, After

LEMMA OthersOK == ASSUME Inv, Others PROVE After
<1>1. TablesOK /\ held \subseteq Handed /\ call \in [Requests -> Call] /\ FlowOK
  BY DEF Inv, TypeOK, TablesOK
<1>2. ASSUME NEW status \in {"active", "inactive", "locked"}, SetStatus(status) PROVE After
  BY <1>1, <1>2 DEF SetStatus, TablesOK, Account, After, FlowOK
<1>3. ASSUME NEW s \in SessionIds, Age(s) PROVE After
  BY <1>1, <1>3 DEF Age, TablesOK, Session, After, FlowOK
<1>4. ASSUME NEW t \in Tokens, Lapse(t) PROVE After
  BY <1>1, <1>4 DEF Lapse, TablesOK, After, FlowOK
<1> QED BY <1>2, <1>3, <1>4 DEF Others

\* History keeps its types too.
LEMMA GatherOK ==
    ASSUME Inv, After, NEW r \in Requests
    PROVE  Gather(r) \in Since
<1> DEFINE x == since[r]
           d == call'[r]
           rows == IF d.op = "set" THEN x.rows \cup {credential'} ELSE {}
           factors == IF d.op \notin {"login", "hostLogin"} THEN {}
                      ELSE IF call[r].at = "idle" THEN Verified ELSE x.factors \cap Verified'
           used == IF d.op \notin {"reset", "verify"} THEN {}
                   ELSE IF call[r].at = "idle" THEN spent ELSE x.spent
           others == IF d.at = "others" /\ call[r].at # "others"
                     THEN {s \in SessionIds \ {d.s} : Usable(s)} ELSE x.others
           alone == x.alone /\ (d.op \in {"enrol", "hostEnrol"} =>
                      \A q \in Requests \ {r} : call'[q].op \notin Renewing)
<1>1. x \in Since /\ spent \subseteq Tokens /\ credential' \in Credential
  BY DEF Inv, TypeOK, After, TablesOK
<1>2. rows \in SUBSET Credential BY <1>1 DEF Since
<1>3. factors \in SUBSET Factors BY <1>1 DEF Since, Verified
<1>4. used \in SUBSET Tokens BY <1>1 DEF Since
<1>5. others \in SUBSET SessionIds BY <1>1 DEF Since
<1>6. alone \in BOOLEAN BY <1>1 DEF Since
<1>7. Gather(r) = IF d.at \in {"idle", "refused"} THEN NoSince
                  ELSE [rows |-> rows, factors |-> factors, spent |-> used,
                        others |-> others, alone |-> alone]
  BY DEF Gather
<1> HIDE DEF rows, factors, used, others, alone
<1>8. NoSince \in Since BY DEF NoSince, Since
<1> QED BY <1>2, <1>3, <1>4, <1>5, <1>6, <1>7, <1>8 DEF Since

LEMMA StepOK ==
    ASSUME Inv, Others \/ \E r \in Requests : Calls(r) \/ Statements(r)
    PROVE  After
BY OthersOK, CallsOK, ReadsOK, PendOK, RevokeOK, UpdateHashOK, RevokeOthersOK, SpendResetOK,
   ClearProofsOK, MarkVerifiedOK, SweepOK, RemovePasswordOK, RemoveFactorsOK, WipeCodesOK,
   DeleteFactorOK, ConfirmFactorOK, RecoverOK, UnpendOK, InsertSessionOK, CreateCredentialOK,
   IssueResetOK, MintProofOK, InsertFactorOK, InsertCodeOK, LeaveOK
   DEF Statements

LEMMA HistoryOK ==
    ASSUME Inv, After, History, UNCHANGED config
    PROVE  Inv'
<1>1. since' \in [Requests -> Since] BY GatherOK DEF History
<1>2. spent' \subseteq Tokens
  <2>1. \A r \in Requests : call'[r].at = "ok" /\ call'[r].op \in {"reset", "verify"}
                              => call'[r].given \in Tokens
    BY DEF After, FlowOK, Flow, Knows, Tokens
  <2> QED BY <2>1 DEF History, Inv, TypeOK
<1>3. opened' \in [Codes -> Nat]
  <2>1. \A k \in Codes : Cardinality({r \in Requests :
            call'[r].at = "ok" /\ call[r].at # "ok" /\ call'[r].given = k}) \in Nat
    BY CredentialAssumption, FS_Subset, FS_CardinalityType
  <2> QED BY <2>1 DEF History, Inv, TypeOK
<1>4. config' \in Configs BY DEF Inv, TypeOK
<1> QED BY <1>1, <1>2, <1>3, <1>4 DEF Inv, TypeOK, After, TablesOK

LEMMA InitOK == Init => Inv
<1> SUFFICES ASSUME Init PROVE Inv OBVIOUS
<1> DEFINE empty == [s \in SessionIds |-> NoSessionRow]
           none == [f \in Factors |-> "none"]
           s0 == Minted(empty, NoSessionRow)
           f0 == Minted(none, "none")
<1>1. s0 \in SessionIds
  <2>1. PICK s \in SessionIds : empty[s] = NoSessionRow BY CredentialAssumption
  <2> QED BY <2>1, MintedFresh
<1>2. f0 \in Factors
  <2>1. PICK f \in Factors : none[f] = "none" BY CredentialAssumption
  <2> QED BY <2>1, MintedFresh
<1>3. /\ session = [empty EXCEPT ![s0].state = "open"]
      /\ factor = IF config.factored THEN [none EXCEPT ![f0] = "verified"] ELSE none
      /\ held = {s0} \cup (IF config.factored THEN {f0} ELSE {})
  BY DEF Init
<1> HIDE DEF s0, f0
<1>4. session \in [SessionIds -> Session] /\ held \subseteq Handed
  BY <1>1, <1>2, <1>3 DEF Session, NoSessionRow, Handed
<1>5. factor \in [Factors -> {"none", "new", "verified", "gone"}] BY <1>2, <1>3
<1>6. config \in Config BY ConfigAssumption DEF Init
<1>7. account \in Account /\ lastRow \in 0..MaxRow /\ credential \in Credential
  BY <1>6, CredentialAssumption DEF Init, Config, Account, Credential, NoCredential
<1>8. FlowOK BY IdleOK DEF Init, FlowOK
<1>9. since \in [Requests -> Since] BY DEF Init, Since, NoSince
<1>10. call \in [Requests -> Call] BY IdleOK DEF Init
<1> QED BY <1>4, <1>5, <1>7, <1>8, <1>9, <1>10 DEF Init, Inv, TypeOK

LEMMA NextOK == ASSUME Inv, [Next]_vars PROVE Inv'
<1>1. CASE Next
  <2>1. After BY <1>1, StepOK DEF Next
  <2> QED BY <1>1, <2>1, HistoryOK DEF Next
<1>2. CASE UNCHANGED vars
  BY <1>2 DEF Inv, TypeOK, FlowOK, vars, tables, history
<1> QED BY <1>1, <1>2

THEOREM Invariance == Spec => []Inv
BY InitOK, NextOK, PTL DEF Spec

\* Every variable of Credentials keeps its type in every instance: what a handler
\* hands to its caller, mints or presents is what its operation needs there.
THEOREM TypeCorrect == Spec => []TypeOK
<1>1. Inv => TypeOK BY DEF Inv
<1> QED BY <1>1, Invariance, PTL
-----------------------------------------------------------------------------
\* The hazards: used links stay dead, a password is replaced only on proof of it, and
\* a change of the password leaves no other session.  The invariant says of every
\* handler what it knows about the tables (its Facts), and holds on to it because rows
\* only go one way (Grown): an address stays verified, a spent token spent, a revoked
\* session revoked.

Rested(r) == call[r].at \in {"idle", "refused"} => since[r] = NoSince

\* A reset or verification presents a token that was minted, and that nobody had used
\* when it arrived; it is answered when the token is gone.
TokenFacts(r) ==
    call[r].op \in {"reset", "verify"} /\ call[r].at # "refused" =>
        /\ token[call[r].given] # "none" /\ call[r].given \notin since[r].spent
        /\ call[r].at = "ok" => token[call[r].given] = "gone"

\* A first password is for a verified address; a change of one is of a row that was
\* there, by one who has shown the secret it held.
PasswordFacts(r) ==
    /\ call[r].at = "create" => account.verified
    /\ call[r].op = "set" /\ call[r].at = "read" /\ call[r].admits => account.verified
    /\ call[r].at = "update" => call[r].row # 0
    /\ call[r].op = "set" /\ call[r].at = "update" =>
          [row |-> call[r].row, secret |-> call[r].given] \in since[r].rows

\* The sessions a change of the password has to revoke are rows of others.
OthersFacts(r) ==
    call[r].op = "set" =>
        /\ since[r].others \subseteq SessionIds \ {call[r].s}
        /\ \A s \in since[r].others : session[s].state # "free"
        /\ call[r].at = "ok" => \A s \in since[r].others : session[s].state = "revoked"

SpentGone == \A t \in spent : token[t] = "gone"
RowZero == credential.row = 0 => credential = NoCredential

Safe ==
    /\ Inv /\ SpentGone /\ RowZero
    /\ \A r \in Requests : Rested(r) /\ TokenFacts(r) /\ PasswordFacts(r) /\ OthersFacts(r)

-----------------------------------------------------------------------------
\* The point at which each statement is made.
LEMMA Where ==
    ASSUME NEW r
    PROVE  /\ (ReadUser(r) => call[r].at = "reread") /\ (Match(r) => call[r].at = "match")
           /\ (InsertSession(r) => call[r].at = "session") /\ (Second(r) => call[r].at = "second")
           /\ (Pend(r) => call[r].at = "pend") /\ (OnLogin(r) => call[r].at = "hook")
           /\ (Revoke(r) => call[r].at = "revoke") /\ (Reload(r) => call[r].at = "reload")
           /\ (CheckActive(r) => call[r].at = "user") /\ (ReadCredential(r) => call[r].at = "read")
           /\ (CreateCredential(r) => call[r].at = "create") /\ (UpdateHash(r) => call[r].at = "update")
           /\ (RevokeOthers(r) => call[r].at = "others") /\ (LookUp(r) => call[r].at = "lookup")
           /\ (IssueReset(r) => call[r].at = "issue") /\ (CheckOwner(r) => call[r].at = "owner")
           /\ (SpendReset(r) => call[r].at = "spend") /\ (ClearProofs(r) => call[r].at = "clear")
           /\ (MintProof(r) => call[r].at = "mint") /\ (MarkVerified(r) => call[r].at = "mark")
           /\ (Sweep(r) => call[r].at = "sweep") /\ (RemovePassword(r) => call[r].at = "unpassword")
           /\ (RemoveFactors(r) => call[r].at = "unfactor") /\ (InsertFactor(r) => call[r].at = "factor")
           /\ (WipeCodes(r) => call[r].at = "wipe") /\ (InsertCode(r) => call[r].at = "code")
           /\ (DeleteFactor(r) => call[r].at = "drop") /\ (ListFactors(r) => call[r].at = "list")
           /\ (CheckTOTP(r) => call[r].at = "totp")
           /\ (ConfirmFactor(r) => call[r].at = "confirm") /\ (Recover(r) => call[r].at = "recover")
           /\ (Unpend(r) => call[r].at = "unpend")
           /\ (Leave(r) => call[r].at \in {"ok", "refused"})
BY DEF ReadUser, Match, InsertSession, Second, Pend, OnLogin, Revoke, Reload, CheckActive,
       ReadCredential, CreateCredential, UpdateHash, RevokeOthers, LookUp, IssueReset, CheckOwner,
       SpendReset, ClearProofs, MintProof, MarkVerified, Sweep, RemovePassword, RemoveFactors,
       InsertFactor, WipeCodes, InsertCode, DeleteFactor, ListFactors, CheckTOTP, ConfirmFactor,
       Recover, Unpend, Leave

\* What Become does to the calls.
LEMMA BecomeIs ==
    ASSUME Inv, NEW r \in Requests, NEW c, Become(r, c)
    PROVE  /\ \A q \in Requests \ {r} : call'[q] = call[q]
           /\ call'[r] = IF c.at = "refused" THEN [Idle EXCEPT !.at = "refused", !.op = c.op] ELSE c
BY DEF Become, Inv, TypeOK

LEMMA GotoIs ==
    ASSUME Inv, NEW r \in Requests, NEW point, Goto(r, point)
    PROVE  /\ \A q \in Requests \ {r} : call'[q] = call[q]
           /\ call'[r] = IF point = "refused"
                         THEN [Idle EXCEPT !.at = "refused", !.op = call[r].op]
                         ELSE [call[r] EXCEPT !.at = point]
<1> DEFINE c == [call[r] EXCEPT !.at = point]
<1>1. call[r] \in Call BY DEF Inv, TypeOK
<1>2. c.at = point /\ c.op = call[r].op BY <1>1 DEF Call
<1>3. Become(r, c) BY DEF Goto
<1> HIDE DEF c
<1>4. /\ \A q \in Requests \ {r} : call'[q] = call[q]
      /\ call'[r] = IF c.at = "refused" THEN [Idle EXCEPT !.at = "refused", !.op = c.op] ELSE c
  BY <1>3, BecomeIs
<1> QED BY <1>2, <1>4 DEF c

LEMMA BecomeAt == ASSUME Inv, NEW r \in Requests, NEW d, Become(r, d) PROVE call'[r].at = d.at
<1>1. CASE d.at = "refused"
  <2>1. call'[r] = [Idle EXCEPT !.at = "refused", !.op = d.op] BY <1>1, BecomeIs
  <2> QED BY <1>1, <2>1 DEF Idle
<1>2. CASE d.at # "refused" BY <1>2, BecomeIs
<1> QED BY <1>1, <1>2

LEMMA GotoAt ==
    ASSUME Inv, NEW r \in Requests, NEW point, Goto(r, point) PROVE call'[r].at = point
<1>1. call[r] \in Call BY DEF Inv, TypeOK
<1>2. [call[r] EXCEPT !.at = point].at = point BY <1>1 DEF Call
<1> QED BY <1>2, BecomeAt DEF Goto

\* The points some of the statements lead to.
LEMMA Whither ==
    ASSUME Inv, NEW r \in Requests
    PROVE  /\ Reload(r) => call'[r].at \in {"user", "refused"}
           /\ CheckActive(r) => call'[r].at \in {"read", "refused"}
           /\ ReadCredential(r) => call'[r].at \in {"update", "owner", "create", "refused"}
           /\ CheckOwner(r) => call'[r].at \in {"create", "refused"}
           /\ CreateCredential(r) \/ UpdateHash(r) => call'[r].at \in {"others", "spend", "refused"}
           /\ MarkVerified(r) => call'[r].at \in {"clear", "session"}
           /\ RevokeOthers(r) \/ SpendReset(r) => call'[r].at \in {"refused", "ok"}
           /\ ClearProofs(r) => call'[r].at \in {"mint", "ok"}
<1>1. call[r] \in Call BY DEF Inv, TypeOK
<1>2. ASSUME CheckActive(r) PROVE call'[r].at \in {"read", "refused"}
  <2>1. PICK point \in {"read", "refused"} :
           Become(r, [call[r] EXCEPT !.admits = account.verified, !.at = point])
    BY <1>2 DEF CheckActive
  <2>2. [call[r] EXCEPT !.admits = account.verified, !.at = point].at = point BY <1>1 DEF Call
  <2> QED BY <2>1, <2>2, BecomeAt
<1>3. ASSUME ReadCredential(r) PROVE call'[r].at \in {"update", "owner", "create", "refused"}
  <2>1. PICK point \in {"update", "owner", "create", "refused"} :
           Become(r, [call[r] EXCEPT !.row = credential.row, !.at = point])
    BY <1>3 DEF ReadCredential
  <2>2. [call[r] EXCEPT !.row = credential.row, !.at = point].at = point BY <1>1 DEF Call
  <2> QED BY <2>1, <2>2, BecomeAt
<1>4. Reload(r) => call'[r].at \in {"user", "refused"} BY GotoAt DEF Reload
<1>5. CheckOwner(r) => call'[r].at \in {"create", "refused"} BY GotoAt DEF CheckOwner
<1>6. CreateCredential(r) \/ UpdateHash(r) => call'[r].at \in {"others", "spend", "refused"}
  BY GotoAt DEF CreateCredential, UpdateHash
<1>7. MarkVerified(r) => call'[r].at \in {"clear", "session"} BY GotoAt DEF MarkVerified
<1>8. RevokeOthers(r) \/ SpendReset(r) => call'[r].at \in {"refused", "ok"}
  BY GotoAt DEF RevokeOthers, SpendReset
<1>9. ClearProofs(r) => call'[r].at \in {"mint", "ok"} BY GotoAt DEF ClearProofs
<1> QED BY <1>2, <1>3, <1>4, <1>5, <1>6, <1>7, <1>8, <1>9

\* The statements of the operations the theorems are about.
LEMMA Steps ==
    ASSUME Inv, NEW r \in Requests, Statements(r)
    PROVE  /\ call[r].op = "reset" => \/ ReadCredential(r) \/ CheckOwner(r) \/ CreateCredential(r)
                                      \/ UpdateHash(r) \/ SpendReset(r) \/ Leave(r)
           /\ call[r].op = "verify" => MarkVerified(r) \/ ClearProofs(r) \/ Leave(r)
           /\ call[r].op = "set" => \/ Reload(r) \/ CheckActive(r) \/ ReadCredential(r)
                                    \/ CreateCredential(r) \/ UpdateHash(r) \/ RevokeOthers(r) \/ Leave(r)
           /\ call[r].op \in {"login", "hostLogin"} =>
                 \/ ReadUser(r) \/ Match(r) \/ InsertSession(r) \/ Second(r) \/ Pend(r)
                 \/ OnLogin(r) \/ Revoke(r) \/ Leave(r)
           /\ call[r].at # "idle"
<1>1. AtHome(call[r]) BY DEF Inv, FlowOK, Flow
<1>2. call[r].at # "idle" BY Where DEF Statements
<1> QED BY <1>1, <1>2, Where DEF Statements, AtHome

-----------------------------------------------------------------------------
\* What a step may not take back, whoever makes it.
Grown ==
    /\ account.verified => account'.verified
    /\ \A t \in Tokens : /\ token[t] = "gone" => token'[t] = "gone"
                         /\ token[t] # "none" => token'[t] # "none"
    /\ \A s \in SessionIds : /\ session[s].state = "revoked" => session'[s].state = "revoked"
                             /\ session[s].state # "free" => session'[s].state # "free"

LEMMA Constant == ASSUME UNCHANGED <<account, token, session>> PROVE Grown
BY DEF Grown

LEMMA Minting ==
    ASSUME TablesOK, NEW T \in SUBSET Tokens, Fresh(token, "none") \cap T # {},
           NEW t, t = Minted([x \in T |-> token[x]], "none")
    PROVE  t \in T /\ token[t] = "none"
<1>1. PICK x \in T : token[x] = "none" BY DEF Fresh, TablesOK
<1>2. t \in T /\ [y \in T |-> token[y]][t] = "none" BY <1>1, MintedFresh
<1> QED BY <1>2

LEMMA StatementsGrow == ASSUME Inv, NEW r \in Requests, Statements(r) PROVE Grown
<1> USE DEF Grown
<1>1. TablesOK BY DEF Inv, TypeOK, TablesOK
<1>2. CASE IssueReset(r)
  <2>1. PICK t : /\ t = Minted([x \in Resets |-> token[x]], "none")
                 /\ token' = [token EXCEPT ![t] = "open"] /\ UNCHANGED <<account, session>>
                 /\ Fresh(token, "none") \cap Resets # {}
    BY <1>2 DEF IssueReset
  <2>2. t \in Resets /\ token[t] = "none" BY <1>1, <2>1, Minting DEF Tokens
  <2> QED BY <1>1, <2>1, <2>2 DEF TablesOK, Tokens
<1>3. CASE MintProof(r)
  <2>1. PICK t : /\ t = Minted([x \in Proofs |-> token[x]], "none")
                 /\ token' = [token EXCEPT ![t] = "open"] /\ UNCHANGED <<account, session>>
                 /\ Fresh(token, "none") \cap Proofs # {}
    BY <1>3 DEF MintProof
  <2>2. t \in Proofs /\ token[t] = "none" BY <1>1, <2>1, Minting DEF Tokens
  <2> QED BY <1>1, <2>1, <2>2 DEF TablesOK, Tokens
<1>4. CASE InsertSession(r)
  <2>1. CASE UNCHANGED session BY <1>4, <2>1, Constant DEF InsertSession
  <2>2. CASE session' # session
    <3>1. PICK s : /\ s \in Fresh(session, NoSessionRow)
                   /\ session' = [session EXCEPT ![s].state = "open"] /\ UNCHANGED <<account, token>>
      BY <1>4, <2>2, FreshRow DEF InsertSession
    <3> QED BY <1>1, <3>1 DEF Fresh, NoSessionRow, TablesOK, Session
  <2> QED BY <2>1, <2>2
<1>5. CASE Pend(r) \/ Revoke(r) \/ RevokeOthers(r) \/ Sweep(r) \/ Unpend(r)
  <2>1. UNCHANGED <<account, token>> BY <1>5 DEF Pend, Revoke, RevokeOthers, Sweep, Unpend
  <2>2. CASE UNCHANGED session BY <2>1, <2>2, Constant
  <2>3. CASE \E S \in SUBSET {s \in SessionIds : Usable(s)}, state \in {"open", "pending", "revoked"} :
                SetSessions(S, state)
    <3>1. PICK S \in SUBSET {s \in SessionIds : Usable(s)}, state \in {"open", "pending", "revoked"} :
             SetSessions(S, state)
      BY <2>3
    <3>2. \A s \in SessionIds : session'[s].state = IF s \in S THEN state ELSE session[s].state
      BY <3>1, SetSessionsOK
    <3> QED BY <2>1, <3>1, <3>2 DEF Usable
  <2>4. (UNCHANGED session)
        \/ \E S \in SUBSET {s \in SessionIds : Usable(s)}, state \in {"open", "pending", "revoked"} :
              SetSessions(S, state)
    <3>1. CASE Pend(r)
      <4>1. {call[r].s} \cap {s \in SessionIds : Usable(s)} \in SUBSET {s \in SessionIds : Usable(s)}
        OBVIOUS
      <4> QED BY <3>1, <4>1 DEF Pend
    <3>2. CASE Revoke(r)
      <4>1. {call[r].s} \cap {s \in SessionIds : Usable(s)} \in SUBSET {s \in SessionIds : Usable(s)}
        OBVIOUS
      <4> QED BY <3>2, <4>1 DEF Revoke
    <3>3. CASE RevokeOthers(r)
      <4>1. {s \in SessionIds \ {call[r].s} : Usable(s)} \in SUBSET {s \in SessionIds : Usable(s)}
        OBVIOUS
      <4> QED BY <3>3, <4>1 DEF RevokeOthers
    <3>4. CASE Sweep(r)
      <4>1. {s \in SessionIds : Usable(s)} \in SUBSET {s \in SessionIds : Usable(s)}
        OBVIOUS
      <4> QED BY <3>4, <4>1 DEF Sweep
    <3>5. CASE Unpend(r)
      <4>1. {call[r].s} \cap {s \in SessionIds : Usable(s)} \in SUBSET {s \in SessionIds : Usable(s)}
        OBVIOUS
      <4> QED BY <3>5, <4>1 DEF Unpend
    <3> QED BY <1>5, <3>1, <3>2, <3>3, <3>4, <3>5
  <2> QED BY <2>2, <2>3, <2>4
<1>6. CASE SpendReset(r) BY <1>1, <1>6 DEF SpendReset, TablesOK
<1>7. CASE ClearProofs(r) BY <1>1, <1>7 DEF ClearProofs, TablesOK
<1>8. CASE MarkVerified(r) BY <1>1, <1>8 DEF MarkVerified, TablesOK, Account
<1>9. ReadUser(r) \/ Match(r) \/ Second(r) \/ OnLogin(r) \/ Reload(r) \/ CheckActive(r)
        \/ ReadCredential(r) \/ LookUp(r) \/ CheckOwner(r) \/ ListFactors(r) \/ CheckTOTP(r)
        \/ Leave(r) => Grown
  BY Constant DEF tables, ReadUser, Match, Second, OnLogin, Reload, CheckActive, ReadCredential,
     LookUp, CheckOwner, ListFactors, CheckTOTP, Leave
<1>10. CreateCredential(r) \/ UpdateHash(r) \/ RemovePassword(r) \/ RemoveFactors(r)
         \/ InsertFactor(r) \/ WipeCodes(r) \/ InsertCode(r) \/ DeleteFactor(r)
         \/ ConfirmFactor(r) \/ Recover(r) => Grown
  BY Constant DEF CreateCredential, UpdateHash, RemovePassword, RemoveFactors, InsertFactor,
     WipeCodes, InsertCode, DeleteFactor, ConfirmFactor, Recover
<1> QED BY <1>2, <1>3, <1>4, <1>5, <1>6, <1>7, <1>8, <1>9, <1>10 DEF Statements

\* What arrives has read nothing but what its row said at that moment.
LEMMA ArriveIs ==
    ASSUME Inv, NEW r \in Requests, NEW op, NEW c \in Call, Arrive(r, op, c), c.at # "refused"
    PROVE  /\ UNCHANGED <<tables, held>> /\ call[r].at = "idle"
           /\ \A q \in Requests \ {r} : call'[q] = call[q]
           /\ call'[r].at = c.at /\ call'[r].op = op
           /\ call'[r].given = c.given /\ call'[r].s = c.s /\ call'[r].factor = c.factor
           /\ call'[r].codes = c.codes
<1> DEFINE d == [c EXCEPT !.op = op]
<1>1. /\ d.at = c.at /\ d.op = op /\ d.given = c.given /\ d.s = c.s /\ d.factor = c.factor
      /\ d.codes = c.codes
  BY DEF Call
<1>2. Become(r, d) BY DEF Arrive
<1> HIDE DEF d
<1> QED BY <1>1, <1>2, BecomeIs DEF Arrive

LEMMA MayLogInOK == Inv => MayLogIn \in BOOLEAN /\ account.verified \in BOOLEAN
BY DEF MayLogIn, Inv, TypeOK, Account

Arrived(r) ==
    /\ UNCHANGED <<tables, held>> /\ call[r].at = "idle"
    /\ \A q \in Requests \ {r} : call'[q] = call[q]
    /\ call'[r].at \notin {"ok", "create", "update", "others", "second", "unpend", "hook", "confirm",
                           "wipe", "code"}
    /\ call'[r].codes = {} /\ (call'[r].given \in Codes => call'[r].given \in held)
    /\ call'[r].at = "totp" => call'[r].factor \in Factors
    /\ call'[r].op \notin {"challenge", "complete"} => call'[r].given \notin Codes
    /\ call'[r].op = "reset" => call'[r].given \in Resets /\ token[call'[r].given] = "open"
    /\ call'[r].op = "verify" => call'[r].given \in Proofs /\ token[call'[r].given] = "open"
    /\ call'[r].op = "set" => call'[r].at = "reload"
    /\ call'[r].op \in {"login", "hostLogin"} => call'[r].at \in {"match", "reread"}
    /\ call'[r].op = "takeOver" => call'[r].at = "sweep"
    /\ call'[r].op \in {"challenge", "complete"} => call'[r].s \in held \cap SessionIds

LEMMA GivenIsNoCode ==
    /\ Nil \notin Codes /\ \A x \in Secrets : x \notin Codes
    /\ \A t \in Tokens : t \notin Codes /\ \A f \in Factors : f \notin Codes
    /\ Resets \subseteq Tokens /\ Proofs \subseteq Tokens
BY CredentialAssumption DEF Handed, Tokens

LEMMA CallsArrive == ASSUME Inv, NEW r \in Requests, Calls(r) PROVE Arrived(r)
<1>1. ASSUME NEW x \in Secrets, LogIn(r, x) PROVE Arrived(r)
  <2> DEFINE c == [Idle EXCEPT !.at = "match", !.given = x, !.admits = MayLogIn]
  <2>1. c \in Call BY IdleOK, MayLogInOK DEF Call, Points
  <2>2. c.at = "match" /\ c.given = x /\ c.codes = {} BY DEF Idle
  <2>3. Arrive(r, "login", c) BY <1>1 DEF LogIn
  <2> HIDE DEF c
  <2> QED BY <1>1, <2>1, <2>2, <2>3, ArriveIs, GivenIsNoCode DEF Arrived, LogIn
<1>2. ASSUME NEW x \in Secrets, HostLogIn(r, x) PROVE Arrived(r)
  <2> DEFINE c == [Idle EXCEPT !.at = "reread", !.given = x]
  <2>1. c \in Call BY IdleOK DEF Call, Points
  <2>2. c.at = "reread" /\ c.given = x /\ c.codes = {} BY DEF Idle
  <2>3. Arrive(r, "hostLogin", c) BY <1>2 DEF HostLogIn
  <2> HIDE DEF c
  <2> QED BY <1>2, <2>1, <2>2, <2>3, ArriveIs, GivenIsNoCode DEF Arrived, HostLogIn
<1>3. ASSUME NEW s \in SessionIds, NEW x \in Secrets \cup {Nil}, NEW y \in Secrets, SetPassword(r, s, x, y) PROVE Arrived(r)
  <2> DEFINE c == [Idle EXCEPT !.at = "reload", !.s = s, !.given = x, !.new = y]
  <2>1. c \in Call BY IdleOK DEF Call, Points
  <2>2. c.at = "reload" /\ c.given = x /\ c.s = s /\ c.codes = {} BY DEF Idle
  <2>3. Arrive(r, "set", c) BY <1>3 DEF SetPassword
  <2> HIDE DEF c
  <2> QED BY <1>3, <2>1, <2>2, <2>3, ArriveIs, GivenIsNoCode DEF Arrived, SetPassword
<1>4. ASSUME NEW t \in Resets, NEW x \in Secrets, ResetPassword(r, t, x) PROVE Arrived(r)
  <2> DEFINE c == [Idle EXCEPT !.at = "read", !.given = t, !.new = x]
  <2>1. c \in Call BY IdleOK DEF Call, Points, Tokens
  <2>2. c.at = "read" /\ c.given = t /\ c.codes = {} BY DEF Idle
  <2>3. Arrive(r, "reset", c) BY <1>4 DEF ResetPassword
  <2> HIDE DEF c
  <2> QED BY <1>4, <2>1, <2>2, <2>3, ArriveIs, GivenIsNoCode DEF Arrived, ResetPassword
<1>5. ASSUME NEW t \in Proofs, VerifyEmail(r, t) PROVE Arrived(r)
  <2> DEFINE c == [Idle EXCEPT !.at = "mark", !.given = t]
  <2>1. c \in Call BY IdleOK DEF Call, Points, Tokens
  <2>2. c.at = "mark" /\ c.given = t /\ c.codes = {} BY DEF Idle
  <2>3. Arrive(r, "verify", c) BY <1>5 DEF VerifyEmail
  <2> HIDE DEF c
  <2> QED BY <1>5, <2>1, <2>2, <2>3, ArriveIs, GivenIsNoCode DEF Arrived, VerifyEmail
<1>6. ASSUME AskReset(r) PROVE Arrived(r)
  <2> DEFINE c == [Idle EXCEPT !.at = "lookup", !.admits = account.verified]
  <2>1. c \in Call BY IdleOK, MayLogInOK DEF Call, Points
  <2>2. c.at = "lookup" /\ c.given = Nil /\ c.codes = {} BY DEF Idle
  <2>3. Arrive(r, "ask", c) BY <1>6 DEF AskReset
  <2> HIDE DEF c
  <2> QED BY <1>6, <2>1, <2>2, <2>3, ArriveIs, GivenIsNoCode DEF Arrived, AskReset
<1>7. ASSUME Resend(r) PROVE Arrived(r)
  <2> DEFINE c == [Idle EXCEPT !.at = "clear"]
  <2>1. c \in Call BY IdleOK DEF Call, Points
  <2>2. c.at = "clear" /\ c.given = Nil /\ c.codes = {} BY DEF Idle
  <2>3. Arrive(r, "resend", c) BY <1>7 DEF Resend
  <2> HIDE DEF c
  <2> QED BY <1>7, <2>1, <2>2, <2>3, ArriveIs, GivenIsNoCode DEF Arrived, Resend
<1>8. ASSUME TakeOver(r) PROVE Arrived(r)
  <2> DEFINE c == [Idle EXCEPT !.at = "sweep"]
  <2>1. c \in Call BY IdleOK DEF Call, Points
  <2>2. c.at = "sweep" /\ c.given = Nil /\ c.codes = {} BY DEF Idle
  <2>3. Arrive(r, "takeOver", c) BY <1>8 DEF TakeOver
  <2> HIDE DEF c
  <2> QED BY <1>8, <2>1, <2>2, <2>3, ArriveIs, GivenIsNoCode DEF Arrived, TakeOver
<1>9. ASSUME HostEnrol(r) PROVE Arrived(r)
  <2> DEFINE c == [Idle EXCEPT !.at = "factor"]
  <2>1. c \in Call BY IdleOK DEF Call, Points
  <2>2. c.at = "factor" /\ c.given = Nil /\ c.codes = {} BY DEF Idle
  <2>3. Arrive(r, "hostEnrol", c) BY <1>9 DEF HostEnrol
  <2> HIDE DEF c
  <2> QED BY <1>9, <2>1, <2>2, <2>3, ArriveIs, GivenIsNoCode DEF Arrived, HostEnrol
<1>10. ASSUME NEW s \in SessionIds, Enrol(r, s) PROVE Arrived(r)
  <2> DEFINE c == [Idle EXCEPT !.at = "factor", !.s = s]
  <2>1. c \in Call BY IdleOK DEF Call, Points
  <2>2. c.at = "factor" /\ c.given = Nil /\ c.s = s /\ c.codes = {} BY DEF Idle
  <2>3. Arrive(r, "enrol", c) BY <1>10 DEF Enrol
  <2> HIDE DEF c
  <2> QED BY <1>10, <2>1, <2>2, <2>3, ArriveIs, GivenIsNoCode DEF Arrived, Enrol
<1>11. ASSUME NEW s \in SessionIds, NEW f \in Factors, Confirm(r, s, f) PROVE Arrived(r)
  <2> DEFINE c == [Idle EXCEPT !.at = "totp", !.s = s, !.factor = f, !.given = f]
  <2>1. c \in Call BY IdleOK DEF Call, Points
  <2>2. c.at = "totp" /\ c.factor = f /\ c.given = f /\ c.s = s /\ c.codes = {} BY DEF Idle
  <2>3. Arrive(r, "confirm", c) BY <1>11 DEF Confirm
  <2> HIDE DEF c
  <2>4. f \notin Codes BY CredentialAssumption
  <2> QED BY <2>1, <2>2, <2>3, <2>4, ArriveIs DEF Arrived
<1>12. ASSUME NEW s \in SessionIds, NEW f \in Factors, Drop(r, s, f) PROVE Arrived(r)
  <2> DEFINE c == [Idle EXCEPT !.at = "drop", !.s = s, !.factor = f]
  <2>1. c \in Call BY IdleOK DEF Call, Points
  <2>2. c.at = "drop" /\ c.given = Nil /\ c.s = s /\ c.codes = {} BY DEF Idle
  <2>3. Arrive(r, "drop", c) BY <1>12 DEF Drop
  <2> HIDE DEF c
  <2> QED BY <1>12, <2>1, <2>2, <2>3, ArriveIs, GivenIsNoCode DEF Arrived, Drop
<1>13. ASSUME NEW s \in SessionIds, NEW code \in Factors \cup Codes \cup {Nil}, CompleteMFA(r, s, code) PROVE Arrived(r)
  <2> DEFINE c == [Idle EXCEPT !.at = "list", !.s = s, !.given = code]
  <2>1. c \in Call BY IdleOK DEF Call, Points
  <2>2. c.at = "list" /\ c.given = code /\ c.s = s /\ c.codes = {} BY DEF Idle
  <2>3. Arrive(r, "complete", c) BY <1>13 DEF CompleteMFA
  <2> HIDE DEF c
  <2> QED BY <1>13, <2>1, <2>2, <2>3, ArriveIs, GivenIsNoCode DEF Arrived, CompleteMFA
<1>14. ASSUME NEW s \in SessionIds, NEW code \in Factors \cup Codes \cup {Nil}, NEW f \in Factors \cup {Nil},
              Challenge(r, s, f, code)
       PROVE  Arrived(r)
  <2>1. PICK point \in {"list", "totp"} :
           /\ Arrive(r, "challenge", [Idle EXCEPT !.at = point, !.s = s, !.factor = f, !.given = code])
           /\ point = "totp" => f # Nil
    BY <1>14 DEF Challenge
  <2> DEFINE c == [Idle EXCEPT !.at = point, !.s = s, !.factor = f, !.given = code]
  <2>2. c \in Call BY IdleOK DEF Call, Points
  <2>3. c.at = point /\ c.factor = f /\ c.given = code /\ c.s = s /\ c.codes = {} BY DEF Idle
  <2>4. Arrive(r, "challenge", c) BY <2>1
  <2>5. s \in held /\ code \in held \cup {Nil} BY <1>14 DEF Challenge, Gate
  <2> HIDE DEF c
  <2>6. point = "totp" => f \in Factors BY <2>1
  <2> QED BY <2>2, <2>3, <2>4, <2>5, <2>6, ArriveIs, GivenIsNoCode DEF Arrived
<1> QED BY <1>1, <1>2, <1>3, <1>4, <1>5, <1>6, <1>7, <1>8, <1>9, <1>10, <1>11, <1>12, <1>13, <1>14 DEF Calls

-----------------------------------------------------------------------------
\* What History records of a handler.
LEMMA GatherIs ==
    ASSUME History, NEW r \in Requests
    PROVE  /\ call'[r].at \in {"idle", "refused"} => since'[r] = NoSince
           /\ call'[r].at \notin {"idle", "refused"} =>
                 /\ since'[r].rows = IF call'[r].op = "set" THEN since[r].rows \cup {credential'} ELSE {}
                 /\ call'[r].op \in {"reset", "verify"} =>
                       since'[r].spent = IF call[r].at = "idle" THEN spent ELSE since[r].spent
                 /\ since'[r].others = IF call'[r].at = "others" /\ call[r].at # "others"
                                       THEN {s \in SessionIds \ {call'[r].s} : Usable(s)}
                                       ELSE since[r].others
                 /\ call'[r].op \in {"login", "hostLogin"} =>
                       since'[r].factors = IF call[r].at = "idle" THEN Verified
                                           ELSE since[r].factors \cap Verified'
<1>1. since'[r] = Gather(r) BY DEF History
<1> QED BY <1>1 DEF Gather

LEMMA NothingYet == NoSince.others = {} /\ NoSince.rows = {} /\ NoSince.spent = {}
BY DEF NoSince

\* A handler that does not move keeps its facts while the tables grow.
LEMMA Bystander ==
    ASSUME Safe, Grown, History, NEW r \in Requests, call'[r] = call[r]
    PROVE  Rested(r)' /\ TokenFacts(r)' /\ PasswordFacts(r)' /\ OthersFacts(r)'
<1>1. AtHome(call[r]) /\ Knows(call[r]) /\ call[r] \in Call /\ since[r] \in Since
  BY DEF Safe, Inv, TypeOK, FlowOK, Flow
<1>2. Rested(r)' BY GatherIs DEF Rested
<1>3. TokenFacts(r)'
  <2> SUFFICES ASSUME call[r].op \in {"reset", "verify"}, call[r].at # "refused"
               PROVE  /\ token'[call[r].given] # "none" /\ call[r].given \notin since'[r].spent
                      /\ call[r].at = "ok" => token'[call[r].given] = "gone"
    BY DEF TokenFacts
  <2>1. call[r].at # "idle" /\ call[r].given \in Tokens BY <1>1 DEF AtHome, Knows, Tokens
  <2>2. since'[r].spent = since[r].spent BY <2>1, GatherIs
  <2>3. TokenFacts(r) BY DEF Safe
  <2> QED BY <2>1, <2>2, <2>3 DEF TokenFacts, Grown
<1>4. PasswordFacts(r)'
  <2>1. PasswordFacts(r) BY DEF Safe
  <2>2. call[r].op = "set" /\ call[r].at = "update" => since[r].rows \subseteq since'[r].rows
    BY GatherIs
  <2> QED BY <2>1, <2>2 DEF PasswordFacts, Grown
<1>5. OthersFacts(r)'
  <2>1. OthersFacts(r) BY DEF Safe
  <2>2. CASE call[r].at \in {"idle", "refused"}
    <3>1. since'[r].others = {} BY <2>2, GatherIs, NothingYet
    <3>2. call'[r].at # "ok" BY <2>2
    <3> QED BY <3>1, <3>2 DEF OthersFacts
  <2>3. CASE call[r].at \notin {"idle", "refused"}
    <3>1. since'[r].others = since[r].others BY <2>3, GatherIs
    <3> QED BY <2>1, <3>1 DEF OthersFacts, Grown
  <2> QED BY <2>2, <2>3
<1> QED BY <1>2, <1>3, <1>4, <1>5

LEMMA ArrivedFacts ==
    ASSUME Safe, History, NEW r \in Requests, Arrived(r), Inv'
    PROVE  Rested(r)' /\ TokenFacts(r)' /\ PasswordFacts(r)' /\ OthersFacts(r)'
<1>1. AtHome(call'[r]) /\ Knows(call'[r]) BY DEF Inv, FlowOK, Flow
<1>2. Rested(r)' BY GatherIs DEF Rested
<1>3. TokenFacts(r)'
  <2> SUFFICES ASSUME call'[r].op \in {"reset", "verify"}, call'[r].at # "refused"
               PROVE  /\ token'[call'[r].given] # "none" /\ call'[r].given \notin since'[r].spent
                      /\ call'[r].at = "ok" => token'[call'[r].given] = "gone"
    BY DEF TokenFacts
  <2>1. call'[r].at \notin {"idle", "ok"} /\ call[r].at = "idle" /\ token[call'[r].given] = "open"
        /\ token' = token
    BY <1>1 DEF AtHome, Arrived, tables
  <2>2. since'[r].spent = spent BY <2>1, GatherIs
  <2> QED BY <2>1, <2>2 DEF Safe, SpentGone
<1>4. PasswordFacts(r)'
  <2>1. call'[r].at \notin {"create", "update"} /\ (call'[r].op = "set" => call'[r].at = "reload")
    BY DEF Arrived
  <2> QED BY <2>1 DEF PasswordFacts
<1>5. OthersFacts(r)'
  <2> SUFFICES ASSUME call'[r].op = "set" PROVE OthersFacts(r)' BY DEF OthersFacts
  <2>1. call'[r].at = "reload" /\ since[r] = NoSince BY DEF Arrived, Safe, Rested
  <2>2. since'[r].others = {} BY <2>1, GatherIs, NothingYet
  <2> QED BY <2>1, <2>2 DEF OthersFacts
<1> QED BY <1>2, <1>3, <1>4, <1>5

-----------------------------------------------------------------------------
\* A handler keeps its operation and, beside the ids it mints, its arguments.
Keeps(r) ==
    /\ call'[r].op = call[r].op /\ call'[r].at # "idle"
    /\ \A q \in Requests \ {r} : call'[q] = call[q]
    /\ call'[r].at # "refused" =>
          /\ call'[r].s = call[r].s \/ InsertSession(r)
          /\ call'[r].given = call[r].given \/ IssueReset(r) \/ MintProof(r)
          /\ call'[r].codes = call[r].codes \/ InsertCode(r)
    /\ call'[r].at = "refused" => call'[r].given = Nil /\ call'[r].codes = {}

LEMMA BecomeKeeps ==
    ASSUME Inv, NEW r \in Requests, NEW d \in Call, Become(r, d), d.op = call[r].op,
           d.at # "idle",
           d.s = call[r].s \/ InsertSession(r),
           d.given = call[r].given \/ IssueReset(r) \/ MintProof(r),
           d.codes = call[r].codes \/ InsertCode(r)
    PROVE  Keeps(r)
<1>1. CASE d.at = "refused"
  <2>1. call'[r] = [Idle EXCEPT !.at = "refused", !.op = d.op] BY <1>1, BecomeIs
  <2>2. call'[r].at = "refused" /\ call'[r].op = d.op /\ call'[r].given = Nil /\ call'[r].codes = {}
    BY <2>1 DEF Idle
  <2> QED BY <2>2, BecomeIs DEF Keeps
<1>2. CASE d.at # "refused" BY <1>2, BecomeIs DEF Keeps
<1> QED BY <1>1, <1>2

LEMMA GotoKeeps ==
    ASSUME Inv, NEW r \in Requests, NEW point \in Points \ {"idle"}, Goto(r, point)
    PROVE  Keeps(r)
<1> DEFINE d == [call[r] EXCEPT !.at = point]
<1>1. call[r] \in Call BY DEF Inv, TypeOK
<1>2. d \in Call BY <1>1 DEF Call
<1>3. /\ d.at = point /\ d.op = call[r].op /\ d.s = call[r].s /\ d.given = call[r].given
      /\ d.codes = call[r].codes
  BY <1>1 DEF Call
<1>4. Become(r, d) BY DEF Goto
<1> HIDE DEF d
<1> QED BY <1>2, <1>3, <1>4, BecomeKeeps

LEMMA StatementKeeps ==
    ASSUME Inv, NEW r \in Requests, Statements(r), ~Leave(r)
    PROVE  Keeps(r)
<1> DEFINE c == call[r]
<1>1. c \in Call /\ TablesOK BY DEF Inv, TypeOK, TablesOK
<1>2. CASE Match(r) \/ Second(r) \/ Pend(r) \/ OnLogin(r) \/ Revoke(r) \/ Reload(r)
             \/ CreateCredential(r) \/ UpdateHash(r) \/ RevokeOthers(r) \/ LookUp(r)
             \/ CheckOwner(r) \/ SpendReset(r) \/ ClearProofs(r) \/ MarkVerified(r)
  <2>1. \E point \in Points \ {"idle"} : Goto(r, point)
    BY <1>2 DEF Match, Second, Pend, OnLogin, Revoke, Reload, CreateCredential, UpdateHash,
       RevokeOthers, LookUp, CheckOwner, SpendReset, ClearProofs, MarkVerified, Points
  <2> QED BY <2>1, GotoKeeps
<1>3. CASE Sweep(r) \/ RemovePassword(r) \/ RemoveFactors(r) \/ WipeCodes(r) \/ DeleteFactor(r)
             \/ ListFactors(r) \/ CheckTOTP(r) \/ ConfirmFactor(r) \/ Recover(r) \/ Unpend(r)
  <2>1. \E point \in Points \ {"idle"} : Goto(r, point)
    BY <1>3 DEF Sweep, RemovePassword, RemoveFactors, WipeCodes, DeleteFactor, ListFactors,
       CheckTOTP, ConfirmFactor, Recover, Unpend, Points
  <2> QED BY <2>1, GotoKeeps
<1>4. CASE ReadUser(r)
  <2> DEFINE d == [c EXCEPT !.at = "match", !.admits = MayLogIn]
  <2>1. d.at # "idle" /\ d.op = c.op /\ d.s = c.s /\ d.given = c.given /\ d.codes = c.codes BY <1>1 DEF Call
  <2>3. d \in Call BY <1>1, MayLogInOK DEF Call, Points
  <2>2. Become(r, d) BY <1>4 DEF ReadUser
  <2> HIDE DEF d
  <2> QED BY <2>1, <2>2, <2>3, BecomeKeeps
<1>5. CASE CheckActive(r)
  <2> DEFINE d == [c EXCEPT !.admits = account.verified,
                            !.at = IF account.status = "active" THEN "read" ELSE "refused"]
  <2>1. d.at \in {"read", "refused"} /\ d.at # "idle" /\ d.op = c.op /\ d.s = c.s /\ d.given = c.given /\ d.codes = c.codes BY <1>1 DEF Call
  <2>3. d \in Call
    <3>1. (IF account.status = "active" THEN "read" ELSE "refused") \in Points BY DEF Points
    <3> QED BY <1>1, <3>1, MayLogInOK DEF Call
  <2>2. Become(r, d) BY <1>5 DEF CheckActive
  <2> HIDE DEF d
  <2> QED BY <2>1, <2>2, <2>3, BecomeKeeps
<1>6. CASE ReadCredential(r)
  <2>1. PICK point \in {"update", "owner", "create", "refused"} :
           Become(r, [c EXCEPT !.row = credential.row, !.at = point])
    BY <1>6 DEF ReadCredential
  <2> DEFINE d == [c EXCEPT !.row = credential.row, !.at = point]
  <2>2. d.at # "idle" /\ d.op = c.op /\ d.s = c.s /\ d.given = c.given /\ d.codes = c.codes BY <1>1 DEF Call
  <2>3. d \in Call BY <1>1 DEF Call, Points, TablesOK, Credential
  <2> HIDE DEF d
  <2> QED BY <2>1, <2>2, <2>3, BecomeKeeps DEF d
<1>7. CASE InsertSession(r)
  <2>1. CASE Goto(r, "refused") BY <2>1, GotoKeeps DEF Points
  <2>2. CASE ~Goto(r, "refused")
    <3>1. PICK s \in SessionIds : Become(r, [c EXCEPT !.at = "second", !.s = s])
      BY <1>1, <1>7, <2>2, FreshRow DEF InsertSession, Fresh, TablesOK
    <3> DEFINE d == [c EXCEPT !.at = "second", !.s = s]
    <3>2. d.at # "idle" /\ d.op = c.op /\ d.given = c.given /\ d.codes = c.codes BY <1>1 DEF Call
    <3>3. d \in Call BY <1>1 DEF Call, Points
    <3> HIDE DEF d
    <3> QED BY <1>7, <3>1, <3>2, <3>3, BecomeKeeps DEF d
  <2> QED BY <2>1, <2>2
<1>8. CASE IssueReset(r) \/ MintProof(r)
  <2>1. PICK t \in Tokens : Become(r, [c EXCEPT !.at = "ok", !.given = t])
    <3>1. Resets \in SUBSET Tokens /\ Proofs \in SUBSET Tokens BY DEF Tokens
    <3> QED BY <1>1, <1>8, <3>1, Minting DEF IssueReset, MintProof
  <2> DEFINE d == [c EXCEPT !.at = "ok", !.given = t]
  <2>2. d.at # "idle" /\ d.op = c.op /\ d.s = c.s /\ d.codes = c.codes BY <1>1 DEF Call
  <2>3. d \in Call BY <1>1 DEF Call, Points
  <2> HIDE DEF d
  <2> QED BY <1>8, <2>1, <2>2, <2>3, BecomeKeeps DEF d
<1>9. CASE InsertFactor(r)
  <2>1. PICK f \in Factors : Become(r, [c EXCEPT !.at = "wipe", !.factor = f])
    BY <1>1, <1>9, FreshRow DEF InsertFactor, Fresh, TablesOK
  <2> DEFINE d == [c EXCEPT !.at = "wipe", !.factor = f]
  <2>2. d.at # "idle" /\ d.op = c.op /\ d.s = c.s /\ d.given = c.given /\ d.codes = c.codes BY <1>1 DEF Call
  <2>3. d \in Call BY <1>1 DEF Call, Points
  <2> HIDE DEF d
  <2> QED BY <2>1, <2>2, <2>3, BecomeKeeps DEF d
<1>10. CASE InsertCode(r)
  <2>1. PICK point \in {"ok", "refused", "code"}, codes \in SUBSET Codes :
           Become(r, [c EXCEPT !.codes = codes, !.at = point])
    <3>1. CASE Become(r, [c EXCEPT !.codes = {}, !.at = IF c.op = "enrol" THEN "ok" ELSE "refused"])
      BY <3>1
    <3>2. CASE \E k \in Codes : Become(r, [c EXCEPT !.codes = @ \cup {k},
                 !.at = IF Cardinality(c.codes) + 1 = CodesPerSet THEN "ok" ELSE "code"])
      <4>1. PICK k \in Codes : Become(r, [c EXCEPT !.codes = c.codes \cup {k},
                 !.at = IF Cardinality(c.codes) + 1 = CodesPerSet THEN "ok" ELSE "code"])
        BY <1>1, <3>2
      <4>2. c.codes \cup {k} \in SUBSET Codes BY <1>1 DEF Call
      <4> QED BY <4>1, <4>2
    <3>3. Fresh(recovery, "none") # {} => Minted(recovery, "none") \in Codes
      BY <1>1, FreshRow DEF Fresh, TablesOK
    <3> QED BY <1>10, <3>1, <3>2, <3>3 DEF InsertCode
  <2> DEFINE d == [c EXCEPT !.codes = codes, !.at = point]
  <2>2. d.at # "idle" /\ d.op = c.op /\ d.s = c.s /\ d.given = c.given BY <1>1 DEF Call
  <2>3. d \in Call BY <1>1 DEF Call, Points
  <2> HIDE DEF d
  <2> QED BY <1>10, <2>1, <2>2, <2>3, BecomeKeeps DEF d
<1> QED BY <1>2, <1>3, <1>4, <1>5, <1>6, <1>7, <1>8, <1>9, <1>10 DEF Statements

LEMMA LeaveIs ==
    ASSUME Inv, NEW r \in Requests, Leave(r)
    PROVE  /\ call'[r] = Idle /\ UNCHANGED tables
           /\ \A q \in Requests \ {r} : call'[q] = call[q]
BY IdleOK, BecomeIs DEF Leave

\* A statement of a reset or a verification.
LEMMA TokenStep ==
    ASSUME Safe, Grown, History, NEW r \in Requests, Statements(r)
    PROVE  TokenFacts(r)'
<1> DEFINE c == call[r]
<1>1. Inv /\ TokenFacts(r) /\ c \in Call /\ AtHome(c) /\ Knows(c) /\ TablesOK
  BY DEF Safe, Inv, TypeOK, FlowOK, Flow, TablesOK
<1> SUFFICES ASSUME call'[r].op \in {"reset", "verify"}, call'[r].at # "refused"
             PROVE  /\ token'[call'[r].given] # "none" /\ call'[r].given \notin since'[r].spent
                    /\ call'[r].at = "ok" => token'[call'[r].given] = "gone"
  BY DEF TokenFacts
<1>2. ~Leave(r) BY <1>1, LeaveIs, IdleOK
<1>3. c.op = call'[r].op /\ call'[r].at # "idle" BY <1>1, <1>2, StatementKeeps DEF Keeps
<1>4. c.at \notin {"idle", "refused"} BY <1>1, <1>2, <1>3, Steps, Where
<1>5. c.given = call'[r].given /\ c.given \in Tokens
  <2>1. ~IssueReset(r) /\ ~MintProof(r) BY <1>1, <1>3, Where DEF AtHome
  <2>2. c.given = call'[r].given BY <1>1, <1>2, <2>1, StatementKeeps DEF Keeps
  <2>3. c.given \in Tokens BY <1>1, <1>3, <1>4 DEF Knows, Tokens
  <2> QED BY <2>2, <2>3
<1>6. token[c.given] # "none" /\ c.given \notin since[r].spent BY <1>1, <1>3, <1>4 DEF TokenFacts
<1>7. call'[r].at = "ok" => token'[c.given] = "gone"
  <2>1. CASE SpendReset(r)
    <3>1. CASE Goto(r, "refused") BY <1>1, <3>1, GotoAt
    <3>2. CASE token' = [token EXCEPT ![c.given] = "gone"] BY <1>1, <1>5, <3>2 DEF TablesOK
    <3> QED BY <2>1, <3>1, <3>2 DEF SpendReset
  <2>2. CASE ClearProofs(r)
    <3>1. c.given \in Proofs BY <1>1, <1>3, <2>2, Where DEF AtHome, Knows
    <3>2. token[c.given] \in {"open", "gone"} BY <1>1, <1>5, <1>6 DEF TablesOK
    <3> QED BY <1>5, <2>2, <3>1, <3>2 DEF ClearProofs
  <2>3. CASE \/ ReadCredential(r) \/ CheckOwner(r) \/ CreateCredential(r)
             \/ UpdateHash(r) \/ MarkVerified(r)
    BY <1>1, <2>3, Whither
  <2> QED BY <1>1, <1>2, <1>3, <2>1, <2>2, <2>3, Steps
<1>8. since'[r].spent = since[r].spent BY <1>3, <1>4, GatherIs
<1> QED BY <1>3, <1>5, <1>6, <1>7, <1>8 DEF Grown

\* A statement of a change of the password.
LEMMA OthersStep ==
    ASSUME Safe, Grown, History, NEW r \in Requests, Statements(r)
    PROVE  OthersFacts(r)'
<1> DEFINE c == call[r]
<1>1. Inv /\ OthersFacts(r) /\ c \in Call /\ AtHome(c) /\ since[r] \in Since /\ TablesOK
  BY DEF Safe, Inv, TypeOK, FlowOK, Flow, TablesOK
<1> SUFFICES ASSUME call'[r].op = "set" PROVE OthersFacts(r)' BY DEF OthersFacts
<1>2. CASE call'[r].at = "refused"
  <2>1. since'[r].others = {} BY <1>2, GatherIs, NothingYet
  <2> QED BY <2>1, <1>2 DEF OthersFacts
<1>3. CASE call'[r].at # "refused"
  <2>1. ~Leave(r) BY <1>1, LeaveIs, IdleOK
  <2>2. c.op = "set" /\ call'[r].at # "idle" BY <1>1, <2>1, StatementKeeps DEF Keeps
  <2>3. ~InsertSession(r) BY <1>1, <2>2, Where DEF AtHome
  <2>4. c.s = call'[r].s BY <1>1, <1>3, <2>1, <2>3, StatementKeeps DEF Keeps
  <2>5. CASE call'[r].at = "others" /\ c.at # "others"
    <3>1. since'[r].others = {s \in SessionIds \ {call'[r].s} : Usable(s)} BY <2>5, GatherIs
    <3>2. \A s \in since'[r].others : session'[s].state # "free" BY <3>1 DEF Grown, Usable
    <3> QED BY <2>5, <3>1, <3>2 DEF OthersFacts
  <2>6. CASE ~(call'[r].at = "others" /\ c.at # "others")
    <3>1. since'[r].others = since[r].others BY <1>3, <2>2, <2>6, GatherIs
    <3>2. /\ since[r].others \subseteq SessionIds \ {c.s}
          /\ \A s \in since[r].others : session[s].state # "free"
      BY <1>1, <2>2 DEF OthersFacts
    <3>3. \A s \in since[r].others : session'[s].state # "free" BY <3>2 DEF Grown
    <3>4. ASSUME call'[r].at = "ok" PROVE \A s \in since[r].others : session'[s].state = "revoked"
      <4>1. RevokeOthers(r) BY <1>1, <2>1, <2>2, <3>4, Steps, Whither
      <4>2. ~Goto(r, "refused") BY <1>1, <1>3, GotoAt
      <4>3. SetSessions({s \in SessionIds \ {c.s} : Usable(s)}, "revoked")
        BY <4>1, <4>2 DEF RevokeOthers
      <4>4. \A s \in SessionIds \ {c.s} : session'[s].state = IF Usable(s) THEN "revoked" ELSE session[s].state
        BY <1>1, <4>3, SetSessionsOK
      <4>5. \A s \in since[r].others : session[s].state \in {"open", "pending", "revoked"}
        BY <1>1, <3>2 DEF TablesOK, Session
      <4> QED BY <3>2, <4>4, <4>5 DEF Usable
    <3> QED BY <2>4, <3>1, <3>2, <3>3, <3>4 DEF OthersFacts
  <2> QED BY <2>5, <2>6
<1> QED BY <1>2, <1>3

\* A statement that leads to a write of the credential.
LEMMA PasswordStep ==
    ASSUME Safe, Grown, History, NEW r \in Requests, Statements(r), Inv'
    PROVE  PasswordFacts(r)'
<1> DEFINE c == call[r]
           d == call'[r]
<1>1. Inv /\ PasswordFacts(r) /\ c \in Call /\ AtHome(c) /\ TablesOK /\ RowZero
  BY DEF Safe, Inv, TypeOK, FlowOK, Flow, TablesOK
<1>2. AtHome(d) BY DEF Inv, FlowOK, Flow
<1> SUFFICES ASSUME d.at \in {"create", "update"} \/ (d.op = "set" /\ d.at = "read")
             PROVE  PasswordFacts(r)'
  BY DEF PasswordFacts
<1>3. d.op \in {"set", "reset"} BY <1>2 DEF AtHome
<1>4. ~Leave(r) BY <1>1, <1>3, LeaveIs, IdleOK
<1>5. c.op = d.op BY <1>1, <1>4, StatementKeeps DEF Keeps
<1>6. /\ d.at \in {"create", "update"} => ReadCredential(r) \/ CheckOwner(r)
      /\ d.at = "read" => CheckActive(r)
  BY <1>1, <1>3, <1>4, <1>5, Steps, Whither
<1>7. CASE CheckActive(r)
  <2>1. PICK point \in {"read", "refused"} :
           Become(r, [c EXCEPT !.admits = account.verified, !.at = point])
    BY <1>7 DEF CheckActive
  <2> DEFINE e == [c EXCEPT !.admits = account.verified, !.at = point]
  <2>2. e.at = point /\ e.admits = account.verified BY <1>1 DEF Call
  <2>3. Become(r, e) BY <2>1
  <2>4. account' = account BY <1>7 DEF CheckActive, tables
  <2>5. d.at = "read" BY <1>1, <1>7, Whither
  <2> HIDE DEF e
  <2>6. d = e BY <1>1, <2>2, <2>3, <2>5, BecomeIs, BecomeAt
  <2> QED BY <2>2, <2>4, <2>5, <2>6 DEF PasswordFacts
<1>8. CASE CheckOwner(r)
  <2>1. d.at = "create" /\ account' = account BY <1>1, <1>8, Whither DEF CheckOwner, tables
  <2>2. account.verified BY <1>1, <1>8, <2>1, GotoAt DEF CheckOwner
  <2> QED BY <2>1, <2>2 DEF PasswordFacts
<1>9. CASE ReadCredential(r)
  <2> DEFINE to == IF c.op = "reset" THEN IF HasPassword THEN "update" ELSE "owner"
                   ELSE IF HasPassword
                        THEN IF credential.secret = c.given THEN "update" ELSE "refused"
                        ELSE IF c.admits /\ session[c.s].fresh THEN "create" ELSE "refused"
             e == [c EXCEPT !.row = credential.row, !.at = to]
  <2>1. Become(r, e) /\ credential' = credential /\ account' = account /\ c.at = "read"
    BY <1>9 DEF ReadCredential, tables
  <2>2. e.at = to /\ e.row = credential.row /\ e.given = c.given BY <1>1 DEF Call
  <2> HIDE DEF e
  <2>3. d.at = to BY <1>1, <2>1, <2>2, BecomeAt
  <2>4. to # "refused" /\ to \in {"create", "update"} BY <1>1, <1>9, <2>3, Whither
  <2>5. d = e BY <1>1, <2>1, <2>2, <2>4, BecomeIs
  <2>6. CASE to = "create"
    <3>1. c.op = "set" /\ c.admits BY <1>3, <1>5, <2>6
    <3> QED BY <1>1, <2>1, <2>3, <2>6, <3>1 DEF PasswordFacts
  <2>7. CASE to = "update"
    <3>1. HasPassword BY <2>7
    <3>2. credential.row # 0 BY <1>1, <3>1 DEF RowZero, HasPassword
    <3>3. ASSUME d.op = "set" PROVE [row |-> d.row, secret |-> d.given] \in since'[r].rows
      <4>1. credential.secret = c.given BY <1>5, <2>7, <3>3
      <4>2. [row |-> d.row, secret |-> d.given] = credential BY <1>1, <2>2, <2>5, <4>1 DEF TablesOK, Credential
      <4>3. since'[r].rows = since[r].rows \cup {credential'} BY <2>3, <2>7, <3>3, GatherIs
      <4> QED BY <2>1, <4>2, <4>3
    <3> QED BY <2>2, <2>3, <2>5, <2>7, <3>2, <3>3 DEF PasswordFacts
  <2> QED BY <2>4, <2>6, <2>7
<1> QED BY <1>6, <1>7, <1>8, <1>9

\* How the credential is written.
LEMMA CredentialStep ==
    ASSUME Safe, NEW r \in Requests, Statements(r)
    PROVE  /\ RowZero'
           /\ credential' \notin {credential, NoCredential} =>
                \/ CreateCredential(r) /\ ~HasPassword
                \/ UpdateHash(r) /\ credential.row = call[r].row
<1>1. Inv /\ PasswordFacts(r) /\ TablesOK /\ RowZero BY DEF Safe, Inv, TypeOK, TablesOK
<1>2. CASE CreateCredential(r)
  <2>1. CASE UNCHANGED credential BY <1>1, <2>1 DEF RowZero, NoCredential
  <2>2. CASE ~HasPassword /\ lastRow' = lastRow + 1 /\ credential' = [row |-> lastRow', secret |-> call[r].new]
    BY <1>1, <1>2, <2>2 DEF RowZero, TablesOK
  <2> QED BY <1>2, <2>1, <2>2 DEF CreateCredential
<1>3. CASE UpdateHash(r)
  <2>1. call[r].row # 0 BY <1>1, <1>3, Where DEF PasswordFacts
  <2>2. CASE credential.row = call[r].row
    <3>1. credential'.row # 0 BY <1>1, <1>3, <2>1, <2>2 DEF UpdateHash, TablesOK, Credential
    <3> QED BY <1>3, <2>2, <3>1 DEF RowZero
  <2>3. CASE credential.row # call[r].row
    <3>1. credential' = credential BY <1>3, <2>3 DEF UpdateHash
    <3> QED BY <1>1, <3>1 DEF RowZero, NoCredential
  <2> QED BY <2>2, <2>3
<1>4. CASE RemovePassword(r) BY <1>4 DEF RemovePassword, RowZero, NoCredential
<1>5. CASE credential' = credential BY <1>1, <1>5 DEF RowZero, NoCredential
<1>6. \/ CreateCredential(r) \/ UpdateHash(r) \/ RemovePassword(r) \/ credential' = credential
  BY DEF Statements, tables, ReadUser, Match, InsertSession, Second, Pend, OnLogin, Revoke, Reload,
     CheckActive, ReadCredential, RevokeOthers, LookUp, IssueReset, CheckOwner, SpendReset,
     ClearProofs, MintProof, MarkVerified, Sweep, RemoveFactors, InsertFactor, WipeCodes,
     InsertCode, DeleteFactor, ListFactors, CheckTOTP, ConfirmFactor, Recover, Unpend, Leave
<1> QED BY <1>2, <1>3, <1>4, <1>5, <1>6

-----------------------------------------------------------------------------
Kept ==
    \A r \in Requests : Rested(r)' /\ TokenFacts(r)' /\ PasswordFacts(r)' /\ OthersFacts(r)'

LEMMA OthersGrow ==
    ASSUME Inv, Others
    PROVE  Grown /\ UNCHANGED <<credential, call>>
<1>1. TablesOK BY DEF Inv, TypeOK, TablesOK
<1>2. ASSUME NEW status, SetStatus(status) PROVE Grown /\ UNCHANGED <<credential, call>>
  BY <1>1, <1>2 DEF SetStatus, Grown, TablesOK, Account
<1>3. ASSUME NEW s \in SessionIds, Age(s) PROVE Grown /\ UNCHANGED <<credential, call>>
  BY <1>1, <1>3 DEF Age, Grown, TablesOK, Session
<1>4. ASSUME NEW t \in Tokens, Lapse(t) PROVE Grown /\ UNCHANGED <<credential, call>>
  BY <1>1, <1>4 DEF Lapse, Grown, TablesOK
<1> QED BY <1>2, <1>3, <1>4 DEF Others

LEMMA SafeNext == ASSUME Safe, [Next]_vars PROVE Safe'
<1>1. Inv /\ Inv' BY NextOK DEF Safe
<1>2. CASE UNCHANGED vars
  <2>1. UNCHANGED <<account, credential, token, session, call, spent, since>>
    BY <1>2 DEF vars, tables, history
  <2> QED BY <1>1, <2>1 DEF Safe, SpentGone, RowZero, Rested, TokenFacts, PasswordFacts, OthersFacts
<1>3. CASE Next
  <2>1. History BY <1>3 DEF Next
  <2>2. Kept /\ RowZero'
    <3>1. CASE Others
      <4>1. Grown /\ UNCHANGED <<credential, call>> BY <1>1, <3>1, OthersGrow
      <4>2. Kept BY <2>1, <4>1, Bystander DEF Kept
      <4> QED BY <4>1, <4>2 DEF Safe, RowZero, NoCredential
    <3>2. ASSUME NEW r \in Requests, Calls(r) PROVE Kept /\ RowZero'
      <4>1. Arrived(r) BY <1>1, <3>2, CallsArrive
      <4>2. UNCHANGED <<account, credential, token, session>>
            /\ \A q \in Requests \ {r} : call'[q] = call[q]
        BY <4>1 DEF Arrived, tables
      <4>3. Grown BY <4>2, Constant
      <4>4. Kept BY <1>1, <2>1, <4>1, <4>2, <4>3, Bystander, ArrivedFacts DEF Kept
      <4> QED BY <4>2, <4>4 DEF Safe, RowZero, NoCredential
    <3>3. ASSUME NEW r \in Requests, Statements(r) PROVE Kept /\ RowZero'
      <4>1. Grown BY <1>1, <3>3, StatementsGrow
      <4>2. \A q \in Requests \ {r} : call'[q] = call[q]
        BY <1>1, <3>3, LeaveIs, StatementKeeps DEF Keeps
      <4>3. Rested(r)' BY <2>1, GatherIs DEF Rested
      <4>4. TokenFacts(r)' /\ PasswordFacts(r)' /\ OthersFacts(r)'
        BY <1>1, <2>1, <3>3, <4>1, TokenStep, PasswordStep, OthersStep
      <4>5. Kept BY <2>1, <4>1, <4>2, <4>3, <4>4, Bystander DEF Kept
      <4> QED BY <3>3, <4>5, CredentialStep
    <3> QED BY <1>3, <3>1, <3>2, <3>3 DEF Next
  <2>3. SpentGone'
    <3>1. spent' = spent \cup {call'[r].given : r \in {q \in Requests :
                     call'[q].at = "ok" /\ call[q].at # "ok" /\ call'[q].op \in {"reset", "verify"}}}
      BY <2>1 DEF History
    <3>2. \A t \in spent : token'[t] = "gone"
      <4>1. Grown
        BY <1>1, <1>3, OthersGrow, CallsArrive, StatementsGrow, Constant DEF Next, Arrived, tables
      <4> QED BY <1>1, <4>1 DEF Safe, SpentGone, Inv, TypeOK, Grown
    <3>3. ASSUME NEW q \in Requests, call'[q].at = "ok", call'[q].op \in {"reset", "verify"}
          PROVE  token'[call'[q].given] = "gone"
      BY <2>2, <3>3 DEF Kept, TokenFacts
    <3> QED BY <3>1, <3>2, <3>3 DEF SpentGone
  <2> QED BY <1>1, <2>2, <2>3 DEF Safe, Kept
<1> QED BY <1>2, <1>3

LEMMA SafeInit == Init => Safe
<1> SUFFICES ASSUME Init PROVE Safe OBVIOUS
<1>1. Inv BY InitOK
<1>2. SpentGone BY DEF Init, SpentGone
<1>3. RowZero BY DEF Init, RowZero, NoCredential
<1>4. ASSUME NEW r \in Requests
      PROVE  Rested(r) /\ TokenFacts(r) /\ PasswordFacts(r) /\ OthersFacts(r)
  <2>1. call[r] = Idle /\ since[r] = NoSince BY DEF Init
  <2> QED BY <2>1, IdleOK DEF Rested, TokenFacts, PasswordFacts, OthersFacts
<1> QED BY <1>1, <1>2, <1>3, <1>4 DEF Safe

THEOREM Safety == Spec => []Safe
BY SafeInit, SafeNext, PTL DEF Spec

\* A reset or verification link that has been used does nothing for a call that
\* arrives later (UsedTokensDie), however many resets, verifications and resends are
\* under way in the service at once.
THEOREM LinksDie == Spec => []UsedTokensDie
<1>1. Safe => UsedTokensDie BY DEF Safe, TokenFacts, UsedTokensDie
<1> QED BY <1>1, Safety, PTL

\* A change of the password that is answered has left none of the other sessions that
\* were there (OthersRevoked), whatever logins, challenges and take-overs race with it.
THEOREM ChangeEndsOthers == Spec => []OthersRevoked
<1>1. Safe => OthersRevoked BY DEF Safe, OthersFacts, OthersRevoked, Usable
<1> QED BY <1>1, Safety, PTL

\* A password is replaced only by one who has shown it or holds an unused reset token,
\* and a first one set only for a verified address (PasswordProved), for every number
\* of concurrent changes, resets and take-overs of the account.
THEOREM ChangeIsProved == Spec => PasswordProved
<1> DEFINE Shows(r) ==
      /\ call[r].at \in {"create", "update"} /\ call'[r].at # call[r].at
      /\ call[r].op = "reset" => call[r].given \notin since[r].spent
      /\ call[r].op = "set" /\ HasPassword =>
            [row |-> credential.row, secret |-> call[r].given] \in since[r].rows
      /\ ~HasPassword => account.verified
    Proved == credential' \notin {credential, NoCredential} => \E r \in Requests : Shows(r)
<1>1. Safe /\ [Next]_vars => [Proved]_vars
  <2> SUFFICES ASSUME Safe, Next, credential' \notin {credential, NoCredential}
               PROVE  \E r \in Requests : Shows(r)
    BY DEF vars
  <2>1. Inv BY DEF Safe
  <2>2. PICK r \in Requests : Statements(r)
    BY <2>1, OthersGrow, CallsArrive DEF Next, Arrived, tables
  <2>3. \/ CreateCredential(r) /\ ~HasPassword
        \/ UpdateHash(r) /\ credential.row = call[r].row
    BY <2>2, CredentialStep
  <2>4. TokenFacts(r) /\ PasswordFacts(r) /\ RowZero BY DEF Safe
  <2>5. call[r].at \in {"create", "update"} /\ call'[r].at # call[r].at BY <2>1, <2>3, Where, Whither
  <2>6. call[r].op = "reset" => call[r].given \notin since[r].spent BY <2>4, <2>5 DEF TokenFacts
  <2>7. CASE CreateCredential(r) /\ ~HasPassword
    <3>1. account.verified BY <2>4, <2>7, Where DEF PasswordFacts
    <3> QED BY <2>5, <2>6, <2>7, <3>1
  <2>8. CASE UpdateHash(r) /\ credential.row = call[r].row
    <3>1. call[r].row # 0 /\ call[r].at = "update" BY <2>4, <2>8, Where DEF PasswordFacts
    <3>2. HasPassword BY <2>8, <3>1 DEF HasPassword, NoCredential
    <3>3. call[r].op = "set" => [row |-> credential.row, secret |-> call[r].given] \in since[r].rows
      BY <2>4, <2>8, <3>1 DEF PasswordFacts
    <3> QED BY <2>5, <2>6, <3>2, <3>3
  <2> QED BY <2>3, <2>7, <2>8
<1>2. Spec => [][Proved]_vars BY <1>1, Safety, PTL DEF Spec
<1> QED BY <1>2 DEF PasswordProved
=============================================================================
