-------------------------- MODULE CredentialsFactors --------------------------
(***************************************************************************)
(* The second factor in Credentials, for every instance.  A login of a     *)
(* user who has one ends in a session that awaits its challenge            *)
(* (SecondFactorAsked): that session is nobody else's, and no caller can   *)
(* pass the challenge of a session it was not handed.  A recovery code is  *)
(* a one-time grant: Credentials implements OneTimeGrant with codeGrant    *)
(* and opened (CodeIsOneTime), since only the handler that marked the      *)
(* code's row used carries it, until it is answered or fails.  And the     *)
(* codes an enrolment shows are the ones that work (ShownCodesWork): what  *)
(* it has written nobody else knows before its answer, and no other        *)
(* handler replaces it.                                                    *)
(***************************************************************************)
EXTENDS CredentialsProofs

-----------------------------------------------------------------------------
\* The session that awaits its challenge.

Holding(c) == SignsIn(c) /\ c.at \in {"second", "pend", "hook", "revoke", "ok"}

HandedOut == \A s \in held \cap SessionIds : session[s].state # "free"
OwnSession(r) == Holding(call[r]) => call[r].s \notin held /\ session[call[r].s].state # "free"
Apart(r, q) == Holding(call[r]) /\ Holding(call[q]) => call[r].s # call[q].s
Presented(r) ==
    call[r].op \in {"challenge", "complete"} /\ call[r].at # "refused" => call[r].s \in held

\* The factors a login has seen from its arrival on are still verified; without them it
\* may go past the question.
FactorFacts(r) ==
    call[r].op \in {"login", "hostLogin"} =>
        /\ since[r].factors \subseteq Verified
        /\ "second" \notin config.faults =>
              /\ call[r].at \in {"hook", "revoke"} => since[r].factors = {}
              /\ call[r].at = "ok" /\ since[r].factors # {} => session[call[r].s].state # "open"

Asked ==
    /\ Safe /\ HandedOut
    /\ \A r \in Requests : OwnSession(r) /\ Presented(r) /\ FactorFacts(r)
    /\ \A r, q \in Requests : r # q => Apart(r, q)

-----------------------------------------------------------------------------
\* Only two statements make a session open.
LEMMA Opening ==
    ASSUME Inv, NEW r \in Requests, Statements(r), NEW s \in SessionIds,
           session'[s].state = "open", session[s].state # "open"
    PROVE  \/ InsertSession(r) /\ session[s].state = "free"
           \/ Unpend(r) /\ s = call[r].s
<1>1. TablesOK BY DEF Inv, TypeOK, TablesOK
<1>2. CASE InsertSession(r)
  <2>1. PICK n \in Fresh(session, NoSessionRow) : session' = [session EXCEPT ![n].state = "open"]
    BY <1>2, FreshRow DEF InsertSession
  <2>2. n = s /\ session[n] = NoSessionRow BY <1>1, <2>1 DEF TablesOK, Fresh
  <2> QED BY <1>2, <2>2 DEF NoSessionRow
<1>3. CASE Unpend(r)
  <2>1. SetSessions({call[r].s} \cap {x \in SessionIds : Usable(x)}, "open") BY <1>3 DEF Unpend
  <2>2. s \in {call[r].s} BY <2>1, SetSessionsOK
  <2> QED BY <1>3, <2>2
<1>4. CASE Pend(r) \/ Revoke(r) \/ RevokeOthers(r) \/ Sweep(r)
  <2>1. ASSUME NEW S, NEW state \in {"pending", "revoked"}, SetSessions(S, state) PROVE FALSE
    BY <2>1, SetSessionsOK
  <2>2. session' # session OBVIOUS
  <2>3. CASE Pend(r) BY <2>1, <2>2, <2>3 DEF Pend
  <2>4. CASE Revoke(r) BY <2>1, <2>2, <2>4 DEF Revoke
  <2>5. CASE RevokeOthers(r) BY <2>1, <2>2, <2>5 DEF RevokeOthers
  <2>6. CASE Sweep(r) BY <2>1, <2>6 DEF Sweep
  <2> QED BY <1>4, <2>3, <2>4, <2>5, <2>6
<1>5. \/ InsertSession(r) \/ Unpend(r) \/ Pend(r) \/ Revoke(r) \/ RevokeOthers(r) \/ Sweep(r)
      \/ session' = session
  BY DEF Statements, tables, ReadUser, Match, Second, OnLogin, Reload, CheckActive, ReadCredential,
     CreateCredential, UpdateHash, LookUp, IssueReset, CheckOwner, SpendReset, ClearProofs,
     MintProof, MarkVerified, RemovePassword, RemoveFactors, InsertFactor, WipeCodes, InsertCode,
     DeleteFactor, ListFactors, CheckTOTP, ConfirmFactor, Recover, Leave
<1> QED BY <1>2, <1>3, <1>4, <1>5

\* The points of a sign-in, and what is in hand there.
LEMMA SignInGoes ==
    ASSUME Inv, NEW r \in Requests, Statements(r), Holding(call'[r])
    PROVE  \/ InsertSession(r)
           \/ /\ Holding(call[r]) /\ call'[r].s = call[r].s
              /\ Second(r) \/ Pend(r) \/ OnLogin(r)
<1>1. AtHome(call[r]) BY DEF Inv, FlowOK, Flow
<1>2. ~Leave(r) BY LeaveIs, IdleOK DEF Holding, SignsIn
<1>3. Keeps(r) /\ call'[r].at # "refused" BY <1>2, StatementKeeps DEF Holding
<1>4. call[r].op \in {"login", "hostLogin", "takeOver"} BY <1>3 DEF Keeps, Holding, SignsIn
<1>5. ~ReadUser(r)
  <2> SUFFICES ASSUME ReadUser(r) PROVE FALSE OBVIOUS
  <2>1. [call[r] EXCEPT !.at = "match", !.admits = MayLogIn].at = "match"
    BY DEF Inv, TypeOK, Call
  <2> QED BY <2>1, BecomeAt DEF ReadUser, Holding
<1>6. ~Match(r) BY <1>3, GotoAt DEF Match, Holding
<1>7. ~Sweep(r) /\ ~RemovePassword(r) /\ ~RemoveFactors(r)
  BY GotoAt DEF Sweep, RemovePassword, RemoveFactors, Holding
<1>8. ~MarkVerified(r) BY Whither DEF Holding
<1>9. ~Revoke(r) BY <1>3, GotoAt DEF Revoke
<1>10. \/ ReadUser(r) \/ Match(r) \/ InsertSession(r) \/ Second(r) \/ Pend(r) \/ OnLogin(r)
       \/ Revoke(r) \/ Sweep(r) \/ RemovePassword(r) \/ RemoveFactors(r) \/ MarkVerified(r)
  BY <1>1, <1>2, <1>4, Where DEF Statements, AtHome
<1>11. CASE Second(r) \/ Pend(r) \/ OnLogin(r)
  <2>1. call[r].at \in {"second", "pend", "hook"} BY <1>11, Where
  <2>2. ~InsertSession(r) BY <2>1, Where
  <2> QED BY <1>3, <1>4, <1>11, <2>1, <2>2 DEF Keeps, Holding, SignsIn
<1> QED BY <1>5, <1>6, <1>7, <1>8, <1>9, <1>10, <1>11

\* The session an insertion mints is nobody's yet.
LEMMA InsertedSession ==
    ASSUME Asked, NEW r \in Requests, InsertSession(r), call'[r].at # "refused"
    PROVE  /\ call'[r].s \in SessionIds /\ session[call'[r].s].state = "free"
           /\ session'[call'[r].s].state # "free"
           /\ call'[r].s \notin held
<1>1. Inv /\ call[r] \in Call /\ TablesOK /\ HandedOut BY DEF Asked, Safe, Inv, TypeOK, TablesOK
<1>2. ~Goto(r, "refused") BY <1>1, GotoAt
<1> DEFINE s == Minted(session, NoSessionRow)
           d == [call[r] EXCEPT !.at = "second", !.s = s]
<1>3. s \in Fresh(session, NoSessionRow) /\ session' = [session EXCEPT ![s].state = "open"] /\ Become(r, d)
  BY <1>2, FreshRow DEF InsertSession
<1> HIDE DEF s
<1>4. d.s = s /\ d.at = "second" BY <1>1 DEF Call
<1> HIDE DEF d
<1>5. call'[r].s = s BY <1>1, <1>3, <1>4, BecomeIs
<1>6. s \in SessionIds /\ session[s] = NoSessionRow BY <1>1, <1>3 DEF TablesOK, Fresh
<1>7. session'[s].state # "free" BY <1>1, <1>3, <1>6 DEF TablesOK, Session
<1>8. session[s].state = "free" BY <1>6 DEF NoSessionRow
<1> QED BY <1>1, <1>5, <1>6, <1>7, <1>8 DEF HandedOut

\* What callers are handed.
LEMMA Handing ==
    ASSUME Inv, NEW r \in Requests, Statements(r)
    PROVE  /\ held \subseteq held'
           /\ \A s \in SessionIds : s \in held' \ held => Leave(r) /\ Holding(call[r]) /\ s = call[r].s
<1>1. Flow(call[r]) /\ call[r] \in Call BY DEF Inv, TypeOK, FlowOK
<1>2. CASE Leave(r)
  <2>1. held' = held \cup Shown(call[r]) BY <1>2 DEF Leave
  <2>2. ASSUME NEW s \in SessionIds, s \in Shown(call[r]) PROVE Holding(call[r]) /\ s = call[r].s
    <3> DEFINE c == call[r]
    <3>1. c.at = "ok" BY <2>2 DEF Shown
    <3>2. CASE c.op \in {"login", "hostLogin", "takeOver"}
      <4>1. Shown(c) = {c.s} BY <3>1, <3>2 DEF Shown
      <4> QED BY <2>2, <3>1, <3>2, <4>1 DEF Holding, SignsIn
    <3>3. CASE c.op \in {"ask", "resend"}
      <4>1. Shown(c) = {c.given} BY <3>1, <3>3 DEF Shown
      <4> QED BY <1>1, <2>2, <3>1, <3>3, <4>1, CredentialAssumption DEF Flow, Knows
    <3>4. CASE c.op \in {"enrol", "hostEnrol"}
      <4>1. Shown(c) = {c.factor} \cup c.codes BY <3>1, <3>4 DEF Shown
      <4>2. c.factor \in Factors /\ c.codes \subseteq Codes BY <1>1, <3>1, <3>4 DEF Flow, Knows, Call
      <4> QED BY <2>2, <4>1, <4>2, CredentialAssumption
    <3>5. CASE /\ c.op \notin {"login", "hostLogin", "takeOver"}
               /\ c.op \notin {"ask", "resend"} /\ c.op \notin {"enrol", "hostEnrol"}
      <4>1. Shown(c) = {} BY <3>1, <3>5 DEF Shown
      <4> QED BY <2>2, <4>1
    <3> QED BY <3>2, <3>3, <3>4, <3>5
  <2> QED BY <1>2, <2>1, <2>2
<1>3. ~Leave(r) => held' = held
  BY DEF Statements, ReadUser, Match, InsertSession, Second, Pend, OnLogin, Revoke, Reload,
     CheckActive, ReadCredential, CreateCredential, UpdateHash, RevokeOthers, LookUp, IssueReset,
     CheckOwner, SpendReset, ClearProofs, MintProof, MarkVerified, Sweep, RemovePassword,
     RemoveFactors, InsertFactor, WipeCodes, InsertCode, DeleteFactor, ListFactors, CheckTOTP,
     ConfirmFactor, Recover, Unpend
<1> QED BY <1>2, <1>3

LEMMA NoFactors == NoSince.factors = {}
BY DEF NoSince

-----------------------------------------------------------------------------
\* A statement of one handler.  What the others keep:
LEMMA AskedAside ==
    ASSUME Asked, History, UNCHANGED config, NEW r \in Requests, Statements(r), Inv',
           NEW q \in Requests, q # r
    PROVE  OwnSession(q)' /\ Presented(q)' /\ FactorFacts(q)'
<1>1. Inv /\ OwnSession(q) /\ Presented(q) /\ FactorFacts(q) /\ Apart(r, q) /\ Presented(r)
      /\ call[q] \in Call /\ Flow(call[q])
  BY DEF Asked, Safe, Inv, TypeOK, FlowOK
<1>2. call'[q] = call[q] BY <1>1, LeaveIs, StatementKeeps DEF Keeps
<1>3. Grown BY <1>1, StatementsGrow
<1>4. ASSUME Holding(call[q]) PROVE call[q].s \in SessionIds
  BY <1>1, <1>4 DEF Holding, Flow, Knows
<1>5. ASSUME Holding(call[q]) PROVE call[q].s \notin held'
  BY <1>1, <1>4, <1>5, Handing DEF Apart, OwnSession
<1>6. OwnSession(q)' BY <1>1, <1>2, <1>3, <1>4, <1>5 DEF OwnSession, Grown
<1>7. Presented(q)' BY <1>1, <1>2, Handing DEF Presented
<1>8. FactorFacts(q)'
  <2> SUFFICES ASSUME call[q].op \in {"login", "hostLogin"} PROVE FactorFacts(q)'
    BY <1>2 DEF FactorFacts
  <2>1. CASE call[q].at \in {"idle", "refused"}
    <3>1. since'[q].factors = {} BY <1>2, <2>1, GatherIs, NoFactors
    <3> QED BY <1>2, <2>1, <3>1 DEF FactorFacts
  <2>2. CASE call[q].at \notin {"idle", "refused"}
    <3>1. since'[q].factors = since[q].factors \cap Verified' BY <1>2, <2>2, GatherIs
    <3>2. ASSUME call[q].at = "ok", session[call[q].s].state # "open"
          PROVE  session'[call[q].s].state # "open"
      <4>1. Holding(call[q]) BY <3>2 DEF Holding, SignsIn
      <4>2. call[q].s \in SessionIds /\ session[call[q].s].state # "free" /\ call[q].s \notin held
        BY <1>1, <1>4, <4>1 DEF OwnSession
      <4>3. ASSUME Unpend(r) PROVE call[r].s \in held
        <5>1. call[r].at = "unpend" /\ AtHome(call[r]) BY <1>1, <4>3, Where DEF Inv, FlowOK, Flow
        <5> QED BY <1>1, <5>1 DEF AtHome, Presented
      <4> QED BY <1>1, <3>2, <4>2, <4>3, Opening
    <3> QED BY <1>1, <1>2, <3>1, <3>2 DEF FactorFacts
  <2> QED BY <2>1, <2>2
<1> QED BY <1>6, <1>7, <1>8

\* And what the handler itself knows afterwards.
LEMMA OwnAfter ==
    ASSUME Asked, NEW r \in Requests, Statements(r), Inv'
    PROVE  OwnSession(r)' /\ Presented(r)' /\ \A q \in Requests \ {r} : Apart(r, q)' /\ Apart(q, r)'
<1>1. Inv /\ OwnSession(r) /\ Presented(r) /\ Flow(call[r]) BY DEF Asked, Safe, Inv, FlowOK
<1>2. Grown /\ \A q \in Requests \ {r} : call'[q] = call[q]
  BY <1>1, StatementsGrow, LeaveIs, StatementKeeps DEF Keeps
<1>3. ASSUME Holding(call'[r])
      PROVE  /\ call'[r].s \notin held' /\ session'[call'[r].s].state # "free"
             /\ \A q \in Requests \ {r} : Holding(call[q]) => call[q].s # call'[r].s
  <2>1. ~Leave(r) BY <1>1, <1>3, LeaveIs, IdleOK DEF Holding, SignsIn
  <2>2. call'[r].s \in SessionIds BY <1>3 DEF Inv, FlowOK, Flow, Knows, Holding
  <2>3. CASE InsertSession(r)
    <3>1. /\ session[call'[r].s].state = "free" /\ session'[call'[r].s].state # "free"
          /\ call'[r].s \notin held
      BY <1>3, <2>3, InsertedSession DEF Holding
    <3>2. \A q \in Requests : Holding(call[q]) => session[call[q].s].state # "free"
      BY DEF Asked, OwnSession
    <3> QED BY <1>1, <2>1, <2>2, <3>1, <3>2, Handing
  <2>4. CASE Holding(call[r]) /\ call'[r].s = call[r].s
    <3>1. call[r].s \notin held /\ session[call[r].s].state # "free" BY <1>1, <2>4 DEF OwnSession
    <3>2. \A q \in Requests \ {r} : Holding(call[q]) => call[q].s # call[r].s
      BY <2>4 DEF Asked, Apart
    <3> QED BY <1>1, <1>2, <2>1, <2>2, <2>4, <3>1, <3>2, Handing DEF Grown
  <2> QED BY <1>1, <1>3, <2>3, <2>4, SignInGoes
<1>4. Presented(r)'
  <2> SUFFICES ASSUME call'[r].op \in {"challenge", "complete"}, call'[r].at # "refused"
               PROVE  call'[r].s \in held'
    BY DEF Presented
  <2>1. ~Leave(r) BY <1>1, LeaveIs, IdleOK
  <2>2. call[r].op = call'[r].op /\ (call'[r].s = call[r].s \/ InsertSession(r))
    BY <1>1, <2>1, StatementKeeps DEF Keeps
  <2>3. ~InsertSession(r) BY <1>1, <2>2, Where DEF Flow, AtHome
  <2>4. call[r].at # "refused" BY <2>1, <1>1, <2>2, Where DEF Statements, Flow, AtHome
  <2> QED BY <1>1, <2>2, <2>3, <2>4, Handing DEF Presented
<1>5. OwnSession(r)' BY <1>3 DEF OwnSession
<1>6. ASSUME NEW q \in Requests \ {r} PROVE Apart(r, q)' /\ Apart(q, r)'
  BY <1>2, <1>3 DEF Apart
<1> QED BY <1>4, <1>5, <1>6

LEMMA FactorsAfter ==
    ASSUME Asked, History, UNCHANGED config, NEW r \in Requests, Statements(r), Inv'
    PROVE  FactorFacts(r)'
<1>1. Inv /\ FactorFacts(r) /\ Flow(call[r]) /\ call[r] \in Call /\ TablesOK
  BY DEF Asked, Safe, Inv, TypeOK, FlowOK, TablesOK
<1> SUFFICES ASSUME call'[r].op \in {"login", "hostLogin"} PROVE FactorFacts(r)' BY DEF FactorFacts
<1>2. ~Leave(r) BY <1>1, LeaveIs, IdleOK
<1>3. call[r].op = call'[r].op /\ call'[r].at # "idle" BY <1>1, <1>2, StatementKeeps DEF Keeps
<1>4. CASE call'[r].at = "refused"
  <2>1. since'[r].factors = {} BY <1>4, GatherIs, NoFactors
  <2> QED BY <1>4, <2>1 DEF FactorFacts
<1>5. CASE call'[r].at # "refused"
  <2>1. since'[r].factors = since[r].factors \cap Verified'
    <3>1. call[r].at # "idle" BY <1>1, Steps
    <3> QED BY <1>3, <1>5, <3>1, GatherIs
  <2>2. since[r].factors \subseteq Verified BY <1>1, <1>3 DEF FactorFacts
  <2>3. ASSUME "second" \notin config.faults, call'[r].at \in {"hook", "revoke", "ok"}
        PROVE  since'[r].factors = {} \/ (call'[r].at = "ok" /\ session'[call'[r].s].state # "open")
    <3>1. Holding(call'[r]) BY <2>3 DEF Holding, SignsIn
    <3>2. ~InsertSession(r)
      <4> SUFFICES ASSUME InsertSession(r) PROVE FALSE OBVIOUS
      <4>1. Goto(r, "refused") \/ \E s : Become(r, [call[r] EXCEPT !.at = "second", !.s = s])
        BY DEF InsertSession
      <4>2. \A s : [call[r] EXCEPT !.at = "second", !.s = s].at = "second" BY <1>1 DEF Call
      <4> QED BY <1>1, <2>3, <4>1, <4>2, GotoAt, BecomeAt
    <3>3. call'[r].s = call[r].s /\ (Second(r) \/ Pend(r) \/ OnLogin(r))
      BY <1>1, <3>1, <3>2, SignInGoes
    <3>4. CASE Second(r)
      <4>1. PICK fails \in May("second") :
               Goto(r, IF UserHasMFA /\ ~fails THEN "pend"
                       ELSE IF call[r].op \in ByHost THEN "ok" ELSE "hook")
        BY <3>4 DEF Second
      <4>2. ~fails BY <2>3 DEF May
      <4>3. ~UserHasMFA BY <1>1, <2>3, <4>1, <4>2, GotoAt
      <4>4. Verified = {} BY <4>3 DEF UserHasMFA, Verified
      <4> QED BY <2>1, <2>2, <4>4
    <3>5. CASE Pend(r)
      <4>1. call'[r].at = "ok" BY <1>1, <2>3, <3>5, GotoAt DEF Pend
      <4>2. ~Goto(r, "refused") BY <1>1, <4>1, GotoAt
      <4>3. SetSessions({call[r].s} \cap {s \in SessionIds : Usable(s)}, "pending")
        BY <3>5, <4>2 DEF Pend
      <4>4. call[r].s \in SessionIds BY <1>1, <1>3, <3>5, Where DEF Flow, Knows, SignsIn
      <4>5. session'[call[r].s].state = IF Usable(call[r].s) THEN "pending" ELSE session[call[r].s].state
        BY <1>1, <4>3, <4>4, SetSessionsOK
      <4> QED BY <3>3, <4>1, <4>5 DEF Usable
    <3>6. CASE OnLogin(r)
      <4>1. call[r].at = "hook" BY <3>6, Where
      <4>2. since[r].factors = {} BY <1>1, <1>3, <2>3, <4>1 DEF FactorFacts
      <4> QED BY <2>1, <4>2
    <3> QED BY <3>3, <3>4, <3>5, <3>6
  <2> QED BY <2>1, <2>3 DEF FactorFacts
<1> QED BY <1>4, <1>5

-----------------------------------------------------------------------------
\* A handler that does not move while no session is opened and nothing is handed out.
LEMMA AskedQuiet ==
    ASSUME Asked, History, UNCHANGED <<config, held>>, NEW q \in Requests, call'[q] = call[q], Inv',
           \A s \in SessionIds : session'[s].state = session[s].state
    PROVE  OwnSession(q)' /\ Presented(q)' /\ FactorFacts(q)'
<1>1. OwnSession(q) /\ Presented(q) /\ FactorFacts(q) /\ Flow(call[q]) /\ call[q] \in Call
  BY DEF Asked, Safe, Inv, TypeOK, FlowOK
<1>2. Holding(call[q]) => call[q].s \in SessionIds BY <1>1 DEF Holding, Flow, Knows
<1>3. OwnSession(q)' /\ Presented(q)' BY <1>1, <1>2 DEF OwnSession, Presented
<1>4. FactorFacts(q)'
  <2> SUFFICES ASSUME call[q].op \in {"login", "hostLogin"} PROVE FactorFacts(q)' BY DEF FactorFacts
  <2>1. CASE call[q].at \in {"idle", "refused"}
    <3>1. since'[q].factors = {} BY <2>1, GatherIs, NoFactors
    <3> QED BY <2>1, <3>1 DEF FactorFacts
  <2>2. CASE call[q].at \notin {"idle", "refused"}
    <3>1. since'[q].factors = since[q].factors \cap Verified' BY <2>2, GatherIs
    <3>2. call[q].at = "ok" => session'[call[q].s].state = session[call[q].s].state
      BY <1>2 DEF Holding, SignsIn
    <3> QED BY <1>1, <3>1, <3>2 DEF FactorFacts
  <2> QED BY <2>1, <2>2
<1> QED BY <1>3, <1>4

LEMMA AskedArrived ==
    ASSUME Asked, History, NEW r \in Requests, Arrived(r), Inv'
    PROVE  OwnSession(r)' /\ Presented(r)' /\ FactorFacts(r)' /\ ~Holding(call'[r])
<1>1. Flow(call'[r]) /\ held' = held /\ factor' = factor
  BY DEF Inv, FlowOK, Arrived, tables
<1>2. ~Holding(call'[r])
  <2>1. call'[r].at \notin {"second", "ok"} BY DEF Arrived
  <2>2. call'[r].op \in {"login", "hostLogin"} => call'[r].at \in {"match", "reread"} BY DEF Arrived
  <2>3. call'[r].op = "takeOver" => call'[r].at = "sweep" BY DEF Arrived
  <2> QED BY <2>2, <2>3 DEF Holding, SignsIn
<1>3. OwnSession(r)' BY <1>2 DEF OwnSession
<1>4. Presented(r)' BY <1>1 DEF Presented, Arrived
<1>5. FactorFacts(r)'
  <2> SUFFICES ASSUME call'[r].op \in {"login", "hostLogin"} PROVE FactorFacts(r)' BY DEF FactorFacts
  <2>1. call'[r].at \in {"match", "reread"} /\ call[r].at = "idle" BY DEF Arrived
  <2>2. since'[r].factors = Verified BY <2>1, GatherIs
  <2>3. Verified' = Verified BY <1>1 DEF Verified
  <2> QED BY <2>1, <2>2, <2>3 DEF FactorFacts
<1> QED BY <1>2, <1>3, <1>4, <1>5

LEMMA AskedNext == ASSUME Asked, [Next]_vars PROVE Asked'
<1>1. Safe /\ Safe' /\ Inv /\ Inv' BY SafeNext DEF Asked, Safe
<1>2. CASE UNCHANGED vars
  <2>1. UNCHANGED <<config, session, factor, held, call, since>> BY <1>2 DEF vars, tables, history
  <2> QED BY <1>1, <2>1 DEF Asked, HandedOut, OwnSession, Presented, FactorFacts, Apart, Verified
<1>3. CASE Next
  <2>1. History /\ UNCHANGED config BY <1>3 DEF Next
  <2>2. CASE Others
    <3>1. UNCHANGED <<call, held>> /\ \A s \in SessionIds : session'[s].state = session[s].state
      <4>1. session \in [SessionIds -> Session] BY <1>1 DEF Inv, TypeOK
      <4> QED BY <2>2, <4>1 DEF Others, SetStatus, Age, Lapse, Session
    <3>2. \A q \in Requests : OwnSession(q)' /\ Presented(q)' /\ FactorFacts(q)'
      BY <1>1, <2>1, <3>1, AskedQuiet
    <3>3. HandedOut' BY <3>1 DEF Asked, HandedOut
    <3>4. \A r, q \in Requests : r # q => Apart(r, q)' BY <3>1 DEF Asked, Apart
    <3> QED BY <1>1, <3>2, <3>3, <3>4 DEF Asked
  <2>3. ASSUME NEW r \in Requests, Calls(r) PROVE Asked'
    <3>1. Arrived(r) BY <1>1, <2>3, CallsArrive
    <3>2. UNCHANGED <<held, session>> /\ \A q \in Requests \ {r} : call'[q] = call[q]
      BY <3>1 DEF Arrived, tables
    <3>3. OwnSession(r)' /\ Presented(r)' /\ FactorFacts(r)' /\ ~Holding(call'[r])
      BY <1>1, <2>1, <3>1, AskedArrived
    <3>4. \A q \in Requests \ {r} : OwnSession(q)' /\ Presented(q)' /\ FactorFacts(q)'
      BY <1>1, <2>1, <3>2, AskedQuiet
    <3>5. HandedOut' BY <3>2 DEF Asked, HandedOut
    <3>6. \A p, q \in Requests : p # q => Apart(p, q)' BY <3>2, <3>3 DEF Asked, Apart
    <3> QED BY <1>1, <3>3, <3>4, <3>5, <3>6 DEF Asked
  <2>4. ASSUME NEW r \in Requests, Statements(r) PROVE Asked'
    <3>1. Grown /\ \A q \in Requests \ {r} : call'[q] = call[q]
      BY <1>1, <2>4, StatementsGrow, LeaveIs, StatementKeeps DEF Keeps
    <3>2. HandedOut'
      <4>1. ASSUME NEW s \in SessionIds, s \in held' PROVE session[s].state # "free"
        BY <1>1, <2>4, <4>1, Handing DEF Asked, HandedOut, OwnSession
      <4> QED BY <3>1, <4>1 DEF HandedOut, Grown
    <3>3. OwnSession(r)' /\ Presented(r)' /\ \A q \in Requests \ {r} : Apart(r, q)' /\ Apart(q, r)'
      BY <1>1, <2>4, OwnAfter
    <3>4. FactorFacts(r)' BY <1>1, <2>1, <2>4, FactorsAfter
    <3>5. \A q \in Requests \ {r} : OwnSession(q)' /\ Presented(q)' /\ FactorFacts(q)'
      BY <1>1, <2>1, <2>4, AskedAside
    <3>6. \A p, q \in Requests \ {r} : p # q => Apart(p, q)' BY <3>1 DEF Asked, Apart
    <3>7. \A p, q \in Requests : p # q => Apart(p, q)' BY <3>3, <3>6
    <3> QED BY <1>1, <3>2, <3>3, <3>4, <3>5, <3>7 DEF Asked
  <2> QED BY <1>3, <2>2, <2>3, <2>4 DEF Next
<1> QED BY <1>2, <1>3

LEMMA AskedInit == Init => Asked
<1> SUFFICES ASSUME Init PROVE Asked OBVIOUS
<1>1. Safe BY SafeInit
<1>2. \A r \in Requests : call[r] = Idle /\ since[r] = NoSince BY DEF Init
<1>3. \A r \in Requests : OwnSession(r) /\ Presented(r) /\ FactorFacts(r) /\ ~Holding(call[r])
  BY <1>2, IdleOK DEF OwnSession, Presented, FactorFacts, Holding, SignsIn
<1>4. HandedOut
  <2> DEFINE empty == [s \in SessionIds |-> NoSessionRow]
             none == [f \in Factors |-> "none"]
             s0 == Minted(empty, NoSessionRow)
             f0 == Minted(none, "none")
  <2>1. s0 \in SessionIds
    <3>1. PICK s \in SessionIds : empty[s] = NoSessionRow BY CredentialAssumption
    <3> QED BY <3>1, MintedFresh
  <2>2. f0 \in Factors
    <3>1. PICK f \in Factors : none[f] = "none" BY CredentialAssumption
    <3> QED BY <3>1, MintedFresh
  <2>3. /\ session = [empty EXCEPT ![s0].state = "open"]
        /\ held = {s0} \cup (IF config.factored THEN {f0} ELSE {})
    BY DEF Init
  <2> HIDE DEF s0, f0
  <2>4. held \cap SessionIds = {s0} BY <2>1, <2>2, <2>3, CredentialAssumption
  <2>5. session[s0].state = "open" BY <2>1, <2>3 DEF NoSessionRow
  <2> QED BY <2>4, <2>5 DEF HandedOut
<1> QED BY <1>1, <1>3, <1>4 DEF Asked, Apart

\* A user who has a verified factor from the login to its answer gets a session that
\* must pass the challenge (SecondFactorAsked), whatever is enrolled, confirmed or
\* removed meanwhile and however many other logins and challenges are under way.
THEOREM FactorIsAsked == Spec => []SecondFactorAsked
<1>1. Asked => SecondFactorAsked BY DEF Asked, FactorFacts, SecondFactorAsked
<1> QED BY <1>1, AskedInit, AskedNext, PTL DEF Spec

-----------------------------------------------------------------------------
\* Recovery codes.

Carries(r, k) == call[r].given = k /\ call[r].at \in {"unpend", "hook"}

\* The handler in r is answered, having presented k.
Opens(r, k) == call'[r].at = "ok" /\ call[r].at # "ok" /\ call'[r].given = k

\* Only a challenge presents a code, and the code of an authenticator is none.
CodeFacts(r) ==
    /\ call[r].op \notin {"challenge", "complete"} => call[r].given \notin Codes
    /\ call[r].at = "totp" => call[r].factor \in Factors
    /\ call[r].at = "confirm" => call[r].given \in Factors

CodeState(k) ==
    /\ recovery[k] \in {"none", "open"} => opened[k] = 0 /\ \A r \in Requests : ~Carries(r, k)
    /\ \A r \in Requests : Carries(r, k) => opened[k] = 0
    /\ \A r, q \in Requests : Carries(r, k) /\ Carries(q, k) => r = q

Coded ==
    /\ Safe
    /\ \A r \in Requests : CodeFacts(r)
    /\ \A k \in Codes : CodeState(k)

-----------------------------------------------------------------------------
LEMMA OpenedIs ==
    ASSUME Inv, History, NEW r \in Requests, \A q \in Requests \ {r} : call'[q] = call[q], NEW k \in Codes
    PROVE  /\ Opens(r, k) => opened'[k] = opened[k] + 1
           /\ ~Opens(r, k) => opened'[k] = opened[k]
<1> DEFINE S == {q \in Requests : call'[q].at = "ok" /\ call[q].at # "ok" /\ call'[q].given = k}
<1>1. opened'[k] = opened[k] + Cardinality(S) /\ opened[k] \in Nat BY DEF History, Inv, TypeOK
<1>2. CASE Opens(r, k)
  <2>1. S = {r} BY <1>2 DEF Opens
  <2>2. Cardinality(S) = 1 BY <2>1, FS_Singleton
  <2> QED BY <1>1, <1>2, <2>2
<1>3. CASE ~Opens(r, k)
  <2>1. S = {} BY <1>3 DEF Opens
  <2>2. Cardinality(S) = 0 BY <2>1, FS_EmptySet
  <2> QED BY <1>1, <1>3, <2>2
<1> QED BY <1>2, <1>3

\* The statements that neither touch a code nor move one.
Quiet(r) ==
    /\ recovery' = recovery
    /\ \A k \in Codes : ~Carries(r, k) /\ ~Carries(r, k)' /\ ~Opens(r, k)

\* The statements of those who present a code.
LEMMA CodeSteps ==
    ASSUME Inv, NEW r \in Requests, Statements(r), call[r].op \in {"challenge", "complete", "confirm"}
    PROVE  \/ ListFactors(r) \/ CheckTOTP(r) \/ ConfirmFactor(r) \/ Recover(r) \/ Unpend(r) \/ OnLogin(r)
           \/ Revoke(r) \/ Leave(r)
<1>1. AtHome(call[r]) BY DEF Inv, FlowOK, Flow
<1> QED BY <1>1, Where DEF Statements, AtHome

LEMMA CodeWhither ==
    ASSUME Inv, NEW r \in Requests
    PROVE  /\ ListFactors(r) => /\ call'[r].at \in {"refused", "unpend", "recover"}
                                /\ call'[r].at = "unpend" => call[r].given = Nil
           /\ CheckTOTP(r) => /\ call'[r].at \in {"recover", "refused", "confirm", "unpend", "ok"}
                              /\ call'[r].at \in {"confirm", "unpend", "ok"} => call[r].given = call[r].factor
           /\ ConfirmFactor(r) => call'[r].at \in {"unpend", "ok", "recover", "refused"}
           /\ Recover(r) => call'[r].at \in {"unpend", "refused"}
           /\ Unpend(r) => call'[r].at \in {"refused", "ok", "hook"}
           /\ OnLogin(r) => call'[r].at \in {"revoke", "ok"}
           /\ Revoke(r) => call'[r].at = "refused"
<1>1. ASSUME CheckTOTP(r)
      PROVE  /\ call'[r].at \in {"recover", "refused", "confirm", "unpend", "ok"}
             /\ call'[r].at \in {"confirm", "unpend", "ok"} => call[r].given = call[r].factor
  BY <1>1, GotoAt DEF CheckTOTP
<1>2. ConfirmFactor(r) => call'[r].at \in {"unpend", "ok", "recover", "refused"}
  BY GotoAt DEF ConfirmFactor
<1>3. Recover(r) => call'[r].at \in {"unpend", "refused"} BY GotoAt DEF Recover
<1>4. Unpend(r) => call'[r].at \in {"refused", "ok", "hook"} BY GotoAt DEF Unpend
<1>5. OnLogin(r) => call'[r].at \in {"revoke", "ok"} BY GotoAt DEF OnLogin
<1>6. Revoke(r) => call'[r].at = "refused" BY GotoAt DEF Revoke
<1>7. ASSUME ListFactors(r)
      PROVE  /\ call'[r].at \in {"refused", "unpend", "recover"}
             /\ call'[r].at = "unpend" => call[r].given = Nil
  BY <1>7, GotoAt DEF ListFactors
<1> QED BY <1>1, <1>2, <1>3, <1>4, <1>5, <1>6, <1>7

LEMMA GivenKept ==
    ASSUME Inv, Inv', NEW r \in Requests, Statements(r), CodeFacts(r)
    PROVE  /\ call'[r].op = call[r].op \/ Leave(r)
           /\ call'[r].given = call[r].given \/ call'[r].given \notin Codes
<1>1. call[r] \in Call /\ Flow(call'[r]) BY DEF Inv, TypeOK, FlowOK
<1>2. CASE Leave(r) BY <1>2, LeaveIs, CredentialAssumption DEF Idle, Handed
<1>3. CASE ~Leave(r)
  <2>1. Keeps(r) BY <1>3, StatementKeeps
  <2>2. CASE call'[r].at = "refused" BY <2>1, <2>2, CredentialAssumption DEF Keeps, Handed
  <2>3. CASE (IssueReset(r) \/ MintProof(r)) /\ call'[r].at # "refused"
    <3>1. call[r].op \in {"ask", "resend"} BY <2>3, Where DEF Inv, FlowOK, Flow, AtHome
    <3>2. call'[r].op \in {"ask", "resend"} BY <2>1, <3>1 DEF Keeps
    <3>3. call'[r].at = "ok"
      <4>1. PICK t : Become(r, [call[r] EXCEPT !.at = "ok", !.given = t])
        BY <2>3 DEF IssueReset, MintProof
      <4>2. [call[r] EXCEPT !.at = "ok", !.given = t].at = "ok" BY <1>1 DEF Call
      <4> QED BY <4>1, <4>2, BecomeAt
    <3>4. call'[r].given \in Tokens BY <1>1, <3>2, <3>3 DEF Flow, Knows
    <3> QED BY <2>1, <3>4, CredentialAssumption DEF Keeps
  <2>4. CASE call'[r].at # "refused" /\ ~IssueReset(r) /\ ~MintProof(r)
    BY <2>1, <2>4 DEF Keeps
  <2> QED BY <2>1, <2>2, <2>3, <2>4 DEF Keeps
<1> QED BY <1>2, <1>3

LEMMA FactsKept ==
    ASSUME Coded, Inv', NEW r \in Requests, Statements(r)
    PROVE  CodeFacts(r)'
<1>1. Inv /\ CodeFacts(r) /\ call[r] \in Call /\ AtHome(call'[r])
  BY DEF Coded, Safe, Inv, TypeOK, FlowOK, Flow
<1>2. call'[r].op = call[r].op \/ call'[r] = Idle BY <1>1, GivenKept, LeaveIs
<1>3. call'[r].op \notin {"challenge", "complete"} => call'[r].given \notin Codes
  <2>1. Idle.given \notin Codes BY CredentialAssumption DEF Idle, Handed
  <2> QED BY <1>1, <1>2, <2>1, GivenKept DEF CodeFacts
<1>4. ASSUME call'[r].at \in {"totp", "confirm"}
      PROVE  call'[r].at = "confirm" /\ call'[r].given \in Factors
  <2>1. call'[r] # Idle BY <1>4, IdleOK
  <2>2. call[r].op \in {"challenge", "confirm"} BY <1>1, <1>2, <1>4, <2>1 DEF AtHome
  <2>3. ~Leave(r) BY <1>1, <2>1, LeaveIs
  <2>4. CheckTOTP(r) BY <1>1, <1>4, <2>2, <2>3, CodeSteps, CodeWhither
  <2>5. call'[r].at = "confirm" /\ call[r].given = call[r].factor BY <1>1, <1>4, <2>4, CodeWhither
  <2>6. call[r].factor \in Factors BY <1>1, <2>4, Where DEF CodeFacts
  <2>7. ~IssueReset(r) /\ ~MintProof(r) BY <2>4, Where
  <2>8. call'[r].given = call[r].given BY <1>1, <2>3, <2>5, <2>7, StatementKeeps DEF Keeps
  <2> QED BY <2>5, <2>6, <2>8
<1> QED BY <1>3, <1>4 DEF CodeFacts

\* Whoever is answered with a code in hand has carried it; all others are quiet.
LEMMA QuietOrNot ==
    ASSUME Coded, Inv', NEW r \in Requests, Statements(r)
    PROVE  \/ Quiet(r) \/ Recover(r) \/ Unpend(r) \/ OnLogin(r)
           \/ InsertCode(r) \/ WipeCodes(r) \/ RemoveFactors(r)
<1> SUFFICES ASSUME ~Recover(r), ~Unpend(r), ~OnLogin(r), ~InsertCode(r), ~WipeCodes(r), ~RemoveFactors(r)
             PROVE  Quiet(r)
  OBVIOUS
<1>1. Inv /\ CodeFacts(r) BY DEF Coded, Safe
<1>2. recovery' = recovery
  BY DEF Statements, tables, ReadUser, Match, InsertSession, Second, Pend, Revoke, Reload,
     CheckActive, ReadCredential, CreateCredential, UpdateHash, RevokeOthers, LookUp, IssueReset,
     CheckOwner, SpendReset, ClearProofs, MintProof, MarkVerified, Sweep, RemovePassword,
     InsertFactor, DeleteFactor, ListFactors, CheckTOTP, ConfirmFactor, Leave
<1>3. \A k \in Codes : ~Carries(r, k) BY Where DEF Statements, Carries
<1>4. ASSUME NEW k \in Codes, call'[r].given = k, call'[r].at \in {"unpend", "hook", "ok"}
      PROVE  FALSE
  <2>1. call[r].given = k /\ call'[r].op = call[r].op /\ ~Leave(r)
    <3>1. ~Leave(r) BY <1>1, <1>4, LeaveIs, IdleOK
    <3> QED BY <1>1, <1>4, <3>1, GivenKept
  <2>2. call[r].op \in {"challenge", "complete"} BY <1>1, <1>4, <2>1 DEF CodeFacts
  <2>3. ListFactors(r) \/ CheckTOTP(r) \/ ConfirmFactor(r) \/ Revoke(r) BY <1>1, <2>1, <2>2, CodeSteps
  <2>4. call[r].given \in Factors \cup {Nil}
    <3>1. CASE CheckTOTP(r) BY <1>1, <1>4, <3>1, CodeWhither, Where DEF CodeFacts
    <3>2. CASE ConfirmFactor(r) BY <1>1, <3>2, Where DEF CodeFacts
    <3>3. CASE Revoke(r) BY <1>1, <1>4, <3>3, CodeWhither
    <3>4. CASE ListFactors(r) BY <1>1, <1>4, <3>4, CodeWhither
    <3> QED BY <2>3, <3>1, <3>2, <3>3, <3>4
  <2> QED BY <1>4, <2>1, <2>4, GivenIsNoCode, CredentialAssumption
<1> QED BY <1>2, <1>3, <1>4 DEF Quiet, Carries, Opens

-----------------------------------------------------------------------------
LEMMA GrantIs ==
    ASSUME NEW k \in Codes
    PROVE  /\ codeGrant[k] = IF recovery[k] \in {"none", "open"} THEN recovery[k]
                             ELSE IF opened[k] > 0 THEN "done"
                             ELSE IF \E r \in Requests : Carries(r, k) THEN "held" ELSE "dead"
           /\ codeGrant'[k] = IF recovery'[k] \in {"none", "open"} THEN recovery'[k]
                              ELSE IF opened'[k] > 0 THEN "done"
                              ELSE IF \E r \in Requests : Carries(r, k)' THEN "held" ELSE "dead"
BY DEF codeGrant, Carried, Carries

\* What a statement of r does to a code depends on r alone.
Moves(r) == \A q \in Requests \ {r} : call'[q] = call[q]

LEMMA Untouched ==
    ASSUME Coded, History, NEW r \in Requests, Moves(r), NEW k \in Codes,
           Carries(r, k)' <=> Carries(r, k), ~Opens(r, k),
           recovery'[k] = recovery[k] \/ (recovery[k] \in {"used", "gone"} /\ recovery'[k] = "gone")
    PROVE  codeGrant'[k] = codeGrant[k] /\ opened'[k] = opened[k] /\ CodeState(k)'
<1>1. Inv /\ CodeState(k) BY DEF Coded, Safe
<1>2. opened'[k] = opened[k] BY <1>1, OpenedIs DEF Moves
<1>3. \A q \in Requests : Carries(q, k)' <=> Carries(q, k) BY DEF Moves, Carries
<1>4. codeGrant'[k] = codeGrant[k] BY <1>2, <1>3, GrantIs
<1>5. CodeState(k)' BY <1>1, <1>2, <1>3 DEF CodeState
<1> QED BY <1>2, <1>4, <1>5

LEMMA SameFunctions ==
    ASSUME Inv, Inv', NEW K \in SUBSET Codes,
           \A k \in Codes \ K : codeGrant'[k] = codeGrant[k] /\ opened'[k] = opened[k]
    PROVE  /\ codeGrant' = [k \in Codes |-> IF k \in K THEN codeGrant'[k] ELSE codeGrant[k]]
           /\ opened' = [k \in Codes |-> IF k \in K THEN opened'[k] ELSE opened[k]]
           /\ codeGrant = [k \in Codes |-> codeGrant[k]] /\ opened = [k \in Codes |-> opened[k]]
<1>1. opened \in [Codes -> Nat] /\ opened' \in [Codes -> Nat] BY DEF Inv, TypeOK
<1>2. codeGrant' = [k \in Codes |-> codeGrant'[k]] /\ codeGrant = [k \in Codes |-> codeGrant[k]]
  BY DEF codeGrant
<1>3. [k \in Codes |-> codeGrant'[k]] = [k \in Codes |-> IF k \in K THEN codeGrant'[k] ELSE codeGrant[k]]
  OBVIOUS
<1> QED BY <1>1, <1>2, <1>3

Refines == [CodeGrants!Next]_(CodeGrants!vars) /\ \A k \in Codes : CodeState(k)'

LEMMA QuietStep ==
    ASSUME Coded, Inv', History, NEW r \in Requests, Moves(r), Quiet(r)
    PROVE  Refines
<1>1. \A k \in Codes : codeGrant'[k] = codeGrant[k] /\ opened'[k] = opened[k] /\ CodeState(k)'
  BY Untouched DEF Quiet
<1>2. codeGrant' = codeGrant /\ opened' = opened
  <2>1. \A k \in Codes \ {} : codeGrant'[k] = codeGrant[k] /\ opened'[k] = opened[k] BY <1>1
  <2> QED BY <2>1, SameFunctions DEF Coded, Safe
<1> QED BY <1>1, <1>2 DEF Refines, CodeGrants!vars

\* A code that alone changes its state.
LEMMA OneGrant ==
    ASSUME Inv, Inv', NEW k \in Codes,
           \A i \in Codes \ {k} : codeGrant'[i] = codeGrant[i] /\ opened'[i] = opened[i],
           \/ codeGrant[k] = "none" /\ codeGrant'[k] = "open" /\ opened'[k] = opened[k]
           \/ codeGrant[k] = "open" /\ codeGrant'[k] = "held" /\ opened'[k] = opened[k]
           \/ codeGrant[k] = "held" /\ codeGrant'[k] = "done" /\ opened'[k] = opened[k] + 1
           \/ codeGrant[k] = "held" /\ codeGrant'[k] = "dead" /\ opened'[k] = opened[k]
    PROVE  CodeGrants!Next
<1>1. /\ codeGrant' = [i \in Codes |-> IF i \in {k} THEN codeGrant'[i] ELSE codeGrant[i]]
      /\ opened' = [i \in Codes |-> IF i \in {k} THEN opened'[i] ELSE opened[i]]
      /\ codeGrant = [i \in Codes |-> codeGrant[i]] /\ opened = [i \in Codes |-> opened[i]]
  BY SameFunctions
<1>2. codeGrant' = [codeGrant EXCEPT ![k] = codeGrant'[k]] /\ opened' = [opened EXCEPT ![k] = opened'[k]]
  BY <1>1
<1>3. opened'[k] = opened[k] => opened' = opened BY <1>1
<1>4. CASE codeGrant[k] = "none" /\ codeGrant'[k] = "open" /\ opened'[k] = opened[k]
  BY <1>2, <1>3, <1>4 DEF CodeGrants!Next, CodeGrants!Issue
<1>5. CASE codeGrant[k] = "open" /\ codeGrant'[k] = "held" /\ opened'[k] = opened[k]
  BY <1>2, <1>3, <1>5 DEF CodeGrants!Next, CodeGrants!Take
<1>6. CASE codeGrant[k] = "held" /\ codeGrant'[k] = "done" /\ opened'[k] = opened[k] + 1
  BY <1>2, <1>6 DEF CodeGrants!Next, CodeGrants!Bear
<1>7. CASE codeGrant[k] = "held" /\ codeGrant'[k] = "dead" /\ opened'[k] = opened[k]
  <2>1. codeGrant' = [i \in Codes |-> IF i \in {k} THEN "dead" ELSE codeGrant[i]] BY <1>1, <1>7
  <2>2. CodeGrants!Die({k}) BY <1>3, <1>7, <2>1 DEF CodeGrants!Die
  <2> QED BY <2>2 DEF CodeGrants!Next
<1> QED BY <1>4, <1>5, <1>6, <1>7

\* The handler holds no code, before or after.
Empty(r) == \A k \in Codes : ~Carries(r, k) /\ ~Carries(r, k)' /\ ~Opens(r, k)

LEMMA InsertStep ==
    ASSUME Coded, Inv', History, NEW r \in Requests, Moves(r), InsertCode(r)
    PROVE  Refines
<1>1. Inv /\ CodeFacts(r) /\ TablesOK /\ call[r].at = "code" /\ AtHome(call[r]) /\ CodeFacts(r)'
  BY FactsKept, Where DEF Coded, Safe, Inv, TypeOK, FlowOK, Flow, TablesOK, Statements
<1>2. Empty(r)
  <2>1. ~Leave(r) BY <1>1, Where
  <2>2. call'[r].op = call[r].op BY <1>1, <2>1, StatementKeeps DEF Keeps, Statements
  <2>3. call'[r].op \notin {"challenge", "complete"} BY <1>1, <2>2 DEF AtHome
  <2>4. call'[r].given \notin Codes /\ call[r].given \notin Codes BY <1>1, <2>2, <2>3 DEF CodeFacts
  <2> QED BY <2>4 DEF Empty, Carries, Opens
<1>3. CASE recovery' = recovery BY <1>2, <1>3, QuietStep DEF Quiet, Empty
<1>4. CASE recovery' # recovery
  <2>1. PICK k \in Fresh(recovery, "none") : recovery' = [recovery EXCEPT ![k] = "open"]
    BY <1>4, FreshRow DEF InsertCode
  <2>2. k \in Codes /\ recovery[k] = "none" BY <1>1, <2>1 DEF Fresh, TablesOK
  <2>3. \A i \in Codes \ {k} : recovery'[i] = recovery[i] BY <1>1, <2>1 DEF TablesOK
  <2>4. recovery'[k] = "open" BY <1>1, <2>1, <2>2 DEF TablesOK
  <2>5. \A i \in Codes \ {k} : codeGrant'[i] = codeGrant[i] /\ opened'[i] = opened[i] /\ CodeState(i)'
    BY <1>2, <2>3, Untouched DEF Empty
  <2>6. opened'[k] = opened[k] BY <1>1, <1>2, <2>2, OpenedIs DEF Moves, Empty
  <2>7. \A q \in Requests : Carries(q, k)' <=> Carries(q, k) BY <1>2, <2>2 DEF Moves, Carries, Empty
  <2>8. CodeState(k)'
    <3>1. CodeState(k) BY <2>2 DEF Coded
    <3> QED BY <2>2, <2>4, <2>6, <2>7, <3>1 DEF CodeState
  <2>9. codeGrant[k] = "none" /\ codeGrant'[k] = "open" BY <2>2, <2>4, GrantIs
  <2>10. CodeGrants!Next BY <1>1, <2>2, <2>5, <2>6, <2>9, OneGrant
  <2> QED BY <2>5, <2>8, <2>10 DEF Refines
<1> QED BY <1>3, <1>4

LEMMA WipeStep ==
    ASSUME Coded, Inv', History, NEW r \in Requests, Moves(r), WipeCodes(r) \/ RemoveFactors(r)
    PROVE  Refines
<1>1. Inv /\ TablesOK BY DEF Coded, Safe, Inv, TypeOK, TablesOK
<1>2. Empty(r)
  <2>1. call[r].at \in {"wipe", "unfactor"} BY Where
  <2>2. call'[r].at \in {"code", "mark"} BY <1>1, GotoAt DEF WipeCodes, RemoveFactors
  <2> QED BY <2>1, <2>2 DEF Empty, Carries, Opens
<1>3. \A k \in Codes : recovery'[k] = recovery[k] \/ (recovery[k] # "none" /\ recovery'[k] = "gone")
  BY <1>1 DEF WipeCodes, RemoveFactors, TablesOK
<1> DEFINE G == {k \in Codes : recovery[k] = "open" /\ recovery'[k] = "gone"}
<1>4. ASSUME NEW k \in Codes \ G
      PROVE  codeGrant'[k] = codeGrant[k] /\ opened'[k] = opened[k] /\ CodeState(k)'
  <2>1. recovery[k] \in {"none", "open", "used", "gone"} BY <1>1 DEF TablesOK
  <2>2. recovery'[k] = recovery[k] \/ (recovery[k] \in {"used", "gone"} /\ recovery'[k] = "gone")
    BY <1>3, <2>1
  <2> QED BY <1>2, <2>2, Untouched DEF Empty
<1>5. ASSUME NEW k \in G
      PROVE  /\ codeGrant[k] = "open" /\ codeGrant'[k] = "dead"
             /\ opened'[k] = opened[k] /\ CodeState(k)'
  <2>1. opened'[k] = opened[k] BY <1>1, <1>2, OpenedIs DEF Moves, Empty
  <2>2. \A q \in Requests : Carries(q, k)' <=> Carries(q, k) BY <1>2 DEF Moves, Carries, Empty
  <2>3. CodeState(k) BY DEF Coded
  <2>4. opened[k] = 0 /\ \A q \in Requests : ~Carries(q, k) BY <2>3 DEF CodeState
  <2>5. CodeState(k)' BY <2>1, <2>2, <2>4 DEF CodeState
  <2> QED BY <2>1, <2>2, <2>4, <2>5, GrantIs
<1>6. CodeGrants!Die(G)
  <2>1. \A k \in Codes \ G : codeGrant'[k] = codeGrant[k] /\ opened'[k] = opened[k] BY <1>4
  <2>2. /\ codeGrant' = [k \in Codes |-> IF k \in G THEN codeGrant'[k] ELSE codeGrant[k]]
        /\ opened' = [k \in Codes |-> IF k \in G THEN opened'[k] ELSE opened[k]]
        /\ opened = [k \in Codes |-> opened[k]]
    BY <1>1, <2>1, SameFunctions
  <2>3. codeGrant' = [k \in Codes |-> IF k \in G THEN "dead" ELSE codeGrant[k]] BY <1>5, <2>2
  <2>4. opened' = opened BY <1>5, <2>2
  <2> QED BY <1>5, <2>3, <2>4 DEF CodeGrants!Die
<1> QED BY <1>4, <1>5, <1>6 DEF Refines, CodeGrants!Next

LEMMA RecoverStep ==
    ASSUME Coded, Inv', History, NEW r \in Requests, Moves(r), Recover(r)
    PROVE  Refines
<1>1. Inv /\ CodeFacts(r) /\ TablesOK /\ call[r].at = "recover" /\ call[r] \in Call
  BY Where DEF Coded, Safe, Inv, TypeOK, TablesOK
<1>2. CASE ~(call[r].given \in Codes /\ recovery[call[r].given] = "open")
  <2>1. call'[r].at = "refused" /\ recovery' = recovery BY <1>1, <1>2, GotoAt DEF Recover
  <2> QED BY <1>1, <2>1, QuietStep DEF Quiet, Carries, Opens
<1>3. ASSUME NEW k \in Codes, k = call[r].given, recovery[k] = "open" PROVE Refines
  <2>1. Goto(r, "unpend") /\ recovery' = [recovery EXCEPT ![k] = "used"] BY <1>3 DEF Recover
  <2>2. call'[r].at = "unpend" /\ call'[r].given = k
    <3>1. [call[r] EXCEPT !.at = "unpend"].given = call[r].given /\ [call[r] EXCEPT !.at = "unpend"].at = "unpend"
      BY <1>1 DEF Call
    <3> QED BY <1>1, <1>3, <2>1, <3>1, GotoIs
  <2>3. \A i \in Codes \ {k} : recovery'[i] = recovery[i] BY <1>1, <2>1 DEF TablesOK
  <2>4. recovery'[k] = "used" BY <1>1, <1>3, <2>1 DEF TablesOK
  <2>5. \A i \in Codes \ {k} : codeGrant'[i] = codeGrant[i] /\ opened'[i] = opened[i] /\ CodeState(i)'
    BY <1>1, <1>3, <2>2, <2>3, Untouched DEF Carries, Opens
  <2>6. opened'[k] = opened[k] BY <1>1, <1>3, <2>2, OpenedIs DEF Moves, Opens
  <2>7. CodeState(k) BY <1>3 DEF Coded
  <2>8. opened[k] = 0 /\ \A q \in Requests : ~Carries(q, k) BY <1>3, <2>7 DEF CodeState
  <2>9. \A q \in Requests : Carries(q, k)' <=> q = r BY <2>2, <2>8 DEF Moves, Carries
  <2>10. CodeState(k)' BY <2>4, <2>6, <2>8, <2>9 DEF CodeState
  <2>11. codeGrant[k] = "open" /\ codeGrant'[k] = "held" BY <1>3, <2>4, <2>6, <2>8, <2>9, GrantIs
  <2>12. CodeGrants!Next BY <1>1, <1>3, <2>5, <2>6, <2>11, OneGrant
  <2> QED BY <2>5, <2>10, <2>12 DEF Refines
<1> QED BY <1>2, <1>3

LEMMA AnswerStep ==
    ASSUME Coded, Inv', History, NEW r \in Requests, Moves(r), Unpend(r) \/ OnLogin(r)
    PROVE  Refines
<1>1. Inv /\ TablesOK /\ call[r].at \in {"unpend", "hook"} /\ recovery' = recovery
  BY Where DEF Coded, Safe, Inv, TypeOK, TablesOK, Unpend, OnLogin, tables
<1>2. /\ call'[r].at \in {"refused", "ok", "hook", "revoke"}
      /\ call'[r].at # "refused" => call'[r].given = call[r].given
      /\ call'[r].at = "refused" => call'[r].given = Nil
  <2>1. ~Leave(r) /\ ~IssueReset(r) /\ ~MintProof(r) /\ Statements(r)
    BY <1>1, Where DEF Statements
  <2>2. Keeps(r) BY <1>1, <2>1, StatementKeeps
  <2>3. call'[r].at \in {"refused", "ok", "hook", "revoke"} BY <1>1, CodeWhither
  <2> QED BY <2>1, <2>2, <2>3 DEF Keeps
<1>3. Nil \notin Codes BY CredentialAssumption DEF Handed
<1>4. CASE call[r].given \notin Codes
  <2>1. call'[r].given \notin Codes BY <1>2, <1>3, <1>4
  <2> QED BY <1>1, <1>4, <2>1, QuietStep DEF Quiet, Carries, Opens
<1>5. ASSUME NEW k \in Codes, k = call[r].given PROVE Refines
  <2>1. Carries(r, k) /\ CodeState(k) BY <1>1, <1>5 DEF Carries, Coded
  <2>2. /\ opened[k] = 0 /\ recovery[k] \notin {"none", "open"}
        /\ \A q \in Requests \ {r} : ~Carries(q, k)
    BY <2>1 DEF CodeState
  <2>3. codeGrant[k] = "held" BY <1>5, <2>1, <2>2, GrantIs
  <2>4. \A i \in Codes \ {k} : codeGrant'[i] = codeGrant[i] /\ opened'[i] = opened[i] /\ CodeState(i)'
    <3>1. \A i \in Codes \ {k} : ~Carries(r, i) /\ ~Carries(r, i)' /\ ~Opens(r, i)
      BY <1>2, <1>3, <1>5 DEF Carries, Opens
    <3> QED BY <1>1, <3>1, Untouched
  <2>5. \A q \in Requests \ {r} : ~Carries(q, k)' BY <2>2 DEF Moves, Carries
  <2>6. CASE call'[r].at = "hook"
    <3>1. Carries(r, k)' /\ ~Opens(r, k) BY <1>2, <1>5, <2>6 DEF Carries, Opens
    <3>2. codeGrant'[k] = codeGrant[k] /\ opened'[k] = opened[k] /\ CodeState(k)'
      BY <1>1, <1>5, <2>1, <3>1, Untouched
    <3>3. codeGrant' = codeGrant /\ opened' = opened
      <4>1. \A i \in Codes \ {} : codeGrant'[i] = codeGrant[i] /\ opened'[i] = opened[i]
        BY <2>4, <3>2
      <4> QED BY <1>1, <4>1, SameFunctions
    <3> QED BY <2>4, <3>2, <3>3 DEF Refines, CodeGrants!vars
  <2>7. CASE call'[r].at = "ok"
    <3>1. Opens(r, k) /\ ~Carries(r, k)' BY <1>1, <1>2, <1>5, <2>7 DEF Carries, Opens
    <3>2. opened'[k] = opened[k] + 1 BY <1>1, <1>5, <3>1, OpenedIs DEF Moves
    <3>3. codeGrant'[k] = "done" BY <1>1, <1>5, <2>2, <3>2, GrantIs
    <3>4. CodeState(k)' BY <1>1, <2>2, <2>5, <3>1 DEF CodeState
    <3>5. CodeGrants!Next BY <1>1, <1>5, <2>3, <2>4, <3>2, <3>3, OneGrant
    <3> QED BY <2>4, <3>4, <3>5 DEF Refines
  <2>8. CASE call'[r].at \in {"refused", "revoke"}
    <3>1. ~Opens(r, k) /\ ~Carries(r, k)' BY <2>8 DEF Carries, Opens
    <3>2. opened'[k] = opened[k] BY <1>1, <1>5, <3>1, OpenedIs DEF Moves
    <3>3. codeGrant'[k] = "dead" BY <1>1, <1>5, <2>2, <2>5, <3>1, <3>2, GrantIs
    <3>4. CodeState(k)' BY <1>1, <2>2, <2>5, <3>1 DEF CodeState
    <3>5. CodeGrants!Next BY <1>1, <1>5, <2>3, <2>4, <3>2, <3>3, OneGrant
    <3> QED BY <2>4, <3>4, <3>5 DEF Refines
  <2> QED BY <1>2, <2>6, <2>7, <2>8
<1> QED BY <1>4, <1>5

-----------------------------------------------------------------------------
\* Nobody moves: the codes are left alone.
LEMMA CodesAlone ==
    ASSUME Coded, History, call' = call, recovery' = recovery
    PROVE  Refines /\ \A r \in Requests : CodeFacts(r)'
<1>1. opened' = opened
  <2>1. \A k \in Codes : {r \in Requests :
           call'[r].at = "ok" /\ call[r].at # "ok" /\ call'[r].given = k} = {}
    OBVIOUS
  <2>2. opened' = [k \in Codes |-> opened[k] + 0] BY <2>1, FS_EmptySet DEF History
  <2> QED BY <2>2 DEF Coded, Safe, Inv, TypeOK
<1>2. codeGrant' = codeGrant BY <1>1 DEF codeGrant, Carried
<1>3. \A k \in Codes : CodeState(k)' BY <1>1 DEF Coded, CodeState, Carries
<1>4. \A r \in Requests : CodeFacts(r)' BY DEF Coded, CodeFacts
<1> QED BY <1>1, <1>2, <1>3, <1>4 DEF Refines, CodeGrants!vars

LEMMA CodedNext ==
    ASSUME Coded, [Next]_vars
    PROVE  Coded' /\ [CodeGrants!Next]_(CodeGrants!vars)
<1>1. Safe /\ Safe' /\ Inv /\ Inv' BY SafeNext DEF Coded, Safe
<1> SUFFICES (\A r \in Requests : CodeFacts(r)') /\ Refines BY <1>1 DEF Coded, Refines
<1>2. CASE UNCHANGED vars
  <2>1. UNCHANGED <<call, recovery, opened>> BY <1>2 DEF vars, tables, history
  <2>2. codeGrant' = codeGrant BY <2>1 DEF codeGrant, Carried
  <2> QED BY <2>1, <2>2 DEF Coded, CodeFacts, CodeState, Carries, Refines, CodeGrants!vars
<1>3. CASE Next
  <2>1. History BY <1>3 DEF Next
  <2>2. CASE Others
    <3>1. call' = call BY <1>1, <2>2, OthersGrow
    <3>2. recovery' = recovery BY <2>2 DEF Others, SetStatus, Age, Lapse
    <3> QED BY <1>1, <2>1, <3>1, <3>2, CodesAlone
  <2>3. ASSUME NEW r \in Requests, Calls(r) PROVE (\A q \in Requests : CodeFacts(q)') /\ Refines
    <3>1. Arrived(r) BY <1>1, <2>3, CallsArrive
    <3>2. Moves(r) /\ recovery' = recovery BY <3>1 DEF Arrived, Moves, tables
    <3>3. Quiet(r)
      <4>1. call[r].at = "idle" /\ call'[r].at \notin {"ok", "unpend", "hook"} BY <3>1 DEF Arrived
      <4> QED BY <3>2, <4>1 DEF Quiet, Carries, Opens
    <3>4. CodeFacts(r)' BY <3>1 DEF Arrived, CodeFacts
    <3>5. \A q \in Requests \ {r} : CodeFacts(q)' BY <3>2 DEF Moves, Coded, CodeFacts
    <3> QED BY <1>1, <2>1, <3>2, <3>3, <3>4, <3>5, QuietStep
  <2>4. ASSUME NEW r \in Requests, Statements(r) PROVE (\A q \in Requests : CodeFacts(q)') /\ Refines
    <3>1. Moves(r) BY <1>1, <2>4, LeaveIs, StatementKeeps DEF Keeps, Moves
    <3>2. CodeFacts(r)' BY <1>1, <2>4, FactsKept
    <3>3. \A q \in Requests \ {r} : CodeFacts(q)' BY <3>1 DEF Moves, Coded, CodeFacts
    <3>4. Refines
      BY <1>1, <2>1, <2>4, <3>1, QuietOrNot, QuietStep, InsertStep, WipeStep, RecoverStep, AnswerStep
    <3> QED BY <3>2, <3>3, <3>4
  <2> QED BY <1>3, <2>2, <2>3, <2>4 DEF Next
<1> QED BY <1>2, <1>3

LEMMA CodedInit == Init => Coded /\ CodeGrants!Init
<1> SUFFICES ASSUME Init PROVE Coded /\ CodeGrants!Init OBVIOUS
<1>1. Safe BY SafeInit
<1>2. \A r \in Requests : call[r] = Idle BY DEF Init
<1>3. /\ \A k \in Codes : recovery[k] = "none" /\ opened[k] = 0
      /\ recovery = [k \in Codes |-> "none"] /\ opened = [k \in Codes |-> 0]
  BY DEF Init
<1>4. \A r \in Requests : CodeFacts(r) BY <1>2, IdleOK, GivenIsNoCode DEF CodeFacts, Idle
<1>5. \A r \in Requests, k \in Codes : ~Carries(r, k) BY <1>2, IdleOK DEF Carries
<1>6. \A k \in Codes : CodeState(k) BY <1>3, <1>5 DEF CodeState
<1>7. codeGrant = [k \in Codes |-> "none"] BY <1>3 DEF codeGrant
<1>8. CodeGrants!Init BY <1>3, <1>7 DEF CodeGrants!Init
<1> QED BY <1>1, <1>4, <1>6, <1>8 DEF Coded

\* Credentials implements OneTimeGrant for the recovery codes (CodeIsOneTime): a code
\* passes one challenge at most, and none once a new set, a take-over or a failed
\* statement has taken it, for every number of handlers, codes and sessions.
THEOREM CodesAreOneTime == Spec => CodeIsOneTime
<1>1. Init => CodeGrants!Init BY CodedInit
<1>2. Spec => []Coded BY CodedInit, CodedNext, PTL DEF Spec
<1>3. Coded /\ [Next]_vars => [CodeGrants!Next]_(CodeGrants!vars) BY CodedNext
<1>4. Spec => CodeGrants!Spec BY <1>1, <1>2, <1>3, PTL DEF Spec, CodeGrants!Spec
<1> QED BY <1>4 DEF CodeIsOneTime
-----------------------------------------------------------------------------
\* The codes an enrolment shows.

\* An enrolment that no other renewal has overlapped so far.
Single(r) == call[r].op \in {"enrol", "hostEnrol"} /\ call[r].at # "refused" /\ since[r].alone

\* Codes are known only to those who were shown them, and only these are presented.
Alone(r) == Single(r) => \A q \in Requests \ {r} : call[q].op \notin Renewing
Offered(r) == call[r].given \in Codes => call[r].given \in held
Written(r) == \A k \in call[r].codes : recovery[k] # "none"
HeldWritten == \A k \in held \cap Codes : recovery[k] # "none"

\* What it has written is open and nobody's yet, and what was open before is gone.
Shows(r) ==
    Single(r) =>
        /\ call[r].at \in {"factor", "wipe"} => call[r].codes = {}
        /\ \A k \in call[r].codes : recovery[k] = "open" /\ k \notin held
        /\ "wipe" \notin config.faults /\ (call[r].at = "code" \/ call[r].codes # {}) =>
              \A k \in Codes \ call[r].codes : recovery[k] # "open"

Renewed ==
    /\ Coded /\ HeldWritten
    /\ \A r \in Requests : Alone(r) /\ Offered(r) /\ Written(r) /\ Shows(r)

-----------------------------------------------------------------------------
\* Whoever is alone after a step was so before, and is now.
LEMMA AloneIs ==
    ASSUME Inv', History, NEW r \in Requests, Single(r)'
    PROVE  since[r].alone /\ \A q \in Requests \ {r} : call'[q].op \notin Renewing
<1>1. call'[r].at \notin {"idle", "refused"} BY DEF Single, Inv, FlowOK, Flow, AtHome
<1>2. since'[r] = Gather(r) BY DEF History
<1>3. since'[r].alone = (since[r].alone /\ (call'[r].op \in {"enrol", "hostEnrol"} =>
                            \A q \in Requests \ {r} : call'[q].op \notin Renewing))
  BY <1>1, <1>2 DEF Gather
<1> QED BY <1>3, Zenon DEF Single

LEMMA StillSingle ==
    ASSUME Inv', History, NEW q \in Requests, call'[q] = call[q], Single(q)'
    PROVE  Single(q)
BY AloneIs DEF Single

LEMMA SingleBefore ==
    ASSUME Inv, Inv', History, NEW r \in Requests, Statements(r), Single(r)'
    PROVE  Single(r) /\ ~Leave(r)
<1>1. ~Leave(r) BY LeaveIs, IdleOK DEF Single
<1>2. call[r].op = call'[r].op BY <1>1, StatementKeeps DEF Keeps
<1>3. call[r].at # "refused" BY <1>1, Where DEF Statements
<1>4. since[r].alone BY AloneIs
<1> QED BY <1>1, <1>2, <1>3, <1>4 DEF Single

\* How the rows of the codes change.
LEMMA RecoveryGoes ==
    ASSUME Inv, NEW r \in Requests, Statements(r)
    PROVE  /\ \A k \in Codes : recovery[k] # "none" => recovery'[k] # "none"
           /\ \/ recovery' = recovery
              \/ call[r].op \in Renewing
              \/ /\ call[r].given \in Codes
                 /\ recovery' = [recovery EXCEPT ![call[r].given] = "used"]
<1>1. TablesOK /\ AtHome(call[r]) BY DEF Inv, TypeOK, FlowOK, Flow, TablesOK
<1>2. CASE InsertCode(r)
  <2>1. call[r].op \in Renewing BY <1>1, <1>2, Where DEF AtHome, Renewing
  <2>2. recovery' = recovery \/ \E k : recovery' = [recovery EXCEPT ![k] = "open"]
    BY <1>2 DEF InsertCode
  <2> QED BY <1>1, <2>1, <2>2 DEF TablesOK
<1>3. CASE WipeCodes(r) \/ RemoveFactors(r)
  <2>1. call[r].op \in Renewing BY <1>1, <1>3, Where DEF AtHome, Renewing
  <2>2. \A k \in Codes : recovery[k] # "none" => recovery'[k] # "none"
    BY <1>1, <1>3 DEF WipeCodes, RemoveFactors, TablesOK
  <2> QED BY <2>1, <2>2
<1>4. CASE Recover(r) BY <1>1, <1>4 DEF Recover, TablesOK
<1>5. \/ InsertCode(r) \/ WipeCodes(r) \/ RemoveFactors(r) \/ Recover(r) \/ recovery' = recovery
  BY DEF Statements, tables, ReadUser, Match, InsertSession, Second, Pend, OnLogin, Revoke, Reload,
     CheckActive, ReadCredential, CreateCredential, UpdateHash, RevokeOthers, LookUp, IssueReset,
     CheckOwner, SpendReset, ClearProofs, MintProof, MarkVerified, Sweep, RemovePassword,
     InsertFactor, DeleteFactor, ListFactors, CheckTOTP, ConfirmFactor, Unpend, Leave
<1> QED BY <1>2, <1>3, <1>4, <1>5

\* Codes are handed out by the enrolment that has written them.
LEMMA HandingCodes ==
    ASSUME Inv, NEW r \in Requests, Statements(r)
    PROVE  /\ held \subseteq held'
           /\ \A k \in Codes : k \in held' \ held =>
                 Leave(r) /\ call[r].op \in Renewing /\ k \in call[r].codes
<1>1. Flow(call[r]) /\ call[r] \in Call BY DEF Inv, TypeOK, FlowOK
<1>2. CASE Leave(r)
  <2>1. held' = held \cup Shown(call[r]) BY <1>2 DEF Leave
  <2>2. ASSUME NEW k \in Codes, k \in Shown(call[r])
        PROVE  call[r].op \in Renewing /\ k \in call[r].codes
    <3> DEFINE c == call[r]
    <3>1. c.at = "ok" BY <2>2 DEF Shown
    <3>2. CASE c.op \in {"login", "hostLogin", "takeOver"}
      <4>1. Shown(c) = {c.s} BY <3>1, <3>2 DEF Shown
      <4>2. c.s \in SessionIds BY <1>1, <3>1, <3>2 DEF Flow, Knows, SignsIn
      <4> QED BY <2>2, <4>1, <4>2, CredentialAssumption
    <3>3. CASE c.op \in {"ask", "resend"}
      <4>1. Shown(c) = {c.given} BY <3>1, <3>3 DEF Shown
      <4> QED BY <1>1, <2>2, <3>1, <3>3, <4>1, CredentialAssumption DEF Flow, Knows
    <3>4. CASE c.op \in {"enrol", "hostEnrol"}
      <4>1. Shown(c) = {c.factor} \cup c.codes BY <3>1, <3>4 DEF Shown
      <4>2. c.factor \in Factors BY <1>1, <3>1, <3>4 DEF Flow, Knows
      <4> QED BY <2>2, <3>4, <4>1, <4>2, CredentialAssumption DEF Renewing
    <3>5. CASE /\ c.op \notin {"login", "hostLogin", "takeOver"}
               /\ c.op \notin {"ask", "resend"} /\ c.op \notin {"enrol", "hostEnrol"}
      <4>1. Shown(c) = {} BY <3>1, <3>5 DEF Shown
      <4> QED BY <2>2, <4>1
    <3> QED BY <3>2, <3>3, <3>4, <3>5
  <2> QED BY <1>2, <2>1, <2>2
<1>3. ~Leave(r) => held' = held
  BY DEF Statements, ReadUser, Match, InsertSession, Second, Pend, OnLogin, Revoke, Reload,
     CheckActive, ReadCredential, CreateCredential, UpdateHash, RevokeOthers, LookUp, IssueReset,
     CheckOwner, SpendReset, ClearProofs, MintProof, MarkVerified, Sweep, RemovePassword,
     RemoveFactors, InsertFactor, WipeCodes, InsertCode, DeleteFactor, ListFactors, CheckTOTP,
     ConfirmFactor, Recover, Unpend
<1> QED BY <1>2, <1>3

\* What an insertion makes of the codes the handler will show.
LEMMA InsertedCode ==
    ASSUME Inv, NEW r \in Requests, InsertCode(r)
    PROVE  /\ call'[r].at \in {"ok", "refused", "code"}
           /\ \/ recovery' = recovery /\ call'[r].codes = {} /\ call'[r].at # "code"
              \/ \E k \in Codes : /\ recovery[k] = "none" /\ recovery' = [recovery EXCEPT ![k] = "open"]
                                  /\ call'[r].codes = call[r].codes \cup {k}
<1>1. call[r] \in Call /\ TablesOK BY DEF Inv, TypeOK, TablesOK
<1> DEFINE c == call[r]
<1>2. CASE /\ \E point \in {"ok", "refused"} : Become(r, [c EXCEPT !.codes = {}, !.at = point])
           /\ recovery' = recovery
  <2>1. PICK point \in {"ok", "refused"} : Become(r, [c EXCEPT !.codes = {}, !.at = point])
    BY <1>2
  <2> DEFINE d == [c EXCEPT !.codes = {}, !.at = point]
  <2>2. d.codes = {} /\ d.at = point BY <1>1 DEF Call
  <2>3. Become(r, d) BY <2>1
  <2> HIDE DEF d
  <2>4. call'[r].at \in {"ok", "refused"} BY <2>1, <2>2, <2>3, BecomeAt
  <2>5. call'[r].codes = {}
    <3>1. Idle.codes = {} /\ [Idle EXCEPT !.at = "refused", !.op = d.op].codes = {} BY DEF Idle
    <3> QED BY <2>2, <2>3, <3>1, BecomeIs
  <2> QED BY <1>2, <2>4, <2>5
<1>3. CASE \E k \in Fresh(recovery, "none"), point \in {"ok", "code"} :
              /\ recovery' = [recovery EXCEPT ![k] = "open"]
              /\ Become(r, [c EXCEPT !.codes = @ \cup {k}, !.at = point])
  <2>1. PICK k \in Fresh(recovery, "none"), point \in {"ok", "code"} :
           /\ recovery' = [recovery EXCEPT ![k] = "open"]
           /\ Become(r, [c EXCEPT !.codes = @ \cup {k}, !.at = point])
    BY <1>3
  <2> DEFINE d == [c EXCEPT !.codes = @ \cup {k}, !.at = point]
  <2>2. d.codes = c.codes \cup {k} /\ d.at = point BY <1>1 DEF Call
  <2>3. Become(r, d) BY <2>1
  <2> HIDE DEF d
  <2>4. call'[r].codes = c.codes \cup {k} BY <2>1, <2>2, <2>3, BecomeIs
  <2>5. call'[r].at \in {"ok", "code"} BY <2>1, <2>2, <2>3, BecomeAt
  <2>6. k \in Codes /\ recovery[k] = "none" BY <1>1 DEF Fresh, TablesOK
  <2> QED BY <2>1, <2>4, <2>5, <2>6
<1>4. \/ /\ \E point \in {"ok", "refused"} : Become(r, [c EXCEPT !.codes = {}, !.at = point])
         /\ recovery' = recovery
      \/ \E k \in Fresh(recovery, "none"), point \in {"ok", "code"} :
            /\ recovery' = [recovery EXCEPT ![k] = "open"]
            /\ Become(r, [c EXCEPT !.codes = @ \cup {k}, !.at = point])
  BY FreshRow DEF InsertCode
<1> QED BY <1>2, <1>3, <1>4

-----------------------------------------------------------------------------
\* A handler that does not move while no code is written or handed out.
LEMMA ShowsQuiet ==
    ASSUME Renewed, Inv', History, UNCHANGED <<config, recovery>>, NEW q \in Requests,
           call'[q] = call[q], held \subseteq held', held' \cap Codes = held \cap Codes
    PROVE  Offered(q)' /\ Written(q)' /\ Shows(q)'
<1>1. Offered(q) /\ Written(q) /\ Shows(q) /\ call[q] \in Call
  BY DEF Renewed, Coded, Safe, Inv, TypeOK
<1>2. Offered(q)' BY <1>1 DEF Offered
<1>3. Written(q)' BY <1>1 DEF Written
<1>4. ASSUME Single(q)' PROVE Shows(q)'
  <2>1. Single(q) BY <1>4, StillSingle
  <2>2. call[q].codes \subseteq Codes BY <1>1 DEF Call
  <2> QED BY <1>1, <2>1, <2>2 DEF Shows
<1> QED BY <1>2, <1>3, <1>4 DEF Shows

\* What the others keep of theirs when r takes a step.
LEMMA ShowsAside ==
    ASSUME Renewed, Inv', History, UNCHANGED config, NEW r \in Requests, Statements(r),
           NEW q \in Requests \ {r}
    PROVE  Offered(q)' /\ Written(q)' /\ Shows(q)'
<1>1. /\ Inv /\ Offered(q) /\ Offered(r) /\ Written(q) /\ Shows(q) /\ Alone(q)
      /\ call[q] \in Call /\ TablesOK
  BY DEF Renewed, Coded, Safe, Inv, TypeOK, TablesOK
<1>2. call'[q] = call[q] BY <1>1, LeaveIs, StatementKeeps DEF Keeps
<1>3. call[q].codes \subseteq Codes BY <1>1 DEF Call
<1>4. Offered(q)' BY <1>1, <1>2, HandingCodes DEF Offered
<1>5. Written(q)' BY <1>1, <1>2, <1>3, RecoveryGoes DEF Written
<1>6. ASSUME Single(q)' PROVE Shows(q)'
  <2>1. Single(q) BY <1>2, <1>6, StillSingle
  <2>2. call[r].op \notin Renewing BY <1>1, <2>1 DEF Alone
  <2>3. \A k \in Codes : k \in held' => k \in held BY <1>1, <2>2, HandingCodes
  <2>4. \/ recovery' = recovery
        \/ call[r].given \in held /\ recovery' = [recovery EXCEPT ![call[r].given] = "used"]
    BY <1>1, <2>2, RecoveryGoes DEF Offered
  <2>5. \A k \in Codes : /\ k \notin held => recovery'[k] = recovery[k]
                         /\ recovery[k] # "open" => recovery'[k] # "open"
    BY <1>1, <2>4 DEF TablesOK
  <2> QED BY <1>1, <1>2, <1>3, <2>1, <2>3, <2>5 DEF Shows
<1> QED BY <1>4, <1>5, <1>6 DEF Shows

\* What the handler knows itself.
LEMMA OwnCodes ==
    ASSUME Renewed, Inv', NEW r \in Requests, Statements(r)
    PROVE  Offered(r)' /\ Written(r)'
<1>1. /\ Inv /\ Offered(r) /\ Written(r) /\ CodeFacts(r) /\ call[r] \in Call /\ TablesOK
  BY DEF Renewed, Coded, Safe, Inv, TypeOK, TablesOK
<1>2. Offered(r)' BY <1>1, GivenKept, HandingCodes DEF Offered
<1>3. Written(r)'
  <2>1. call[r].codes \subseteq Codes BY <1>1 DEF Call
  <2>2. CASE InsertCode(r)
    <3>1. CASE call'[r].codes = {} BY <3>1 DEF Written
    <3>2. CASE call'[r].codes # {}
      <4>1. PICK k \in Codes : /\ recovery' = [recovery EXCEPT ![k] = "open"]
                               /\ call'[r].codes = call[r].codes \cup {k}
        BY <1>1, <2>2, <3>2, InsertedCode
      <4> QED BY <1>1, <2>1, <4>1 DEF Written, TablesOK
    <3> QED BY <3>1, <3>2
  <2>3. CASE ~InsertCode(r)
    <3>1. call'[r].codes = call[r].codes \/ call'[r].codes = {}
      BY <1>1, <2>3, LeaveIs, StatementKeeps DEF Keeps, Idle
    <3> QED BY <1>1, <2>1, <3>1, RecoveryGoes DEF Written
  <2> QED BY <2>2, <2>3
<1> QED BY <1>2, <1>3

LEMMA OwnShows ==
    ASSUME Renewed, Inv', History, UNCHANGED config, NEW r \in Requests, Statements(r)
    PROVE  Shows(r)'
<1>1. /\ Inv /\ Shows(r) /\ HeldWritten /\ call[r] \in Call /\ TablesOK /\ AtHome(call[r])
  BY DEF Renewed, Coded, Safe, Inv, TypeOK, FlowOK, Flow, TablesOK
<1> SUFFICES ASSUME Single(r)' PROVE Shows(r)' BY DEF Shows
<1>2. Single(r) /\ ~Leave(r) BY <1>1, SingleBefore
<1>3. Keeps(r) /\ call'[r].at # "refused" BY <1>1, <1>2, StatementKeeps DEF Single
<1>4. \A k \in Codes : k \in held' => k \in held BY <1>1, <1>2, HandingCodes
<1>5. call[r].codes \subseteq Codes BY <1>1 DEF Call
<1>6. CASE InsertFactor(r)
  <2>1. recovery' = recovery /\ call'[r].codes = {} /\ call'[r].at = "wipe"
    <3>1. call[r].codes = {} BY <1>1, <1>2, <1>6, Where DEF Shows
    <3>2. ~InsertCode(r) BY <1>6, Where
    <3>3. call'[r].codes = {} BY <1>3, <3>1, <3>2 DEF Keeps
    <3>4. PICK f : Become(r, [call[r] EXCEPT !.at = "wipe", !.factor = f]) BY <1>6 DEF InsertFactor
    <3>5. [call[r] EXCEPT !.at = "wipe", !.factor = f].at = "wipe" BY <1>1 DEF Call
    <3>6. call'[r].at = "wipe" BY <1>1, <3>4, <3>5, BecomeAt
    <3> QED BY <1>6, <3>3, <3>6 DEF InsertFactor
  <2> QED BY <2>1 DEF Shows
<1>7. CASE WipeCodes(r)
  <2>1. call'[r].codes = {}
    <3>1. call[r].codes = {} BY <1>1, <1>2, <1>7, Where DEF Shows
    <3>2. ~InsertCode(r) BY <1>7, Where
    <3> QED BY <1>3, <3>1, <3>2 DEF Keeps
  <2>2. call'[r].at = "code" BY <1>1, <1>7, GotoAt DEF WipeCodes
  <2>3. "wipe" \notin config.faults => \A k \in Codes : recovery'[k] # "open"
    BY <1>7 DEF WipeCodes, May
  <2> QED BY <2>1, <2>2, <2>3 DEF Shows
<1>8. CASE InsertCode(r)
  <2>1. call'[r].at \notin {"factor", "wipe"} BY <1>1, <1>8, InsertedCode
  <2>2. CASE recovery' = recovery /\ call'[r].codes = {} /\ call'[r].at # "code"
    BY <2>1, <2>2 DEF Shows
  <2>3. ASSUME NEW k \in Codes, recovery[k] = "none", recovery' = [recovery EXCEPT ![k] = "open"],
               call'[r].codes = call[r].codes \cup {k}
        PROVE  Shows(r)'
    <3>1. /\ \A i \in call[r].codes : recovery[i] = "open" /\ i \notin held
          /\ "wipe" \notin config.faults => \A i \in Codes \ call[r].codes : recovery[i] # "open"
      BY <1>1, <1>2, <1>8, Where DEF Shows
    <3>2. k \notin held BY <1>1, <2>3 DEF HeldWritten
    <3>3. \A i \in call'[r].codes : recovery'[i] = "open" /\ i \notin held'
      BY <1>1, <1>4, <1>5, <2>3, <3>1, <3>2 DEF TablesOK
    <3>4. "wipe" \notin config.faults => \A i \in Codes \ call'[r].codes : recovery'[i] # "open"
      BY <1>1, <2>3, <3>1 DEF TablesOK
    <3> QED BY <2>1, <3>3, <3>4 DEF Shows
  <2> QED BY <1>1, <1>8, <2>2, <2>3, InsertedCode
<1> QED BY <1>1, <1>2, <1>6, <1>7, <1>8, Where DEF Statements, AtHome, Single

LEMMA RenewedNext == ASSUME Renewed, [Next]_vars PROVE Renewed'
<1>1. Coded /\ Coded' /\ Inv /\ Inv' BY CodedNext DEF Renewed, Coded, Safe
<1>2. CASE UNCHANGED vars
  <2>1. UNCHANGED <<config, recovery, held, call, since>> BY <1>2 DEF vars, tables, history
  <2> QED BY <1>1, <2>1 DEF Renewed, HeldWritten, Alone, Offered, Written, Shows, Single
<1>3. CASE Next
  <2>1. History /\ UNCHANGED config BY <1>3 DEF Next
  <2>2. \A r \in Requests : Alone(r)' BY <1>1, <2>1, AloneIs DEF Alone
  <2>3. CASE Others
    <3>1. UNCHANGED <<call, held, recovery>> BY <1>1, <2>3, OthersGrow DEF Others, SetStatus, Age, Lapse
    <3>2. \A q \in Requests : Offered(q)' /\ Written(q)' /\ Shows(q)' BY <1>1, <2>1, <3>1, ShowsQuiet
    <3>3. HeldWritten' BY <3>1 DEF Renewed, HeldWritten
    <3> QED BY <1>1, <2>2, <3>2, <3>3 DEF Renewed
  <2>4. ASSUME NEW r \in Requests, Calls(r) PROVE Renewed'
    <3>1. Arrived(r) BY <1>1, <2>4, CallsArrive
    <3>2. UNCHANGED <<held, recovery>> /\ \A q \in Requests \ {r} : call'[q] = call[q]
      BY <3>1 DEF Arrived, tables
    <3>3. \A q \in Requests \ {r} : Offered(q)' /\ Written(q)' /\ Shows(q)'
      BY <1>1, <2>1, <3>2, ShowsQuiet
    <3>4. call'[r].codes = {} /\ call'[r].at # "code" /\ (call'[r].given \in Codes => call'[r].given \in held)
      BY <3>1 DEF Arrived
    <3>5. Offered(r)' /\ Written(r)' /\ Shows(r)' BY <3>2, <3>4 DEF Offered, Written, Shows
    <3>6. HeldWritten' BY <3>2 DEF Renewed, HeldWritten
    <3> QED BY <1>1, <2>2, <3>3, <3>5, <3>6 DEF Renewed
  <2>5. ASSUME NEW r \in Requests, Statements(r) PROVE Renewed'
    <3>1. \A q \in Requests \ {r} : Offered(q)' /\ Written(q)' /\ Shows(q)'
      BY <1>1, <2>1, <2>5, ShowsAside
    <3>2. Offered(r)' /\ Written(r)' /\ Shows(r)' BY <1>1, <2>1, <2>5, OwnCodes, OwnShows
    <3>3. HeldWritten'
      <4>1. ASSUME NEW k \in Codes, k \in held' PROVE recovery[k] # "none"
        BY <1>1, <2>5, <4>1, HandingCodes DEF Renewed, HeldWritten, Written
      <4> QED BY <1>1, <2>5, <4>1, RecoveryGoes DEF HeldWritten
    <3> QED BY <1>1, <2>2, <3>1, <3>2, <3>3 DEF Renewed
  <2> QED BY <1>3, <2>3, <2>4, <2>5 DEF Next
<1> QED BY <1>2, <1>3

LEMMA RenewedInit == Init => Renewed
<1> SUFFICES ASSUME Init PROVE Renewed OBVIOUS
<1>1. Coded BY CodedInit
<1>2. \A r \in Requests : call[r] = Idle BY DEF Init
<1>3. \A r \in Requests : Alone(r) /\ Offered(r) /\ Written(r) /\ Shows(r)
  <2>1. Idle.codes = {} /\ Idle.given \notin Codes BY GivenIsNoCode DEF Idle
  <2> QED BY <1>2, <2>1, IdleOK DEF Alone, Offered, Written, Shows, Single
<1>4. HeldWritten
  <2> DEFINE empty == [s \in SessionIds |-> NoSessionRow]
             none == [f \in Factors |-> "none"]
             s0 == Minted(empty, NoSessionRow)
             f0 == Minted(none, "none")
  <2>1. s0 \in SessionIds
    <3>1. PICK s \in SessionIds : empty[s] = NoSessionRow BY CredentialAssumption
    <3> QED BY <3>1, MintedFresh
  <2>2. f0 \in Factors
    <3>1. PICK f \in Factors : none[f] = "none" BY CredentialAssumption
    <3> QED BY <3>1, MintedFresh
  <2>3. held = {s0} \cup (IF config.factored THEN {f0} ELSE {}) BY DEF Init
  <2> HIDE DEF s0, f0
  <2> QED BY <2>1, <2>2, <2>3, CredentialAssumption DEF HeldWritten
<1> QED BY <1>1, <1>3, <1>4 DEF Renewed

\* The recovery codes an enrolment shows are the ones that work (ShownCodesWork): when
\* it is answered all of them are open, and no older one is unless the deletion of
\* those was lost, however many logins, challenges and host calls raced with it, as
\* long as no other enrolment or take-over overlapped it.
THEOREM CodesWork == Spec => []ShownCodesWork
<1>1. Renewed => ShownCodesWork BY DEF Renewed, Shows, Single, ShownCodesWork
<1>2. Spec => []Renewed BY RenewedInit, RenewedNext, PTL DEF Spec
<1> QED BY <1>1, <1>2, PTL
=============================================================================
