---------------------------- MODULE SessionsTokens ----------------------------
(***************************************************************************)
(* Who knows which token, for every instance of Sessions: a token opens    *)
(* one session, and one that a login or a rotation has just minted is      *)
(* known to nobody else.  Hence requireSession lets a user with a second   *)
(* factor through only after the challenge; and where a client makes one   *)
(* call at a time, the cookie it keeps is current.  Then the time limits   *)
(* where rotation is off: what the gate computes from the row it read is   *)
(* what the login earned.  Last, a session that somebody was told is over  *)
(* stays over.                                                             *)
(***************************************************************************)
EXTENDS SessionsSafety

-----------------------------------------------------------------------------
\* Who knows which token.

\* A login that has inserted its session and not yet decided on the second factor.
Opening(c) == c.at \in {"factors", "pend"}

\* A handler that has minted a token it has shown to nobody yet.
Discreet(c) == Opening(c) \/ c.at \in {"insert", "rotate"}

\* That token is in no other handler, at no client, and in no row but the one the
\* login has inserted; no other handler knows that row.
Secret(r) ==
    LET c == call[r]
    IN  /\ c.out \in 1..lastToken /\ c.token # c.out
        /\ \A q \in Requests \ {r} : call[q].token # c.out /\ call[q].out # c.out
        /\ \A k \in Clients : c.out \notin kept[k]
        /\ \A s \in SessionIds :
              row[s].user # NoUser /\ row[s].token = c.out => Opening(c) /\ s = c.s
        /\ Opening(c) => row[c.s].token = c.out
        /\ c.at # "rotate" => \A q \in Requests \ {r} : call[q].s # c.s

\* The tokens a handler carries open its own session, if any.
OpensOnly(r) ==
    \A s \in SessionIds :
        row[s].user # NoUser /\ row[s].token \in {call[r].token, call[r].out} => s = call[r].s

Carried(r) ==
    LET c == call[r]
    IN  /\ c.token <= lastToken /\ c.out <= lastToken
        /\ Discreet(c) => Secret(r)
        /\ Holding(c) \/ c.op = "again" => OpensOnly(r)
        /\ c.at = "lookup" /\ c.op # "again" => c.out = 0

TokenInv ==
    /\ \A s \in SessionIds : row[s].user # NoUser => row[s].token \in 1..lastToken
    /\ \A s, z \in SessionIds :
          row[s].user # NoUser /\ row[z].user # NoUser /\ row[s].token = row[z].token => s = z
    /\ \A k \in Clients : kept[k] \subseteq 0..lastToken
    /\ \A r \in Requests : Carried(r)

\* What a handler carries after each way to go on.
LEMMA OkTokens ==
  ASSUME NEW c \in Call PROVE Ok(c).token = c.token /\ Ok(c).out = c.out
  BY DEF Ok, Call

LEMMA RefusalTokens ==
  ASSUME NEW c \in Call
  PROVE  /\ Refusal(c).token = c.token
         /\ Refusal(c).out = IF c.op = "login" THEN 0 ELSE c.out
<1>1. \A o \in Tokens :
        /\ [c EXCEPT !.at = "refused", !.snap = Blank, !.out = o].token = c.token
        /\ [c EXCEPT !.at = "refused", !.snap = Blank, !.out = o].out = o
  BY DEF Call
<1>2. 0 \in Tokens /\ c.out \in Tokens
  BY BoundAssumption DEF Call, Tokens
<1>3. CASE c.op = "login"
  BY <1>1, <1>2, <1>3 DEF Refusal
<1>4. CASE c.op # "login"
  BY <1>1, <1>2, <1>4 DEF Refusal
<1>5. QED BY <1>3, <1>4

LEMMA WorkTokens ==
  ASSUME NEW c \in Call, c.op \in Gated
  PROVE  /\ Work(c).out = c.out
         /\ Work(c).token = IF c.op = "full" /\ c.out # 0 THEN c.out ELSE c.token
<1>1. CASE c.op = "full"
  BY <1>1 DEF Work, Call
<1>2. CASE c.op = "revokeOther"
  BY <1>2 DEF Work, Call
<1>3. CASE c.op = "delete"
  BY <1>3 DEF Work, Call
<1>4. CASE c.op = "request"
  BY <1>4, OkTokens DEF Work
<1>5. QED BY <1>1, <1>2, <1>3, <1>4 DEF Gated

\* The admission of a pending session is a refusal, but for the challenge.
LEMMA AdmittedCarries ==
  ASSUME NEW c \in Call, c.op \in ByToken \cup {"again"}
  PROVE  /\ Admitted(c).at = "rotate" =>
              Admitted(c).token = c.token /\ Admitted(c).out = lastToken + 1
         /\ Admitted(c).at # "rotate" =>
              /\ Admitted(c).out = c.out
              /\ Admitted(c).token =
                   IF Admitted(c).at = "lookup" /\ c.out # 0 THEN c.out ELSE c.token
         /\ c.op \in Gated /\ Admitted(c).at # "refused" => ~c.snap.mfaPending
<1>1. CASE c.op \in {"logout", "logoutAll"}
  <2>1. \A p \in {"revoke", "revokeAll"} : /\ [c EXCEPT !.at = p].token = c.token
                                           /\ [c EXCEPT !.at = p].out = c.out
                                           /\ [c EXCEPT !.at = p].at = p
    BY DEF Call
  <2>2. QED BY <1>1, <2>1 DEF Admitted, Gated
<1>2. CASE c.op \in {"again", "direct"}
  BY <1>2, OkTokens, OkFields DEF Admitted, Gated
<1>3. CASE c.op = "challenge"
  <2>1. /\ [c EXCEPT !.at = "verify"].token = c.token
        /\ [c EXCEPT !.at = "verify"].out = c.out
        /\ [c EXCEPT !.at = "verify"].at = "verify"
    BY DEF Call
  <2>2. Admitted(c) = IF Pending(c) THEN [c EXCEPT !.at = "verify"] ELSE Refusal(c)
    BY <1>3 DEF Admitted
  <2>3. QED BY <1>3, <2>1, <2>2, RefusalTokens, RefusalFields DEF Gated
<1>4. CASE c.op \in Gated
  <2>1. Admitted(c) = IF Pending(c) THEN Refusal(c)
                      ELSE IF RotateDue(c.snap)
                           THEN [c EXCEPT !.at = "rotate", !.out = lastToken + 1]
                           ELSE Work(c)
    BY <1>4 DEF Admitted, Gated
  <2>2. CASE Pending(c)
    BY <1>4, <2>1, <2>2, RefusalTokens, RefusalFields DEF Gated
  <2>3. CASE ~Pending(c) /\ RotateDue(c.snap)
    <3>1. /\ [c EXCEPT !.at = "rotate", !.out = lastToken + 1].at = "rotate"
          /\ [c EXCEPT !.at = "rotate", !.out = lastToken + 1].token = c.token
          /\ [c EXCEPT !.at = "rotate", !.out = lastToken + 1].out = lastToken + 1
      BY DEF Call
    <3>2. Admitted(c) = [c EXCEPT !.at = "rotate", !.out = lastToken + 1]
      BY <2>1, <2>3
    <3>3. QED BY <2>3, <3>1, <3>2 DEF Pending
  <2>4. CASE ~Pending(c) /\ ~RotateDue(c.snap)
    <3>1. Admitted(c) = Work(c)
      BY <2>1, <2>4
    <3>2. QED BY <1>4, <2>4, <3>1, WorkTokens, WorkFields DEF Pending
  <2>5. QED BY <2>2, <2>3, <2>4
<1>5. QED BY <1>1, <1>2, <1>3, <1>4 DEF ByToken

LEMMA GoingTokens ==
  ASSUME IInv, NEW r \in Requests, NEW p, Goto(r, p)
  PROVE  /\ call'[r].token = call[r].token /\ call'[r].out = call[r].out
         /\ call'[r].snap = call[r].snap
<1>1. call[r] \in Call
  BY CallKnown
<1>2. call'[r] = [call[r] EXCEPT !.at = p]
  BY CallTable DEF Goto, Become
<1>3. QED BY <1>1, <1>2 DEF Call

\* The statements that mint no token and go to no second lookup.
LEMMA QuietTokens ==
  ASSUME IInv, NEW r \in Requests, Serve(r), ~Touch(r), ~Rotate(r),
         ~(Validate(r) /\ call'[r].at = "insert")
  PROVE  /\ call'[r].token = call[r].token
         /\ \/ call'[r].out = call[r].out
            \/ call'[r].out = 0 /\ call'[r].at = "refused" /\ call[r].op = "login"
         /\ lastToken' = lastToken
<1> DEFINE c == call[r]
           d == call'[r]
<1>0. c \in Call
  BY CallKnown
<1>1. ASSUME Become(r, Ok(c)) PROVE d.token = c.token /\ d.out = c.out
  BY <1>0, <1>1, BecomeIs, OkTokens
<1>2. ASSUME Become(r, Refusal(c))
      PROVE  /\ d.token = c.token /\ d.at = "refused"
             /\ d.out = IF c.op = "login" THEN 0 ELSE c.out
  BY <1>0, <1>2, BecomeIs, RefusalTokens, RefusalFields
<1>3. ASSUME NEW p, Goto(r, p) PROVE d.token = c.token /\ d.out = c.out
  BY <1>3, GoingTokens
<1>4. CASE Lookup(r)
  <2>1. ASSUME NEW s \in SessionIds,
               Become(r, [c EXCEPT !.at = "gate", !.s = s, !.who = row[s].user, !.snap = row[s]])
        PROVE  d.token = c.token /\ d.out = c.out
    <3>1. d = [c EXCEPT !.at = "gate", !.s = s, !.who = row[s].user, !.snap = row[s]]
      BY <2>1, BecomeIs
    <3>2. QED BY <1>0, <3>1 DEF Call
  <2>2. QED BY <1>2, <1>4, <2>1 DEF Lookup
<1>5. CASE Gate(r) \/ Evict(r) \/ List(r)
  BY <1>2, <1>3, <1>5 DEF Gate, Evict, List
<1>6. CASE Revoke(r)
  BY <1>1, <1>2, <1>6 DEF Revoke
<1>7. CASE RevokeAll(r)
  <2>1. Goto(r, "anonymize") \/ Become(r, Refusal(c)) \/ Become(r, Ok(c))
    BY <1>7 DEF RevokeAll, Goto
  <2>2. QED BY <1>1, <1>2, <1>3, <1>7, <2>1 DEF RevokeAll
<1>8. CASE Validate(r)
  <2>1. Become(r, Refusal(c)) /\ UNCHANGED lastToken
    <3>1. ASSUME NEW s \in SessionIds,
                 Become(r, [c EXCEPT !.at = "insert", !.s = s, !.out = lastToken + 1])
          PROVE  FALSE
      <4>1. d = [c EXCEPT !.at = "insert", !.s = s, !.out = lastToken + 1]
        BY <3>1, BecomeIs
      <4>2. d.at = "insert"
        BY <1>0, <4>1 DEF Call
      <4>3. QED BY <1>8, <4>2
    <3>2. QED BY <1>8, <3>1 DEF Validate
  <2>2. QED BY <1>2, <2>1
<1>9. CASE Insert(r) \/ Factors(r)
  BY <1>3, <1>9 DEF Insert, Factors
<1>10. CASE Pend(r) \/ Anonymize(r)
  BY <1>1, <1>2, <1>10 DEF Pend, Anonymize
<1>11. CASE Verify(r) \/ Clear(r)
  BY <1>2, <1>3, <1>11 DEF Verify, Clear, Goto
<1>12. CASE Hook(r)
  <2>1. Become(r, Refusal(c)) \/ Goto(r, "revokeAll") \/ Goto(r, "revoke") \/ Become(r, Ok(c))
    BY <1>12 DEF Hook, Goto
  <2>2. QED BY <1>1, <1>2, <1>3, <1>12, <2>1 DEF Hook
<1>13. CASE ReadUser(r)
  <2>1. Goto(r, "write") \/ Become(r, Refusal(c))
    BY <1>13 DEF ReadUser
  <2>2. QED BY <1>2, <1>3, <1>13, <2>1 DEF ReadUser
<1>14. CASE WriteStatus(r)
  <2>1. Goto(r, "revokeAll") \/ Become(r, Ok(c))
    BY <1>14 DEF WriteStatus, Goto
  <2>2. QED BY <1>1, <1>3, <1>14, <2>1 DEF WriteStatus
<1>15. QED BY <1>4, <1>5, <1>6, <1>7, <1>8, <1>9, <1>10, <1>11, <1>12, <1>13, <1>14 DEF Serve

LEMMA NumbersAre ==
  ASSUME IInv
  PROVE  /\ lastToken \in Nat /\ now \in Nat
         /\ \A q \in Requests : call[q].token \in Nat /\ call[q].out \in Nat
         /\ \A s \in SessionIds : row[s].token \in Nat /\ row[s].expires \in Nat
         /\ \A k \in Clients : kept[k] \subseteq Nat
  BY BoundAssumption DEF IInv, TypeOK, Tokens, Call, Row

\* A step of one handler that puts no token into a row but its own fresh one, and shows
\* nobody the fresh token of another handler, keeps the tokens apart if it keeps its
\* own so.
LEMMA TokenStep ==
  ASSUME IInv, IInv', Ties, TokenInv, NEW r \in Requests,
         UsersStay,
         \A s \in SessionIds : row'[s].user # NoUser =>
            \/ row[s].user # NoUser /\ row'[s].token = row[s].token
            \/ /\ call[r].at \in {"insert", "rotate"} /\ s = call[r].s
               /\ row'[s].token = call[r].out,
         lastToken <= lastToken',
         \A q \in Requests \ {r} : call'[q] = call[q],
         \A k \in Clients : kept'[k] \subseteq 0..lastToken',
         \A q \in Requests \ {r} : Discreet(call[q]) =>
            /\ call'[r].token # call[q].out /\ call'[r].out # call[q].out
            /\ call[q].at # "rotate" => call'[r].s # call[q].s
            /\ \A k \in Clients : call[q].out \notin kept'[k],
         Carried(r)'
  PROVE  TokenInv'
<1> DEFINE c == call[r]
           d == call'[r]
<1>0. lastToken \in Nat /\ lastToken' \in Nat
  BY NumbersAre DEF IInv, TypeOK, Tokens
<1>1. c.at \in {"insert", "rotate"} =>
        /\ c.out \in 1..lastToken
        /\ \A q \in Requests \ {r} : call[q].token # c.out /\ call[q].out # c.out
        /\ \A s \in SessionIds : row[s].user # NoUser => row[s].token # c.out
  BY DEF TokenInv, Carried, Discreet, Secret, Opening
<1>2. \A s \in SessionIds : row'[s].user # NoUser => row'[s].token \in 1..lastToken'
  BY <1>0, <1>1 DEF TokenInv
<1>3. \A s, z \in SessionIds :
        row'[s].user # NoUser /\ row'[z].user # NoUser /\ row'[s].token = row'[z].token => s = z
  BY <1>1 DEF TokenInv
<1>4. ASSUME NEW q \in Requests \ {r} PROVE Carried(q)'
  <2> DEFINE e == call[q]
  <2>1. call'[q] = e /\ Carried(q)
    BY <1>4 DEF TokenInv
  <2>2. e.token \in Nat /\ e.out \in Nat /\ e \in Call /\ Flowing(e)
    BY NumbersAre, CallKnown
  <2>3. e.token <= lastToken' /\ e.out <= lastToken'
    BY <1>0, <2>1, <2>2 DEF Carried
  <2>4. Holding(e) \/ e.op = "again" => OpensOnly(q)'
    BY <1>1, <2>1 DEF Carried, OpensOnly
  <2>5. Discreet(e) => Secret(q)'
    <3> SUFFICES ASSUME Discreet(e) PROVE Secret(q)'
      OBVIOUS
    <3>1. /\ e.out \in 1..lastToken /\ e.token # e.out
          /\ \A p \in Requests \ {q} : call[p].token # e.out /\ call[p].out # e.out
          /\ \A s \in SessionIds :
                row[s].user # NoUser /\ row[s].token = e.out => Opening(e) /\ s = e.s
          /\ Opening(e) => row[e.s].token = e.out
          /\ e.at # "rotate" => \A p \in Requests \ {q} : call[p].s # e.s
      BY <2>1 DEF Carried, Secret
    <3>2. e.out \in 1..lastToken'
      BY <1>0, <3>1
    <3>3. \A p \in Requests \ {q} : call'[p].token # e.out /\ call'[p].out # e.out
      BY <3>1
    <3>4. \A s \in SessionIds :
            row'[s].user # NoUser /\ row'[s].token = e.out => Opening(e) /\ s = e.s
      BY <1>1, <3>1
    <3>5. Opening(e) => row'[e.s].token = e.out
      <4> SUFFICES ASSUME Opening(e) PROVE row'[e.s].token = e.out
        OBVIOUS
      <4>1. e.s \in SessionIds /\ row[e.s].user # NoUser
        <5>1. e.op = "login" /\ Known(e)
          BY <2>2, PointKnows DEF Opening
        <5>2. row[e.s].user = e.who
          BY <5>1 DEF Ties, Tied, Claims, LoggedIn, Opening
        <5>3. QED BY <5>1, <5>2, UserAssumption DEF Known
      <4>2. row'[e.s].user # NoUser
        BY <4>1 DEF UsersStay
      <4>3. c.s # e.s
        BY <3>1 DEF Opening
      <4>4. QED BY <3>1, <4>1, <4>2, <4>3
    <3>6. e.at # "rotate" => \A p \in Requests \ {q} : call'[p].s # e.s
      BY <3>1
    <3>7. QED BY <2>1, <3>1, <3>2, <3>3, <3>4, <3>5, <3>6 DEF Secret, Opening
  <2>6. QED BY <2>1, <2>3, <2>4, <2>5 DEF Carried, Discreet, Opening, Holding, OpensOnly
<1>5. QED BY <1>2, <1>3, <1>4 DEF TokenInv

\* The statements after which a handler works on with the same session and operation.
Plain(r) ==
    /\ Serve(r) /\ ~Touch(r) /\ ~Rotate(r) /\ ~Insert(r)
    /\ ~(Validate(r) /\ call'[r].at = "insert") /\ ~(Lookup(r) /\ call'[r].at = "gate")

LEMMA PlainStep ==
  ASSUME IInv, NEW r \in Requests, Plain(r)
  PROVE  /\ Same(call[r], call'[r])
         /\ Opening(call'[r]) => Factors(r)
         /\ call'[r].at \in {"gate", "evict", "touch"} => Gate(r)
         /\ call'[r].at \notin {"lookup", "insert", "rotate"}
<1> DEFINE c == call[r]
           d == call'[r]
<1>0. c \in Call /\ Flowing(c) /\ Serve(r)
  BY CallKnown DEF Plain
<1>1. CASE Lookup(r)
  BY <1>1, LookupStep DEF Plain, Opening
<1>2. CASE Gate(r)
  BY <1>2, GateStep DEF Opening
<1>3. CASE Evict(r) \/ List(r) \/ Revoke(r) \/ RevokeAll(r)
  BY <1>3, EvictStep, ListStep, RevokeStep, RevokeAllStep DEF Opening
<1>4. CASE Validate(r)
  BY <1>4, ValidateStep DEF Plain, Opening
<1>5. CASE Factors(r)
  <2>1. Goto(r, "pend") \/ Goto(r, "hook")
    BY <1>5 DEF Factors
  <2>2. d.at \in {"pend", "hook"}
    BY <2>1, Going
  <2>3. QED BY <1>5, <2>2, LoginStep
<1>6. CASE Pend(r)
  BY <1>6, Finishing, Refusing DEF Pend, Opening
<1>7. CASE Verify(r) \/ Clear(r) \/ Hook(r)
  BY <1>7, ChallengeStep, HookStep DEF Opening
<1>8. CASE ReadUser(r) \/ WriteStatus(r) \/ Anonymize(r)
  BY <1>8, AdminStep, AnonymizeStep DEF Opening
<1>9. QED BY <1>0, <1>1, <1>2, <1>3, <1>4, <1>5, <1>6, <1>7, <1>8 DEF Serve, Plain

\* What TokenStep asks of the clients and of the other handlers, for a statement that
\* shows the handler nothing but what it carried.
LEMMA ServeShows ==
  ASSUME IInv, TokenInv, NEW r \in Requests, Serve(r), lastToken <= lastToken',
         call'[r].token \in {call[r].token, call[r].out},
         call'[r].out \in {0, call[r].out},
         call'[r].s = call[r].s
  PROVE  /\ \A k \in Clients : kept'[k] \subseteq 0..lastToken'
         /\ call'[r].token <= lastToken' /\ call'[r].out <= lastToken'
         /\ \A q \in Requests \ {r} : Discreet(call[q]) =>
              /\ call'[r].token # call[q].out /\ call'[r].out # call[q].out
              /\ call[q].at # "rotate" => call'[r].s # call[q].s
              /\ \A k \in Clients : call[q].out \notin kept'[k]
<1>1. kept' = kept
  BY DEF Serve, Lookup, Gate, Evict, Touch, Rotate, List, Revoke, RevokeAll, Validate,
         Insert, Factors, Pend, Verify, Clear, Hook, ReadUser, WriteStatus, Anonymize
<1>2. lastToken \in Nat /\ call[r].token \in Nat /\ call[r].out \in Nat
        /\ call[r].token <= lastToken /\ call[r].out <= lastToken
  BY NumbersAre DEF TokenInv, Carried
<1>3. lastToken' \in Nat
  BY NextTyped DEF Next, IInv, TypeOK, Tokens
<1>4. \A k \in Clients : kept'[k] \subseteq 0..lastToken'
  BY <1>1, <1>2, <1>3 DEF TokenInv
<1>5. ASSUME NEW q \in Requests \ {r}, Discreet(call[q])
      PROVE  /\ call'[r].token # call[q].out /\ call'[r].out # call[q].out
             /\ call[q].at # "rotate" => call'[r].s # call[q].s
             /\ \A k \in Clients : call[q].out \notin kept'[k]
  <2>1. Secret(q)
    BY <1>5 DEF TokenInv, Carried
  <2>2. call[q].out # 0
    BY <2>1, <1>2 DEF Secret
  <2>3. QED BY <1>1, <2>1, <2>2 DEF Secret
<1>6. QED BY <1>2, <1>3, <1>4, <1>5

LEMMA PlainTokens ==
  ASSUME IInv, IInv', Ties, TokenInv, NEW r \in Requests, Plain(r)
  PROVE  TokenInv'
<1> DEFINE c == call[r]
           d == call'[r]
<1>1. Serve(r) /\ ~Insert(r) /\ ~Rotate(r) /\ ~Touch(r) /\ Carried(r) /\ lastToken \in Nat
  BY NumbersAre DEF Plain, TokenInv
<1>2. d.s = c.s /\ d.op = c.op /\ d.token = c.token /\ d.out \in {0, c.out}
        /\ (d.out = c.out \/ d.at = "refused") /\ lastToken' = lastToken
  BY <1>1, PlainStep, QuietTokens DEF Same, Plain
<1>3. Mild /\ UsersStay
  BY <1>1, ServeMild DEF Mild, UsersStay
<1>4. \A q \in Requests \ {r} : call'[q] = call[q]
  BY <1>1, ServeOthers
<1>5. kept' = kept
  BY <1>1 DEF Serve, Lookup, Gate, Evict, Touch, Rotate, List, Revoke, RevokeAll, Validate,
         Insert, Factors, Pend, Verify, Clear, Hook, ReadUser, WriteStatus, Anonymize
<1>6. Holding(d) \/ d.op = "again" => OpensOnly(r)'
  <2> SUFFICES ASSUME Holding(d) \/ d.op = "again" PROVE OpensOnly(r)'
    OBVIOUS
  <2>1. Holding(c) \/ c.op = "again"
    <3>1. CASE Lookup(r)
      BY <1>2, <3>1, LookupStep DEF Plain, Holding
    <3>2. CASE ~Lookup(r)
      BY <1>1, <1>2, <3>2, HeldBefore
    <3>3. QED BY <3>1, <3>2
  <2>2. OpensOnly(r)
    BY <1>1, <2>1 DEF Carried
  <2>3. \A s \in SessionIds : row[s].user # NoUser => row[s].token # 0
    BY <1>1 DEF TokenInv
  <2>4. QED BY <1>2, <1>3, <2>2, <2>3 DEF OpensOnly, Mild
<1>7. Discreet(d) => Secret(r)'
  <2> SUFFICES ASSUME Discreet(d) PROVE Secret(r)'
    OBVIOUS
  <2>1. Opening(d) /\ Factors(r)
    BY PlainStep DEF Discreet
  <2>2. Opening(c) /\ d.out = c.out /\ c.s \in SessionIds
    BY <1>2, <2>1, CallKnown, PointKnows DEF Factors, Opening, Known
  <2>3. Secret(r)
    BY <1>1, <2>2 DEF Carried, Discreet
  <2>4. QED BY <1>2, <1>3, <1>4, <1>5, <2>1, <2>2, <2>3 DEF Secret, Opening, Mild
<1>8. d.at # "lookup"
  BY PlainStep
<1>9. /\ \A k \in Clients : kept'[k] \subseteq 0..lastToken'
      /\ d.token <= lastToken' /\ d.out <= lastToken'
      /\ \A q \in Requests \ {r} : Discreet(call[q]) =>
           /\ d.token # call[q].out /\ d.out # call[q].out
           /\ call[q].at # "rotate" => d.s # call[q].s
           /\ \A k \in Clients : call[q].out \notin kept'[k]
  BY <1>1, <1>2, ServeShows
<1>10. Carried(r)'
  BY <1>6, <1>7, <1>8, <1>9 DEF Carried, Discreet, Opening, Holding, OpensOnly
<1>11. \A s \in SessionIds : row'[s].user # NoUser =>
          row[s].user # NoUser /\ row'[s].token = row[s].token
  BY <1>3 DEF Mild
<1>12. lastToken <= lastToken'
  BY <1>1, <1>2
<1>13. QED BY <1>3, <1>4, <1>9, <1>10, <1>11, <1>12, TokenStep

\* The lookup opens a session by its token, never one a login has not decided on.
LEMMA LookupOpens ==
  ASSUME IInv, Ties, TokenInv, NEW r \in Requests, Lookup(r), call'[r].at = "gate"
  PROVE  /\ \A q \in Requests \ {r} : Discreet(call[q]) /\ call[q].at # "rotate"
              => call[q].s # call'[r].s
         /\ call[r].op = "again" => call'[r].s = call[r].s
         /\ \A s \in SessionIds : row[s].user # NoUser
              /\ row[s].token \in {call[r].token, call[r].out} => s = call'[r].s
<1> DEFINE c == call[r]
           d == call'[r]
<1>1. /\ d.s \in SessionIds /\ row[d.s].user # NoUser /\ row[d.s].token = c.token
      /\ c.at = "lookup" /\ Carried(r)
  BY LookupStep DEF Matches, Live, Lookup, TokenInv
<1>2. ASSUME NEW q \in Requests \ {r}, Discreet(call[q]), call[q].at # "rotate"
      PROVE  call[q].s # d.s
  <2>1. Secret(q)
    BY <1>2 DEF TokenInv, Carried
  <2>2. CASE Opening(call[q])
    BY <1>1, <2>1, <2>2 DEF Secret
  <2>3. CASE call[q].at = "insert"
    BY <1>1, <2>3 DEF Ties
  <2>4. QED BY <1>2, <2>2, <2>3 DEF Discreet
<1>3. c.op = "again" => OpensOnly(r)
  BY <1>1 DEF Carried
<1>4. c.op # "again" => c.out = 0
  BY <1>1 DEF Carried
<1>5. \A s \in SessionIds : row[s].user # NoUser => row[s].token # 0
  BY NumbersAre DEF TokenInv
<1>6. \A s \in SessionIds : row[s].user # NoUser /\ row[s].token \in {c.token, c.out} => s = d.s
  BY <1>1, <1>3, <1>4, <1>5 DEF OpensOnly, TokenInv
<1>7. c.op = "again" => d.s = c.s
  BY <1>1, <1>3 DEF OpensOnly
<1>8. QED BY <1>2, <1>6, <1>7

LEMMA LookupTokens ==
  ASSUME IInv, IInv', Ties, TokenInv, NEW r \in Requests, Lookup(r), call'[r].at = "gate"
  PROVE  TokenInv'
<1> DEFINE c == call[r]
           d == call'[r]
<1>1. Serve(r) /\ Carried(r) /\ lastToken \in Nat /\ row' = row /\ kept' = kept
  BY NumbersAre DEF TokenInv, Serve, Lookup
<1>2. d.token = c.token /\ d.out \in {0, c.out} /\ lastToken' = lastToken
        /\ (d.out = c.out \/ d.at = "refused")
  BY <1>1, QuietTokens DEF Lookup, Touch, Rotate, Validate
<1>3. \A q \in Requests \ {r} : call'[q] = call[q]
  BY <1>1, ServeOthers
<1>4. OpensOnly(r)'
  BY <1>1, <1>2, LookupOpens DEF OpensOnly
<1>5. d.token <= lastToken' /\ d.out <= lastToken'
  BY <1>1, <1>2 DEF Carried
<1>6. Carried(r)'
  BY <1>4, <1>5 DEF Carried, Discreet, Opening
<1>7. ASSUME NEW q \in Requests \ {r}, Discreet(call[q])
      PROVE  /\ d.token # call[q].out /\ d.out # call[q].out
             /\ call[q].at # "rotate" => d.s # call[q].s
             /\ \A k \in Clients : call[q].out \notin kept'[k]
  <2>1. Secret(q)
    BY <1>7 DEF TokenInv, Carried
  <2>2. call[q].at # "rotate" => d.s # call[q].s
    BY <1>7, LookupOpens
  <2>3. QED BY <1>1, <1>2, <2>1, <2>2 DEF Secret
<1>8. lastToken <= lastToken' /\ \A k \in Clients : kept'[k] \subseteq 0..lastToken'
  BY <1>1, <1>2 DEF TokenInv
<1>9. UsersStay /\ \A s \in SessionIds : row'[s].user # NoUser =>
          row[s].user # NoUser /\ row'[s].token = row[s].token
  BY <1>1 DEF UsersStay
<1>10. QED BY <1>3, <1>6, <1>7, <1>8, <1>9, TokenStep

\* A token that is minted is nobody's yet.
LEMMA Minted ==
  ASSUME IInv, TokenInv, NEW r \in Requests, lastToken' = lastToken + 1,
         \A q \in Requests \ {r} : call'[q] = call[q],
         UNCHANGED kept,
         \A s \in SessionIds : row'[s].user = row[s].user /\ row'[s].token = row[s].token,
         call'[r].out = lastToken + 1, call'[r].token = call[r].token,
         call'[r].at \in {"insert", "rotate"},
         call'[r].at = "insert" => \A q \in Requests \ {r} : call[q].s # call'[r].s
  PROVE  /\ Secret(r)'
         /\ \A k \in Clients : kept'[k] \subseteq 0..lastToken'
         /\ call'[r].token <= lastToken' /\ call'[r].out <= lastToken'
         /\ \A q \in Requests \ {r} : Discreet(call[q]) =>
              /\ call'[r].token # call[q].out /\ call'[r].out # call[q].out
              /\ \A k \in Clients : call[q].out \notin kept'[k]
<1> DEFINE t == lastToken + 1
<1>1. /\ lastToken \in Nat /\ \A q \in Requests : Carried(q)
      /\ \A q \in Requests : call[q].token \in Nat /\ call[q].out \in Nat
      /\ \A k \in Clients : kept[k] \subseteq 0..lastToken
      /\ \A s \in SessionIds : row[s].user # NoUser => row[s].token \in 1..lastToken
  BY NumbersAre DEF TokenInv
<1>2. /\ \A q \in Requests : call[q].token # t /\ call[q].out # t
      /\ \A k \in Clients : t \notin kept[k]
      /\ \A s \in SessionIds : row[s].user # NoUser => row[s].token # t
  BY <1>1 DEF Carried
<1>3. Secret(r)'
  BY <1>1, <1>2 DEF Secret, Opening
<1>4. \A k \in Clients : kept'[k] \subseteq 0..lastToken'
  BY <1>1
<1>5. call'[r].token <= lastToken' /\ call'[r].out <= lastToken'
  BY <1>1 DEF Carried
<1>6. ASSUME NEW q \in Requests \ {r}, Discreet(call[q])
      PROVE  /\ call'[r].token # call[q].out /\ call'[r].out # call[q].out
             /\ \A k \in Clients : call[q].out \notin kept'[k]
  <2>1. Secret(q)
    BY <1>1, <1>6 DEF Carried
  <2>2. QED BY <1>2, <2>1 DEF Secret
<1>7. QED BY <1>3, <1>4, <1>5, <1>6

LEMMA ValidateTokens ==
  ASSUME IInv, IInv', Ties, TokenInv, NEW r \in Requests, Validate(r),
         call'[r].at = "insert"
  PROVE  TokenInv'
<1> DEFINE c == call[r]
           d == call'[r]
<1>1. /\ Serve(r) /\ row' = row /\ kept' = kept /\ c \in Call /\ lastToken \in Nat
      /\ c.op = "login"
  BY CallKnown, NumbersAre, PointKnows DEF Serve, Validate
<1>2. /\ d.op = c.op /\ d.s \in SessionIds /\ Fresh(d.s) /\ lastToken' = lastToken + 1
      /\ d.out = lastToken + 1
  BY ValidateStep
<1>3. d.token = c.token
  <2>1. PICK s \in SessionIds :
          Become(r, [c EXCEPT !.at = "insert", !.s = s, !.out = lastToken + 1])
    <3>1. ~Become(r, Refusal(c))
      BY Refusing
    <3>2. QED BY <3>1 DEF Validate
  <2>2. d = [c EXCEPT !.at = "insert", !.s = s, !.out = lastToken + 1]
    BY <2>1, BecomeIs
  <2>3. QED BY <1>1, <2>2 DEF Call
<1>4. \A q \in Requests \ {r} : call'[q] = call[q] /\ call[q].s # d.s
  BY <1>1, <1>2, ServeOthers DEF Fresh
<1>5. /\ Secret(r)'
      /\ \A k \in Clients : kept'[k] \subseteq 0..lastToken'
      /\ d.token <= lastToken' /\ d.out <= lastToken'
      /\ \A q \in Requests \ {r} : Discreet(call[q]) =>
           /\ d.token # call[q].out /\ d.out # call[q].out
           /\ \A k \in Clients : call[q].out \notin kept'[k]
  BY <1>1, <1>2, <1>3, <1>4, Minted
<1>6. Carried(r)'
  BY <1>1, <1>2, <1>5, TokenOps DEF Carried, Holding
<1>7. UsersStay /\ lastToken <= lastToken'
        /\ \A s \in SessionIds : row'[s].user # NoUser =>
              row[s].user # NoUser /\ row'[s].token = row[s].token
  BY <1>1, <1>2 DEF UsersStay
<1>8. QED BY <1>4, <1>5, <1>6, <1>7, TokenStep

LEMMA TouchTokens ==
  ASSUME IInv, IInv', Ties, TokenInv, NEW r \in Requests, Touch(r)
  PROVE  TokenInv'
<1> DEFINE c == call[r]
           d == call'[r]
<1>1. /\ Serve(r) /\ kept' = kept /\ c \in Call /\ lastToken \in Nat /\ Carried(r)
      /\ c.op \in ByToken \cup {"again"} /\ d = Admitted(c) /\ c.at = "touch"
      /\ lastToken' = IF d.at = "rotate" THEN d.out ELSE lastToken
  BY CallKnown, NumbersAre, GatedKnows, BecomeIs DEF Serve, Touch, TokenInv
<1>2. d.s = c.s /\ d.at \notin {"insert", "factors", "pend"}
        /\ (d.at = "lookup" => d.op = "again")
  BY <1>1, AdmittedFields
<1>3. Mild /\ UsersStay
  BY <1>1, ServeMild DEF Mild, UsersStay, Touch, Insert, Rotate
<1>4. \A q \in Requests \ {r} : call'[q] = call[q]
  BY <1>1, ServeOthers
<1>5. OpensOnly(r) /\ \A s \in SessionIds : row[s].user # NoUser => row[s].token \in 1..lastToken
  BY <1>1 DEF Carried, Holding, TokenInv
<1>6. \A q \in Requests \ {r} : Discreet(call[q]) /\ call[q].at # "rotate" => d.s # call[q].s
  BY <1>2 DEF TokenInv, Carried, Secret
<1>7. CASE d.at = "rotate"
  <2>1. d.token = c.token /\ d.out = lastToken + 1 /\ lastToken' = lastToken + 1
    BY <1>1, <1>7, AdmittedCarries
  <2>2. /\ Secret(r)'
        /\ \A k \in Clients : kept'[k] \subseteq 0..lastToken'
        /\ d.token <= lastToken' /\ d.out <= lastToken'
        /\ \A q \in Requests \ {r} : Discreet(call[q]) =>
             /\ d.token # call[q].out /\ d.out # call[q].out
             /\ \A k \in Clients : call[q].out \notin kept'[k]
    BY <1>1, <1>3, <1>4, <1>7, <2>1, Minted DEF Mild
  <2>3. OpensOnly(r)'
    BY <1>1, <1>2, <1>3, <1>5, <2>1 DEF OpensOnly, Mild
  <2>4. Carried(r)'
    BY <1>7, <2>2, <2>3 DEF Carried
  <2>5. lastToken <= lastToken' /\ \A s \in SessionIds : row'[s].user # NoUser =>
              row[s].user # NoUser /\ row'[s].token = row[s].token
    BY <1>1, <1>3, <2>1 DEF Mild
  <2>6. QED BY <1>3, <1>4, <1>6, <2>2, <2>4, <2>5, TokenStep
<1>8. CASE d.at # "rotate"
  <2>1. d.out \in {0, c.out} /\ d.token \in {c.token, c.out} /\ lastToken' = lastToken
    BY <1>1, <1>8, AdmittedCarries
  <2>2. lastToken <= lastToken'
    BY <1>1, <2>1
  <2>3. /\ \A k \in Clients : kept'[k] \subseteq 0..lastToken'
        /\ d.token <= lastToken' /\ d.out <= lastToken'
        /\ \A q \in Requests \ {r} : Discreet(call[q]) =>
             /\ d.token # call[q].out /\ d.out # call[q].out
             /\ call[q].at # "rotate" => d.s # call[q].s
             /\ \A k \in Clients : call[q].out \notin kept'[k]
    BY <1>1, <1>2, <2>1, <2>2, ServeShows
  <2>4. OpensOnly(r)'
    BY <1>1, <1>2, <1>3, <1>5, <2>1 DEF OpensOnly, Mild
  <2>5. Carried(r)'
    BY <1>2, <1>8, <2>3, <2>4 DEF Carried, Discreet, Opening
  <2>6. \A s \in SessionIds : row'[s].user # NoUser =>
              row[s].user # NoUser /\ row'[s].token = row[s].token
    BY <1>3 DEF Mild
  <2>7. QED BY <1>3, <1>4, <2>2, <2>3, <2>5, <2>6, TokenStep
<1>9. QED BY <1>7, <1>8

\* A rotation that fails hands out nothing; one that wrote, the token it wrote.
LEMMA RotateCarries ==
  ASSUME IInv, NEW r \in Requests, Rotate(r)
  PROVE  /\ call'[r].token \in {call[r].token, call[r].out}
         /\ \/ call'[r].out = call[r].out /\ row' = Rotated(call[r])
            \/ call'[r].out = 0 /\ row' = row
<1> DEFINE c == call[r]
<1>1. c \in Call /\ c.op \in Gated
  BY CallKnown, PointKnows DEF Rotate
<1>2. \/ call'[r] = Work(c) /\ row' = Rotated(c)
      \/ call'[r] = Work(Silent(c)) /\ row' = row
  BY BecomeIs DEF Rotate, Silent
<1>3. /\ Silent(c) \in Call /\ Silent(c).op = c.op
      /\ Silent(c).token = c.token /\ Silent(c).out = 0
  BY <1>1, SilentCall
<1>4. CASE call'[r] = Work(c) /\ row' = Rotated(c)
  BY <1>1, <1>4, WorkTokens
<1>5. CASE call'[r] = Work(Silent(c)) /\ row' = row
  BY <1>1, <1>3, <1>5, WorkTokens
<1>6. QED BY <1>2, <1>4, <1>5

\* The rows after a rotation.
LEMMA RotateRow ==
  ASSUME IInv, Ties, NEW r \in Requests, Rotate(r)
  PROVE  /\ \A s \in SessionIds : row'[s].user = row[s].user
                                  /\ row'[s].mfaPending = row[s].mfaPending
         /\ \A s \in SessionIds \ {call[r].s} : row'[s].token = row[s].token
         /\ row'[call[r].s].token \in {row[call[r].s].token, call[r].out}
         /\ ~row[call[r].s].revoked =>
              \/ row'[call[r].s].token = call[r].out
              \/ row' = row /\ call'[r].out = 0
         /\ \A s \in SessionIds : row'[s].revoked = row[s].revoked
         /\ call[r].s \in SessionIds /\ row[call[r].s].user # NoUser
<1> DEFINE c == call[r]
<1>1. c \in Call /\ Known(c) /\ Claims(c)
  BY CallKnown, PointKnows DEF Rotate, Claims, Holding, ByToken
<1>2. c.s \in SessionIds /\ row[c.s].user # NoUser /\ row[c.s] \in Row
  BY <1>1, RowTable, UserAssumption DEF Ties, Tied, Known
<1>3. CASE row' = row /\ (row[c.s].revoked \/ call'[r].out = 0)
  BY <1>2, <1>3
<1>4. CASE row' = [row EXCEPT ![c.s] = [@ EXCEPT !.token = c.out, !.expires = now + TTL,
                                                 !.active = now]]
  <2>1. row'[c.s] = [row[c.s] EXCEPT !.token = c.out, !.expires = now + TTL, !.active = now]
    BY <1>2, <1>4, RowTable
  <2>2. /\ row'[c.s].token = c.out /\ row'[c.s].user = row[c.s].user
        /\ row'[c.s].mfaPending = row[c.s].mfaPending
        /\ row'[c.s].revoked = row[c.s].revoked
    BY <1>2, <2>1 DEF Row
  <2>3. \A s \in SessionIds \ {c.s} : row'[s] = row[s]
    BY <1>4, RowTable
  <2>4. QED BY <1>2, <2>2, <2>3
<1>5. QED BY <1>3, <1>4, RotateCarries DEF Rotated

LEMMA RotateTokens ==
  ASSUME IInv, IInv', Ties, TokenInv, NEW r \in Requests, Rotate(r)
  PROVE  TokenInv'
<1> DEFINE c == call[r]
           d == call'[r]
<1>1. /\ Serve(r) /\ c \in Call /\ lastToken \in Nat /\ Carried(r) /\ lastToken' = lastToken
      /\ c.op \in Gated /\ c.at = "rotate"
  BY CallKnown, NumbersAre, RotateStep DEF Serve, Rotate, TokenInv
<1>2. /\ d.s = c.s /\ d.at \notin {"insert", "factors", "pend", "rotate"}
      /\ (d.at = "lookup" => d.op = "again")
      /\ d.out \in {0, c.out} /\ d.token \in {c.token, c.out}
  BY RotateStep, RotateCarries
<1>3. UsersStay /\ lastToken <= lastToken'
  BY <1>1, ServeUsers
<1>4. \A q \in Requests \ {r} : call'[q] = call[q]
  BY <1>1, ServeOthers
<1>5. Secret(r) /\ OpensOnly(r)
  BY <1>1 DEF Carried, Discreet, Holding, ByToken
<1>6. OpensOnly(r)'
  <2>1. c.out # 0 /\ \A s \in SessionIds : row[s].user # NoUser => row[s].token # 0
    BY <1>1, <1>5 DEF Secret, TokenInv
  <2>2. QED BY <1>2, <1>5, <2>1, RotateRow DEF OpensOnly
<1>7. /\ \A k \in Clients : kept'[k] \subseteq 0..lastToken'
      /\ d.token <= lastToken' /\ d.out <= lastToken'
      /\ \A q \in Requests \ {r} : Discreet(call[q]) =>
           /\ d.token # call[q].out /\ d.out # call[q].out
           /\ call[q].at # "rotate" => d.s # call[q].s
           /\ \A k \in Clients : call[q].out \notin kept'[k]
  BY <1>1, <1>2, <1>3, ServeShows
<1>8. Carried(r)'
  BY <1>2, <1>6, <1>7 DEF Carried, Discreet, Opening
<1>9. \A s \in SessionIds : row'[s].user # NoUser =>
         \/ row[s].user # NoUser /\ row'[s].token = row[s].token
         \/ c.at \in {"insert", "rotate"} /\ s = c.s /\ row'[s].token = c.out
  BY <1>1, RotateRow
<1>10. QED BY <1>3, <1>4, <1>7, <1>8, <1>9, TokenStep

LEMMA InsertTokens ==
  ASSUME IInv, IInv', Ties, TokenInv, NEW r \in Requests, Insert(r)
  PROVE  TokenInv'
<1> DEFINE c == call[r]
           d == call'[r]
<1>1. /\ Serve(r) /\ c \in Call /\ lastToken \in Nat /\ Carried(r) /\ lastToken' = lastToken
      /\ c.op = "login" /\ c.at = "insert" /\ kept' = kept
  BY CallKnown, NumbersAre, PointKnows DEF Serve, Insert, TokenInv
<1>2. /\ Same(c, d) /\ d.at = "factors" /\ d.out = c.out /\ d.token = c.token
  BY Going, GoingTokens DEF Insert
<1>3. UsersStay /\ lastToken <= lastToken'
  BY <1>1, ServeUsers
<1>4. \A q \in Requests \ {r} : call'[q] = call[q]
  BY <1>1, ServeOthers
<1>5. Secret(r)
  BY <1>1 DEF Carried, Discreet
<1>6. /\ c.s \in SessionIds /\ row'[c.s].token = c.out
      /\ \A s \in SessionIds \ {c.s} : row'[s] = row[s]
  BY InsertRow
<1>7. Secret(r)'
  BY <1>1, <1>2, <1>4, <1>5, <1>6 DEF Secret, Opening, Same
<1>8. /\ \A k \in Clients : kept'[k] \subseteq 0..lastToken'
      /\ d.token <= lastToken' /\ d.out <= lastToken'
      /\ \A q \in Requests \ {r} : Discreet(call[q]) =>
           /\ d.token # call[q].out /\ d.out # call[q].out
           /\ call[q].at # "rotate" => d.s # call[q].s
           /\ \A k \in Clients : call[q].out \notin kept'[k]
  BY <1>1, <1>2, <1>3, ServeShows DEF Same
<1>9. Carried(r)'
  BY <1>1, <1>2, <1>7, <1>8, TokenOps DEF Carried, Same, Holding
<1>10. \A s \in SessionIds : row'[s].user # NoUser =>
         \/ row[s].user # NoUser /\ row'[s].token = row[s].token
         \/ c.at \in {"insert", "rotate"} /\ s = c.s /\ row'[s].token = c.out
  BY <1>1, <1>6
<1>11. QED BY <1>3, <1>4, <1>8, <1>9, <1>10, TokenStep

\* Clients present only what they were handed.
LEMMA ArriveTokens ==
  ASSUME IInv, IInv', Ties, TokenInv, NEW r \in Requests, Arrive(r)
  PROVE  TokenInv'
<1> DEFINE d == call'[r]
<1>1. /\ lastToken \in Nat /\ \A k \in Clients : kept[k] \subseteq 0..lastToken
      /\ Owner[r] \in Clients
  BY NumbersAre, OwnerAssumption DEF TokenInv
<1>2. /\ UNCHANGED <<row, lastToken, kept>> /\ d.s = NoSession /\ d.out = 0
      /\ (d.token = 0 \/ d.token \in kept[Owner[r]])
      /\ d.at \in {"lookup", "validate", "read"} /\ d.op # "again" /\ ~Holding(d)
      /\ \A q \in Requests \ {r} : call'[q] = call[q]
  <2>1. "again" \notin ByToken \cup ByAdmin
    BY DEF ByToken, Gated, ByAdmin
  <2>2. QED BY <2>1, ArrivesAt, TokenOps DEF Holding
<1>3. d.token <= lastToken' /\ d.out <= lastToken'
  BY <1>1, <1>2
<1>4. Carried(r)'
  BY <1>2, <1>3 DEF Carried, Discreet, Opening
<1>5. ASSUME NEW q \in Requests \ {r}, Discreet(call[q])
      PROVE  /\ d.token # call[q].out /\ d.out # call[q].out
             /\ call[q].at # "rotate" => d.s # call[q].s
             /\ \A k \in Clients : call[q].out \notin kept'[k]
  <2>1. Secret(q)
    BY <1>5 DEF TokenInv, Carried
  <2>2. call[q].out # 0 /\ d.token # call[q].out
    BY <1>1, <1>2, <2>1 DEF Secret
  <2>3. call[q].at # "rotate" => call[q].s \in SessionIds
    BY <1>5, CallKnown, PointKnows DEF Discreet, Opening, Known
  <2>4. QED BY <1>2, <2>1, <2>2, <2>3, SessionAssumption DEF Secret
<1>6. /\ UsersStay /\ lastToken <= lastToken' /\ \A k \in Clients : kept'[k] \subseteq 0..lastToken'
      /\ \A s \in SessionIds : row'[s].user # NoUser =>
            row[s].user # NoUser /\ row'[s].token = row[s].token
  BY <1>1, <1>2 DEF UsersStay
<1>7. QED BY <1>2, <1>4, <1>5, <1>6, TokenStep

\* An answer hands out the token its handler carries, and that is secret no more.
LEMMA ReceiveTokens ==
  ASSUME IInv, IInv', Ties, TokenInv, NEW r \in Requests, Receive(r)
  PROVE  TokenInv'
<1> DEFINE d == call'[r]
<1>1. /\ lastToken \in Nat /\ \A k \in Clients : kept[k] \subseteq 0..lastToken
      /\ Owner[r] \in Clients /\ Carried(r) /\ call[r].out \in Nat
  BY NumbersAre, OwnerAssumption DEF TokenInv
<1>2. /\ UNCHANGED <<row, lastToken>> /\ d = Idle
      /\ \A q \in Requests \ {r} : call'[q] = call[q]
  BY BecomeIs DEF Receive
<1>3. \A k \in Clients : kept'[k] \subseteq kept[k] \cup {call[r].out}
  <2>1. kept \in [Clients -> SUBSET Tokens]
    BY DEF IInv, TypeOK
  <2>2. QED BY <1>1, <2>1 DEF Receive
<1>4. d.token = 0 /\ d.out = 0 /\ d.s = NoSession /\ d.at = "idle" /\ d.op = "none"
  BY <1>2 DEF Idle
<1>5. \A k \in Clients : kept'[k] \subseteq 0..lastToken'
  BY <1>1, <1>2, <1>3 DEF Carried
<1>6. Carried(r)'
  BY <1>1, <1>2, <1>4 DEF Carried, Discreet, Opening, Holding
<1>7. ASSUME NEW q \in Requests \ {r}, Discreet(call[q])
      PROVE  /\ d.token # call[q].out /\ d.out # call[q].out
             /\ call[q].at # "rotate" => d.s # call[q].s
             /\ \A k \in Clients : call[q].out \notin kept'[k]
  <2>1. Secret(q)
    BY <1>7 DEF TokenInv, Carried
  <2>2. call[q].out # 0
    BY <1>1, <2>1 DEF Secret
  <2>3. call[q].at # "rotate" => call[q].s \in SessionIds
    BY <1>7, CallKnown, PointKnows DEF Discreet, Opening, Known
  <2>4. QED BY <1>3, <1>4, <2>1, <2>2, <2>3, SessionAssumption DEF Secret
<1>8. /\ UsersStay /\ lastToken <= lastToken'
      /\ \A s \in SessionIds : row'[s].user # NoUser =>
            row[s].user # NoUser /\ row'[s].token = row[s].token
  BY <1>1, <1>2 DEF UsersStay
<1>9. QED BY <1>2, <1>5, <1>6, <1>7, <1>8, TokenStep

LEMMA TokensInit == Init => TokenInv
<1> SUFFICES ASSUME Init PROVE TokenInv
  OBVIOUS
<1>1. lastToken = 0 /\ \A r \in Requests : call[r] = Idle
  BY DEF Init
<1>2. \A r \in Requests : Carried(r)
  BY <1>1 DEF Carried, Idle, Discreet, Opening, Holding
<1>3. \A s \in SessionIds : row[s].user = NoUser
  BY DEF Init, Blank
<1>4. QED BY <1>1, <1>2, <1>3 DEF TokenInv, Init

LEMMA TokensNext == IInv /\ IInv' /\ Ties /\ TokenInv /\ [Next]_vars => TokenInv'
<1> SUFFICES ASSUME IInv, IInv', Ties, TokenInv, [Next]_vars PROVE TokenInv'
  OBVIOUS
<1>1. ASSUME UNCHANGED <<row, call, kept, lastToken>> PROVE TokenInv'
  BY <1>1 DEF TokenInv, Carried, Secret, Discreet, Opening, Holding, OpensOnly
<1>2. CASE UNCHANGED vars \/ Tick
  BY <1>1, <1>2 DEF vars, Tick
<1>3. CASE \E u \in Users, status \in Statuses : HostSetStatus(u, status)
  BY <1>1, <1>3 DEF HostSetStatus
<1>4. ASSUME NEW r \in Requests, Serve(r) PROVE TokenInv'
  <2>1. CASE Plain(r)
    BY <2>1, PlainTokens
  <2>2. CASE ~Plain(r)
    BY <1>4, <2>2, LookupTokens, ValidateTokens, TouchTokens, RotateTokens, InsertTokens
       DEF Plain
  <2>3. QED BY <2>1, <2>2
<1>5. QED BY <1>2, <1>3, <1>4, ArriveTokens, ReceiveTokens DEF Next

-----------------------------------------------------------------------------
\* Who could name which session.

\* A handler that could name the session s, and a client that could, itself or
\* through a handler of its own.
Aware(r, s) ==
    \/ row[s].token \in {call[r].token, call[r].out}
    \/ Claims(call[r]) /\ call[r].s = s

Knows(k, s) ==
    \/ row[s].token \in kept[k]
    \/ \E r \in Requests : Owner[r] = k /\ Aware(r, s)

\* How the tokens of a handler change.
LEMMA ServeCarries ==
  ASSUME IInv, NEW r \in Requests, Serve(r)
  PROVE  /\ call'[r].token \in {call[r].token, call[r].out}
         /\ \/ call'[r].out = call[r].out
            \/ call'[r].out = 0 /\ call'[r].at = "refused" /\ call[r].op = "login"
            \/ call'[r].out = 0 /\ Rotate(r)
            \/ call'[r].out = lastToken + 1 /\ call'[r].at = "rotate" /\ Touch(r)
            \/ call'[r].out = lastToken + 1 /\ call'[r].at = "insert" /\ Validate(r)
<1> DEFINE c == call[r]
           d == call'[r]
<1>0. c \in Call /\ Flowing(c)
  BY CallKnown
<1>1. CASE Touch(r)
  <2>1. d = Admitted(c) /\ c.op \in ByToken \cup {"again"}
    BY <1>0, <1>1, BecomeIs, GatedKnows DEF Touch
  <2>2. QED BY <1>0, <1>1, <2>1, AdmittedCarries
<1>2. CASE Rotate(r)
  BY <1>2, RotateCarries
<1>3. CASE Validate(r) /\ d.at = "insert"
  <2>1. ASSUME Become(r, Refusal(c)) PROVE FALSE
    BY <1>0, <1>3, <2>1, BecomeIs, RefusalFields
  <2>2. PICK s \in SessionIds :
          Become(r, [c EXCEPT !.at = "insert", !.s = s, !.out = lastToken + 1])
    BY <1>3, <2>1 DEF Validate
  <2>3. d = [c EXCEPT !.at = "insert", !.s = s, !.out = lastToken + 1]
    BY <2>2, BecomeIs
  <2>4. QED BY <1>0, <1>3, <2>3 DEF Call
<1>4. CASE ~Touch(r) /\ ~Rotate(r) /\ ~(Validate(r) /\ d.at = "insert")
  BY <1>4, QuietTokens
<1>5. QED BY <1>1, <1>2, <1>3, <1>4

\* What a statement does to the tokens of the rows.
LEMMA ServeWrites ==
  ASSUME IInv, Ties, NEW r \in Requests, Serve(r), NEW s \in SessionIds
  PROVE  /\ kept' = kept /\ jar' = jar
         /\ row[s].user # NoUser => row'[s].user # NoUser /\ (row[s].revoked => row'[s].revoked)
         /\ row[s].user # NoUser =>
              \/ row'[s].token = row[s].token
              \/ /\ Rotate(r) /\ s = call[r].s /\ Claims(call[r])
                 /\ row'[s].token = call[r].out /\ Discreet(call[r])
         /\ row[s].user = NoUser /\ row'[s].user # NoUser =>
              /\ Insert(r) /\ s = call[r].s /\ row'[s].token = call[r].out
<1>1. kept' = kept /\ jar' = jar
  BY DEF Serve, Lookup, Gate, Evict, Touch, Rotate, List, Revoke, RevokeAll,
     Validate, Insert, Factors, Pend, Verify, Clear, Hook, ReadUser, WriteStatus, Anonymize
<1>2. CASE Insert(r)
  BY <1>1, <1>2, InsertRow
<1>3. CASE Rotate(r)
  <2>1. call[r].op \in Gated /\ call[r].at = "rotate"
    BY <1>3, CallKnown, PointKnows DEF Rotate
  <2>2. Claims(call[r]) /\ Discreet(call[r])
    BY <2>1 DEF Claims, Holding, ByToken, Discreet
  <2>3. QED BY <1>1, <1>3, <2>2, RotateRow
<1>4. CASE ~Insert(r) /\ ~Rotate(r)
  BY <1>1, <1>4, ServeMild DEF Mild
<1>5. QED BY <1>2, <1>3, <1>4

\* Nobody learns of a session that was there before.
LEMMA ServeKnows ==
  ASSUME IInv, Ties, TokenInv, NEW r \in Requests, Serve(r),
         NEW s \in SessionIds, row[s].user # NoUser, NEW k \in Clients, Knows(k, s)'
  PROVE  Knows(k, s)
<1>0. kept' = kept /\ \A q \in Requests \ {r} : call'[q] = call[q]
  BY ServeWrites, ServeOthers
<1>1. CASE row'[s].token = row[s].token
  <2>1. row[s].token \in 1..lastToken /\ lastToken \in Nat
    BY <1>1, NumbersAre DEF TokenInv
  <2>2. row[s].token # 0 /\ row[s].token # lastToken + 1
    BY <2>1
  <2>3. row[s].token \in {call'[r].token, call'[r].out} =>
          row[s].token \in {call[r].token, call[r].out}
    BY <2>2, ServeCarries
  <2>4. Claims(call'[r]) /\ call'[r].s = s => Aware(r, s)
    <3> SUFFICES ASSUME Claims(call'[r]), call'[r].s = s PROVE Aware(r, s)
      OBVIOUS
    <3>1. CASE Insert(r)
      BY <1>1, <3>1, InsertRow, LoginStep DEF Same
    <3>2. CASE ~Insert(r)
      BY <3>2, ServeClaims DEF Aware, Matches
    <3>3. QED BY <3>1, <3>2
  <2>5. Aware(r, s)' => Aware(r, s)
    BY <1>1, <2>3, <2>4 DEF Aware
  <2>6. \A q \in Requests \ {r} : Aware(q, s)' => Aware(q, s)
    BY <1>0, <1>1 DEF Aware
  <2>7. QED BY <1>0, <1>1, <2>5, <2>6 DEF Knows
<1>2. CASE row'[s].token # row[s].token
  <2>1. /\ Rotate(r) /\ s = call[r].s /\ Claims(call[r]) /\ row'[s].token = call[r].out
        /\ Discreet(call[r])
    BY <1>2, ServeWrites
  <2>2. Secret(r) /\ Aware(r, s)
    BY <2>1 DEF TokenInv, Carried, Aware
  <2>3. \A q \in Requests \ {r} : Aware(q, s)' => Aware(q, s)
    BY <1>0, <2>1, <2>2 DEF Secret, Aware
  <2>4. \A c \in Clients : row'[s].token \notin kept'[c]
    BY <1>0, <2>1, <2>2 DEF Secret
  <2>5. QED BY <1>2, <2>2, <2>3, <2>4 DEF Knows
<1>3. QED BY <1>1, <1>2

LEMMA CallerKnows ==
  ASSUME IInv, TokenInv, NEW r \in Requests, Arrive(r) \/ Receive(r),
         NEW s \in SessionIds, row[s].user # NoUser, NEW k \in Clients, Knows(k, s)'
  PROVE  Knows(k, s)
<1>1. row' = row /\ \A q \in Requests \ {r} : call'[q] = call[q]
  BY ArrivesAt, BecomeIs DEF Receive
<1>2. row[s].token # 0
  BY NumbersAre DEF TokenInv
<1>3. CASE \E q \in Requests \ {r} : Owner[q] = k /\ Aware(q, s)'
  BY <1>1, <1>3 DEF Knows, Aware
<1>4. CASE Arrive(r)
  <2>1. kept' = kept
    BY <1>4, ArrivesAt
  <2>2. ASSUME Aware(r, s)' PROVE row[s].token \in kept[Owner[r]]
    <3>1. ~Claims(call'[r])
      BY <1>4, ArrivesAt, TokenOps DEF Claims, Holding, LoggedIn, ByToken, Gated, ByAdmin
    <3>2. row[s].token \in {call'[r].token, call'[r].out}
      BY <1>1, <2>2, <3>1 DEF Aware
    <3>3. QED BY <1>2, <1>4, <3>2, ArrivesAt
  <2>3. QED BY <1>1, <1>3, <2>1, <2>2 DEF Knows
<1>5. CASE Receive(r)
  <2>1. call'[r] = Idle
    BY <1>5, BecomeIs DEF Receive
  <2>2. ~Aware(r, s)'
    BY <1>1, <1>2, <2>1 DEF Aware, Idle, Claims, Holding, LoggedIn
  <2>3. row[s].token \in kept'[k] =>
          row[s].token \in kept[k] \/ (k = Owner[r] /\ row[s].token = call[r].out)
    <3>1. kept \in [Clients -> SUBSET Tokens] /\ Owner[r] \in Clients
      BY OwnerAssumption DEF IInv, TypeOK
    <3>2. QED BY <1>5, <3>1 DEF Receive
  <2>4. QED BY <1>1, <1>3, <2>2, <2>3 DEF Knows, Aware
<1>6. QED BY <1>4, <1>5

-----------------------------------------------------------------------------
\* The second factor.

\* A handler that may be, or will be, answered as signed in without asking the session
\* for its second factor again.
Settling(c) ==
    \/ c.op = "again"
    \/ c.op \in ByToken /\ c.at \in {"gate", "evict", "touch"} /\ ~c.snap.mfaPending
    \/ c.at = "clear"
    \/ c.op \in Gated /\ Holding(c) /\ c.at \notin {"gate", "evict", "touch"}

Settled(c) == Settling(c) /\ c.who \in MFAUsers => c.s \in proved

\* Nobody can name the session.
Unknown(s) == \A k \in Clients : ~Knows(k, s)

\* A session that is not pending, of a user with a second factor, was proved; but for
\* the moment its login needs to look the factor up, and where the login could not
\* mark it and has given its token to nobody.
ProvedInv ==
    /\ \A s \in SessionIds :
          row[s].user \in MFAUsers /\ ~row[s].mfaPending /\ s \notin proved
              => Unknown(s) \/ \E r \in Requests : Opening(call[r]) /\ call[r].s = s
    /\ \A r \in Requests : Settled(call[r])

\* A step of one handler keeps that, if it does not make a session presentable and
\* settles its own handler.
LEMMA ProvedStep ==
  ASSUME ProvedInv, NEW r \in Requests, proved \subseteq proved',
         \A q \in Requests \ {r} : call'[q] = call[q],
         \A s \in SessionIds :
            row'[s].user \in MFAUsers /\ ~row'[s].mfaPending /\ s \notin proved' =>
              \/ /\ row[s].user \in MFAUsers /\ ~row[s].mfaPending
                 /\ Opening(call[r]) /\ call[r].s = s
                      => Opening(call'[r]) /\ call'[r].s = s
              \/ Opening(call'[r]) /\ call'[r].s = s
              \/ Unknown(s)',
         \A s \in SessionIds : row[s].user # NoUser =>
            \A k \in Clients : Knows(k, s)' => Knows(k, s),
         Settling(call'[r]) /\ call'[r].who \in MFAUsers => call'[r].s \in proved'
  PROVE  ProvedInv'
<1>1. ASSUME NEW s \in SessionIds,
             row'[s].user \in MFAUsers /\ ~row'[s].mfaPending /\ s \notin proved'
      PROVE  Unknown(s)' \/ \E q \in Requests : Opening(call'[q]) /\ call'[q].s = s
  <2>1. CASE Unknown(s)' \/ (Opening(call'[r]) /\ call'[r].s = s)
    BY <2>1
  <2>2. CASE /\ row[s].user \in MFAUsers /\ ~row[s].mfaPending
             /\ ~(Opening(call[r]) /\ call[r].s = s)
    <3>1. CASE Unknown(s)
      <4>1. row[s].user # NoUser
        BY <2>2, UserAssumption
      <4>2. QED BY <3>1, <4>1 DEF Unknown
    <3>2. CASE \E q \in Requests : Opening(call[q]) /\ call[q].s = s
      BY <2>2, <3>2
    <3>3. QED BY <1>1, <2>2, <3>1, <3>2 DEF ProvedInv
  <2>3. QED BY <1>1, <2>1, <2>2
<1>2. ASSUME NEW q \in Requests, NEW e, e = call'[q], Settling(e), e.who \in MFAUsers
      PROVE  e.s \in proved'
  <2>1. CASE q = r
    BY <1>2, <2>1
  <2>2. CASE q # r
    BY <1>2, <2>2 DEF ProvedInv, Settled
  <2>3. QED BY <2>1, <2>2
<1>3. \A q \in Requests : Settled(call[q])'
  BY <1>2 DEF Settled, Settling, Holding
<1>4. QED BY <1>1, <1>3 DEF ProvedInv, Opening

LEMMA LookupSnap ==
  ASSUME IInv, NEW r \in Requests, Lookup(r), call'[r].at = "gate"
  PROVE  call'[r].snap = row[call'[r].s]
<1> DEFINE c == call[r]
<1>1. c \in Call
  BY CallKnown
<1>2. ~Become(r, Refusal(c))
  BY Refusing
<1>3. PICK s \in SessionIds :
        Become(r, [c EXCEPT !.at = "gate", !.s = s, !.who = row[s].user, !.snap = row[s]])
  BY <1>2 DEF Lookup
<1>4. call'[r] = [c EXCEPT !.at = "gate", !.s = s, !.who = row[s].user, !.snap = row[s]]
  BY <1>3, BecomeIs
<1>5. call'[r].s = s /\ call'[r].snap = row[s]
  BY <1>1, <1>4 DEF Call
<1>6. QED BY <1>5

\* Between the gate and the answer nothing makes a handler settling but a right code.
LEMMA PlainSettles ==
  ASSUME IInv, NEW r \in Requests, Plain(r), Settling(call'[r])
  PROVE  Settling(call[r]) \/ (Verify(r) /\ call'[r].at = "clear")
<1> DEFINE c == call[r]
           d == call'[r]
<1>0. /\ c \in Call /\ Flowing(c) /\ Serve(r) /\ Same(c, d)
      /\ d.at \in {"gate", "evict", "touch"} => Gate(r)
  BY CallKnown, PlainStep DEF Plain
<1>1. CASE d.op = "again"
  BY <1>0, <1>1 DEF Settling, Same
<1>2. CASE d.op \in ByToken /\ d.at \in {"gate", "evict", "touch"} /\ ~d.snap.mfaPending
  <2>1. Gate(r) /\ c.op \in ByToken /\ c.at = "gate" /\ c.snap = d.snap
    BY <1>0, <1>2, GoingTokens DEF Gate, Same
  <2>2. QED BY <1>2, <2>1 DEF Settling
<1>3. CASE d.at = "clear"
  <2>1. CASE Lookup(r) \/ Gate(r) \/ Evict(r) \/ List(r) \/ Revoke(r) \/ RevokeAll(r)
    BY <1>3, <2>1, LookupStep, GateStep, EvictStep, ListStep, RevokeStep, RevokeAllStep
  <2>2. CASE Validate(r) \/ Factors(r) \/ Pend(r) \/ Hook(r)
    BY <1>3, <2>2, ValidateStep, LoginStep, HookStep
  <2>3. CASE ReadUser(r) \/ WriteStatus(r) \/ Anonymize(r)
    BY <1>3, <2>3, AdminStep, AnonymizeStep
  <2>4. CASE Clear(r)
    BY <1>3, <2>4, Going, Refusing DEF Clear, Goto
  <2>5. CASE Verify(r)
    BY <1>3, <2>5
  <2>6. QED BY <1>0, <2>1, <2>2, <2>3, <2>4, <2>5 DEF Serve, Plain
<1>4. CASE d.op \in Gated /\ Holding(d) /\ d.at \notin {"gate", "evict", "touch"}
  <2>1. CASE Lookup(r)
    BY <1>4, <2>1, LookupStep DEF Plain, Holding
  <2>2. CASE ~Lookup(r)
    <3>1. Holding(c) /\ c.op \in Gated
      BY <1>0, <1>4, <2>2, HeldBefore DEF Same
    <3>2. c.at # "gate"
      <4>1. CASE Gate(r)
        BY <1>4, <4>1, GateStep
      <4>2. CASE ~Gate(r)
        BY <1>0, <2>2, <4>2 DEF Serve, Evict, Touch, Rotate, List, Revoke, RevokeAll,
           Validate, Insert, Factors, Pend, Verify, Clear, Hook, ReadUser, WriteStatus,
           Anonymize
      <4>3. QED BY <4>1, <4>2
    <3>3. c.at # "evict"
      <4>1. CASE Evict(r)
        BY <1>4, <4>1, EvictStep DEF Holding
      <4>2. CASE ~Evict(r)
        BY <1>0, <2>2, <4>2 DEF Serve, Gate, Touch, Rotate, List, Revoke, RevokeAll,
           Validate, Insert, Factors, Pend, Verify, Clear, Hook, ReadUser, WriteStatus,
           Anonymize
      <4>3. QED BY <4>1, <4>2
    <3>4. c.at # "touch"
      BY <1>0 DEF Plain, Serve, Lookup, Gate, Evict, Rotate, List, Revoke, RevokeAll,
         Validate, Insert, Factors, Pend, Verify, Clear, Hook, ReadUser, WriteStatus,
         Anonymize
    <3>5. QED BY <3>1, <3>2, <3>3, <3>4 DEF Settling
  <2>3. QED BY <2>1, <2>2
<1>5. QED BY <1>1, <1>2, <1>3, <1>4 DEF Settling

LEMMA LookupProved ==
  ASSUME IInv, Ties, TokenInv, ProvedInv, NEW r \in Requests, Lookup(r)
  PROVE  ProvedInv'
<1> DEFINE c == call[r]
           d == call'[r]
<1>1. /\ Serve(r) /\ row' = row /\ proved' = proved /\ ~Opening(c) /\ c.at = "lookup"
      /\ Settled(c) /\ d.op = c.op
  BY LookupStep DEF Serve, Lookup, Opening, hvars, ProvedInv
<1>2. \A q \in Requests \ {r} : call'[q] = call[q]
  BY <1>1, ServeOthers
<1>3. ASSUME Settling(d), d.who \in MFAUsers PROVE d.s \in proved
  <2>1. CASE d.at = "refused"
    <3>1. c.op = "again" /\ Same(c, d)
      BY <1>3, <2>1, LookupStep DEF Settling, Holding, Same
    <3>2. QED BY <1>1, <1>3, <3>1 DEF Settled, Settling, Same
  <2>2. CASE d.at = "gate"
    <3>1. d.s \in SessionIds /\ d.who = row[d.s].user /\ d.snap = row[d.s]
      BY <2>2, LookupStep, LookupSnap
    <3>2. CASE c.op = "again"
      <4>1. d.s = c.s
        BY <2>2, <3>2, LookupOpens
      <4>2. d.who = c.who
        BY <3>1, <3>2, <4>1 DEF Ties, Tied, Claims
      <4>3. QED BY <1>1, <1>3, <3>2, <4>1, <4>2 DEF Settled, Settling
    <3>3. CASE c.op # "again"
      <4>1. ~row[d.s].mfaPending
        BY <1>1, <1>3, <2>2, <3>1, <3>3 DEF Settling
      <4>2. SUFFICES ASSUME d.s \notin proved PROVE FALSE
        OBVIOUS
      <4>3. ~Unknown(d.s)
        <5>1. row[d.s].token = c.token
          BY <2>2, LookupStep DEF Matches
        <5>2. QED BY <5>1, OwnerAssumption DEF Unknown, Knows, Aware
      <4>4. PICK q \in Requests : Opening(call[q]) /\ call[q].s = d.s
        BY <1>3, <3>1, <4>1, <4>2, <4>3 DEF ProvedInv
      <4>5. q # r /\ Discreet(call[q]) /\ call[q].at # "rotate"
        BY <1>1, <4>4 DEF Discreet, Opening
      <4>6. QED BY <2>2, <4>4, <4>5, LookupOpens
    <3>4. QED BY <3>2, <3>3
  <2>3. QED BY <2>1, <2>2, LookupStep
<1>4. QED BY <1>1, <1>2, <1>3, ServeKnows, ProvedStep

LEMMA TouchProved ==
  ASSUME IInv, Ties, TokenInv, ProvedInv, NEW r \in Requests, Touch(r)
  PROVE  ProvedInv'
<1> DEFINE c == call[r]
           d == call'[r]
<1>1. /\ Serve(r) /\ proved' = proved /\ c \in Call /\ Settled(c) /\ ~Opening(c)
      /\ c.op \in ByToken \cup {"again"} /\ d = Admitted(c) /\ c.at = "touch"
  BY CallKnown, GatedKnows, BecomeIs DEF Serve, Touch, Opening, hvars, ProvedInv
<1>2. /\ d.s = c.s /\ d.who = c.who
      /\ d.at \notin {"gate", "evict", "touch", "clear"}
      /\ d.op = c.op \/ (c.op \in Gated /\ d.at = "lookup")
  <2>1. c.op = "full" => c.op \in Gated
    BY DEF Gated
  <2>2. QED BY <1>1, <2>1, AdmittedFields
<1>3. c.op \in Gated /\ d.at # "refused" => ~c.snap.mfaPending
  BY <1>1, AdmittedCarries
<1>4. Settling(d) => Settling(c)
  <2> SUFFICES ASSUME Settling(d) PROVE Settling(c)
    OBVIOUS
  <2>1. CASE c.op = "again"
    BY <2>1 DEF Settling
  <2>2. CASE c.op # "again"
    <3>1. c.op \in Gated /\ d.at # "refused"
      BY <1>2, <2>2 DEF Settling, Holding
    <3>2. QED BY <1>1, <1>3, <3>1 DEF Settling, ByToken
  <2>3. QED BY <2>1, <2>2
<1>5. \A s \in SessionIds : row'[s].user = row[s].user
                            /\ row'[s].mfaPending = row[s].mfaPending
  BY <1>1, ServeMild DEF Mild, Touch, Insert, Rotate, Pend, Clear
<1>6. \A q \in Requests \ {r} : call'[q] = call[q]
  BY <1>1, ServeOthers
<1>7. d.who \in MFAUsers /\ Settling(d) => d.s \in proved
  BY <1>1, <1>2, <1>4 DEF Settled
<1>8. QED BY <1>1, <1>5, <1>6, <1>7, ServeKnows, ProvedStep

LEMMA RotateProved ==
  ASSUME IInv, Ties, TokenInv, ProvedInv, NEW r \in Requests, Rotate(r)
  PROVE  ProvedInv'
<1> DEFINE c == call[r]
           d == call'[r]
<1>1. /\ Serve(r) /\ proved' = proved /\ c \in Call /\ Settled(c) /\ ~Opening(c)
      /\ c.op \in Gated /\ c.at = "rotate"
  BY CallKnown, RotateStep DEF Serve, Rotate, Opening, hvars, ProvedInv
<1>2. d.s = c.s /\ d.who = c.who
  BY RotateStep
<1>3. Settling(c)
  BY <1>1 DEF Settling, Holding, ByToken
<1>4. \A q \in Requests \ {r} : call'[q] = call[q]
  BY <1>1, ServeOthers
<1>5. d.who \in MFAUsers => d.s \in proved
  BY <1>1, <1>2, <1>3 DEF Settled
<1>6. QED BY <1>1, <1>4, <1>5, RotateRow, ServeKnows, ProvedStep

\* The login leaves the session of a user with a second factor pending, or unknown.
LEMMA LoginProved ==
  ASSUME "factorRead" \notin Faults, IInv, Ties, TokenInv, ProvedInv, NEW r \in Requests,
         Insert(r) \/ Factors(r) \/ Pend(r) \/ (Validate(r) /\ call'[r].at = "insert")
  PROVE  ProvedInv'
<1> DEFINE c == call[r]
           d == call'[r]
<1>1. Serve(r) /\ proved' = proved /\ c \in Call /\ Flowing(c) /\ c.op = "login"
  BY CallKnown, PointKnows DEF Serve, Insert, Factors, Pend, Validate, hvars
<1>0. \A s \in SessionIds : row[s].user # NoUser =>
         \A k \in Clients : Knows(k, s)' => Knows(k, s)
  BY <1>1, ServeKnows
<1>2. \A q \in Requests \ {r} : call'[q] = call[q]
  BY <1>1, ServeOthers
<1>3. ~Settling(d)
  <2>1. d.op = "login" /\ d.at # "clear"
    BY <1>1, LoginStep, ValidateStep DEF Same
  <2>2. QED BY <2>1, TokenOps DEF Settling, Gated, ByToken
<1>4. CASE Validate(r) /\ d.at = "insert"
  <2>1. row' = row /\ ~Opening(c)
    BY <1>4 DEF Validate, Opening
  <2>2. QED BY <1>1, <1>2, <1>3, <2>1, <1>0, ProvedStep
<1>5. CASE Insert(r)
  <2>1. Opening(d) /\ d.s = c.s /\ ~Opening(c)
    BY <1>5, Going DEF Insert, Opening, Same
  <2>2. \A s \in SessionIds \ {c.s} : row'[s] = row[s]
    BY <1>5, InsertRow
  <2>3. QED BY <1>1, <1>2, <1>3, <2>1, <2>2, <1>0, ProvedStep
<1>6. CASE Factors(r)
  <2>1. row' = row /\ row[c.s].user = c.who
    <3>1. LoggedIn(c)
      BY <1>1, <1>6 DEF LoggedIn, Factors
    <3>2. QED BY <1>6, <3>1 DEF Factors, Ties, Tied, Claims
  <2>2. c.who \in MFAUsers => Opening(d) /\ d.s = c.s
    <3>1. c.who \in MFAUsers => Goto(r, "pend")
      BY <1>6 DEF Factors, May
    <3>2. QED BY <3>1, Going DEF Opening, Same
  <2>3. \A s \in SessionIds :
          row'[s].user \in MFAUsers /\ Opening(c) /\ c.s = s => Opening(d) /\ d.s = s
    BY <2>1, <2>2
  <2>4. QED BY <1>1, <1>2, <1>3, <2>1, <2>3, <1>0, ProvedStep
<1>7. CASE Pend(r)
  <2>1. c.s \in SessionIds
    BY <1>1, <1>7, PointKnows DEF Pend, Known
  <2>2. CASE row' = [row EXCEPT ![c.s].mfaPending = TRUE]
    <3>1. /\ row'[c.s].mfaPending
          /\ \A s \in SessionIds \ {c.s} : row'[s] = row[s]
      BY <2>1, <2>2, RowTable DEF Row
    <3>2. QED BY <1>0, <1>1, <1>2, <1>3, <3>1, ProvedStep
  <2>3. CASE row' = row /\ Become(r, Refusal(c))
    <3>0. PICK s \in SessionIds : s = c.s
      BY <2>1
    <3>1. /\ Secret(r) /\ Opening(c) /\ c.at # "rotate" /\ lastToken \in Nat
          /\ kept' = kept
      BY <1>7, NumbersAre DEF Pend, Opening, TokenInv, Carried, Discreet
    <3>2. d.token = c.token /\ d.out = 0 /\ d.at = "refused" /\ d.op = "login"
      <4>1. d = Refusal(c)
        BY <2>3, BecomeIs
      <4>2. d.token = c.token /\ d.out = 0
        BY <1>1, <4>1, RefusalTokens
      <4>3. QED BY <1>1, <2>3, <4>2, Refusing DEF Same
    <3>3. row'[s].token = c.out /\ c.out # 0 /\ c.token # c.out
      BY <2>3, <3>0, <3>1 DEF Secret
    <3>4. \A q \in Requests : ~Aware(q, s)'
      <4>1. ~Aware(r, s)'
        BY <3>2, <3>3, TokenOps DEF Aware, Claims, Holding, LoggedIn
      <4>2. ASSUME NEW q \in Requests \ {r} PROVE ~Aware(q, s)'
        BY <1>2, <3>0, <3>1, <3>3 DEF Secret, Aware
      <4>3. QED BY <4>1, <4>2
    <3>5. Unknown(s)'
      BY <3>1, <3>3, <3>4 DEF Unknown, Knows, Secret
    <3>6. QED BY <1>0, <1>1, <1>2, <1>3, <2>3, <3>0, <3>5, ProvedStep
  <2>4. QED BY <1>7, <2>2, <2>3 DEF Pend
<1>8. QED BY <1>4, <1>5, <1>6, <1>7

\* The challenge marks the session as proved before it clears the flag.
LEMMA ChallengeProved ==
  ASSUME IInv, Ties, TokenInv, ProvedInv, NEW r \in Requests, Verify(r) \/ Clear(r)
  PROVE  ProvedInv'
<1> DEFINE c == call[r]
           d == call'[r]
<1>1. /\ Serve(r) /\ c \in Call /\ Flowing(c) /\ ~Opening(c) /\ Same(c, d)
      /\ c.op = "challenge" /\ Known(c) /\ Settled(c)
      /\ d.at \in {"clear", "refused", "hook"}
  BY CallKnown, PointKnows, ChallengeStep DEF Serve, Verify, Clear, Opening, ProvedInv
<1>2. \A q \in Requests \ {r} : call'[q] = call[q]
  BY <1>1, ServeOthers
<1>3. Settling(d) => d.at = "clear"
  BY <1>1 DEF Settling, Same, Gated
<1>4. CASE Verify(r)
  <2>1. row' = row /\ proved \subseteq proved'
    BY <1>4 DEF Verify
  <2>2. d.at = "clear" => d.s \in proved'
    <3>1. Become(r, Refusal(c)) => d.at = "refused"
      BY Refusing
    <3>2. QED BY <1>1, <1>4, <3>1 DEF Verify, Same
  <2>3. QED BY <1>1, <1>2, <1>3, <2>1, <2>2, ServeKnows, ProvedStep
<1>5. CASE Clear(r)
  <2>0. row' = row \/ row' = [row EXCEPT ![c.s].mfaPending = FALSE]
    BY <1>5 DEF Clear
  <2>1. d.at # "clear" /\ c.at = "clear" /\ proved' = proved
    BY <1>5, Going, Refusing DEF Clear, Goto, hvars
  <2>2. \A s \in SessionIds \ {c.s} : row'[s] = row[s]
    BY <1>1, <2>0, RowTable
  <2>3. row'[c.s].user = c.who
    <3>1. Holding(c)
      BY <1>1, <2>1 DEF Holding, ByToken
    <3>2. row[c.s].user = c.who
      BY <3>1 DEF Ties, Tied, Claims
    <3>3. row'[c.s].user = row[c.s].user
      BY <1>1, <2>0, RowTable DEF Row, Known
    <3>4. QED BY <3>2, <3>3
  <2>4. c.who \in MFAUsers => c.s \in proved
    BY <1>1, <2>1 DEF Settled, Settling
  <2>5. QED BY <1>1, <1>2, <1>3, <2>1, <2>2, <2>3, <2>4, ServeKnows, ProvedStep
<1>6. QED BY <1>4, <1>5

LEMMA PlainProved ==
  ASSUME IInv, Ties, TokenInv, ProvedInv, NEW r \in Requests, Plain(r),
         ~Lookup(r), ~Factors(r), ~Pend(r), ~Verify(r), ~Clear(r)
  PROVE  ProvedInv'
<1> DEFINE c == call[r]
           d == call'[r]
<1>1. Serve(r) /\ Same(c, d) /\ Settled(c) /\ (Settling(d) => Settling(c))
  BY PlainStep, PlainSettles DEF Plain, ProvedInv
<1>2. \A q \in Requests \ {r} : call'[q] = call[q]
  BY <1>1, ServeOthers
<1>3. \A s \in SessionIds : row'[s].user = row[s].user
                            /\ row'[s].mfaPending = row[s].mfaPending
  BY <1>1, ServeMild DEF Mild, Plain
<1>4. proved' = proved /\ ~Opening(c)
  BY <1>1 DEF Plain, Serve, Gate, Evict, List, Revoke, RevokeAll, Validate, Hook,
     ReadUser, WriteStatus, Anonymize, hvars, Opening
<1>5. d.who \in MFAUsers /\ Settling(d) => d.s \in proved
  BY <1>1 DEF Settled, Same
<1>6. QED BY <1>1, <1>2, <1>3, <1>4, <1>5, ServeKnows, ProvedStep

LEMMA CallerProved ==
  ASSUME IInv, TokenInv, ProvedInv, NEW r \in Requests, Arrive(r) \/ Receive(r)
  PROVE  ProvedInv'
<1> DEFINE c == call[r]
           d == call'[r]
<1>1. row' = row /\ proved' = proved /\ \A q \in Requests \ {r} : call'[q] = call[q]
  BY ArrivesAt, BecomeIs DEF Receive
<1>2. ~Opening(c)
  BY DEF Arrive, Receive, Present, Login, Administer, Opening
<1>3. ~Settling(d)
  <2>1. CASE Arrive(r)
    <3>1. "again" \notin ByToken \cup ByAdmin
      BY DEF ByToken, Gated, ByAdmin
    <3>2. QED BY <2>1, <3>1, ArrivesAt, TokenOps DEF Settling, Holding
  <2>2. CASE Receive(r)
    <3>1. d = Idle
      BY <2>2, BecomeIs DEF Receive
    <3>2. d.at = "idle" /\ d.op = "none"
      BY <3>1 DEF Idle
    <3>3. QED BY <3>2 DEF Settling, Holding
  <2>3. QED BY <2>1, <2>2
<1>4. QED BY <1>1, <1>2, <1>3, CallerKnows, ProvedStep

LEMMA ProvedInit == Init => ProvedInv
<1> SUFFICES ASSUME Init PROVE ProvedInv
  OBVIOUS
<1>1. \A s \in SessionIds : row[s].user \notin MFAUsers
  BY UserAssumption DEF Init, Blank
<1>2. \A r \in Requests : ~Settling(call[r])
  BY DEF Init, Idle, Settling, Holding
<1>3. QED BY <1>1, <1>2 DEF ProvedInv, Settled

LEMMA ProvedNext ==
  "factorRead" \notin Faults /\ IInv /\ Ties /\ TokenInv /\ ProvedInv /\ [Next]_vars
    => ProvedInv'
<1> SUFFICES ASSUME "factorRead" \notin Faults, IInv, Ties, TokenInv, ProvedInv, [Next]_vars
             PROVE  ProvedInv'
  OBVIOUS
<1>1. ASSUME UNCHANGED <<row, call, kept, proved>> PROVE ProvedInv'
  BY <1>1 DEF ProvedInv, Settled, Settling, Opening, Holding, Unknown, Knows, Aware
<1>2. CASE UNCHANGED vars \/ Tick
  BY <1>1, <1>2 DEF vars, hvars, Tick
<1>3. CASE \E u \in Users, status \in Statuses : HostSetStatus(u, status)
  BY <1>1, <1>3 DEF HostSetStatus, hvars
<1>4. ASSUME NEW r \in Requests, Serve(r) PROVE ProvedInv'
  <2>1. CASE Lookup(r)
    BY <2>1, LookupProved
  <2>2. CASE Touch(r)
    BY <2>2, TouchProved
  <2>3. CASE Rotate(r)
    BY <2>3, RotateProved
  <2>4. CASE Verify(r) \/ Clear(r)
    BY <2>4, ChallengeProved
  <2>5. CASE Insert(r) \/ Factors(r) \/ Pend(r) \/ (Validate(r) /\ call'[r].at = "insert")
    BY <2>5, LoginProved
  <2>6. QED BY <1>4, <2>1, <2>2, <2>3, <2>4, <2>5, PlainProved DEF Plain
<1>5. QED BY <1>2, <1>3, <1>4, CallerProved DEF Next

\* As long as the factor table can be read at login, requireSession and
\* requireFullSession let a user with a second factor through only on a session on
\* which a code was verified, whatever rotations, second gates, lost updates and other
\* handlers come in between.  The callers that ask GetSessionByToken themselves do not
\* look at mfa_pending, and nothing is claimed of them: they do serve it.
THEOREM SecondFactorBehindGuard ==
  ASSUME "factorRead" \notin Faults
  PROVE  Spec => []MfaProvedBehindGuard
<1>1. Init => IInv /\ Ties /\ TokenInv /\ ProvedInv
  BY InitTyped, TiesInit, TokensInit, ProvedInit
<1>2. IInv /\ Ties /\ TokenInv /\ ProvedInv /\ [Next]_vars
        => IInv' /\ Ties' /\ TokenInv' /\ ProvedInv'
  BY NextTyped, TiesNext, TokensNext, ProvedNext
<1>3. ProvedInv => MfaProvedBehindGuard
  <2> SUFFICES ASSUME ProvedInv, NEW r \in Requests, Accepted(r),
                      call[r].op \in Gated \cup {"again"}, call[r].who \in MFAUsers
               PROVE  call[r].s \in proved
    BY DEF MfaProvedBehindGuard
  <2>1. Settling(call[r])
    BY DEF Accepted, Settling, Holding, ByToken
  <2>2. QED BY <2>1 DEF ProvedInv, Settled
<1>4. QED BY <1>1, <1>2, <1>3, PTL DEF Spec

-----------------------------------------------------------------------------
\* Whose session it is, where a client has one call at a time.

\* Every session has one client.
OwnerInv ==
    \A s \in SessionIds : row[s].user # NoUser =>
        \A k, l \in Clients : Knows(k, s) /\ Knows(l, s) => k = l

\* A handler that hands over, or will, the token of the session it has.
Shown(c) == c.out # 0 /\ c.at \notin {"insert", "rotate"}

Backed(r) ==
    Shown(call[r]) => /\ call[r].s \in SessionIds /\ row[call[r].s].user # NoUser
                      /\ row[call[r].s].token = call[r].out

\* The cookie of a browser opens a session, or a handler is bringing it another one.
Current(k) ==
    jar[k] # 0 =>
        \/ \E s \in SessionIds : row[s].user # NoUser /\ row[s].token = jar[k]
        \/ \E r \in Requests : /\ Owner[r] = k /\ Shown(call[r])
                               /\ call[r].op # "login"

Unended == \A s \in SessionIds : row[s].user # NoUser => ~row[s].revoked

\* Before the gate has admitted its caller a handler has nothing to hand over, unless
\* it is the second pass.
Empty(c) == c.at \in {"idle", "lookup", "gate", "evict", "touch"} /\ c.op # "again" => c.out = 0

CookieInv ==
    /\ \A k \in Clients : jar[k] = 0 \/ jar[k] \in kept[k]
    /\ \A r \in Requests : Empty(call[r])
    /\ Unended => (\A r \in Requests : Backed(r)) /\ (\A k \in Clients : Current(k))

\* A client learns of no session that others have.
LEMMA OwnerStep ==
  ASSUME OwnerInv, NEW r \in Requests,
         \A s \in SessionIds : row'[s].user # NoUser =>
            \/ row[s].user # NoUser /\ \A k \in Clients : Knows(k, s)' => Knows(k, s)
            \/ \A k \in Clients : Knows(k, s)' => k = Owner[r]
  PROVE  OwnerInv'
  BY DEF OwnerInv

LEMMA ServeOwner ==
  ASSUME IInv, Ties, TokenInv, OwnerInv, NEW r \in Requests, Serve(r)
  PROVE  OwnerInv'
<1> SUFFICES ASSUME NEW s \in SessionIds, row'[s].user # NoUser
             PROVE  \/ /\ row[s].user # NoUser
                       /\ \A k \in Clients : Knows(k, s)' => Knows(k, s)
                    \/ \A k \in Clients : Knows(k, s)' => k = Owner[r]
  BY OwnerStep
<1>0. kept' = kept /\ \A q \in Requests \ {r} : call'[q] = call[q]
  BY ServeWrites, ServeOthers
<1>1. CASE row[s].user = NoUser
  <2>1. Insert(r) /\ s = call[r].s /\ row'[s].token = call[r].out
    BY <1>1, ServeWrites
  <2>2. Secret(r) /\ call[r].at # "rotate"
    BY <2>1 DEF TokenInv, Carried, Discreet, Insert
  <2>3. \A q \in Requests \ {r} : ~Aware(q, s)'
    BY <1>0, <2>1, <2>2 DEF Secret, Aware
  <2>4. \A k \in Clients : row'[s].token \notin kept'[k]
    BY <1>0, <2>1, <2>2 DEF Secret
  <2>5. QED BY <2>3, <2>4 DEF Knows
<1>2. CASE row[s].user # NoUser
  BY <1>2, ServeKnows
<1>3. QED BY <1>1, <1>2

LEMMA CallerOwner ==
  ASSUME IInv, TokenInv, OwnerInv, NEW r \in Requests, Arrive(r) \/ Receive(r)
  PROVE  OwnerInv'
<1>1. row' = row
  BY ArrivesAt DEF Receive
<1>2. QED BY <1>1, CallerKnows, OwnerStep

LEMMA OwnerNext == IInv /\ Ties /\ TokenInv /\ OwnerInv /\ [Next]_vars => OwnerInv'
<1> SUFFICES ASSUME IInv, Ties, TokenInv, OwnerInv, [Next]_vars PROVE OwnerInv'
  OBVIOUS
<1>1. ASSUME UNCHANGED <<row, call, kept>> PROVE OwnerInv'
  BY <1>1 DEF OwnerInv, Knows, Aware
<1>2. CASE UNCHANGED vars \/ Tick
  BY <1>1, <1>2 DEF vars, Tick
<1>3. CASE \E u \in Users, status \in Statuses : HostSetStatus(u, status)
  BY <1>1, <1>3 DEF HostSetStatus
<1>4. QED BY <1>2, <1>3, ServeOwner, CallerOwner DEF Next

\* Each client makes one call at a time, and every answer arrives.
OneSlotPer == \A q, r \in Requests : Owner[q] = Owner[r] => q = r
OneCallEach == OneSlotPer /\ "reply" \notin Faults

\* Then nobody else can change the token of a session that a client knows.
LEMMA OwnRotation ==
  ASSUME OneCallEach, IInv, Ties, TokenInv, OwnerInv, NEW r \in Requests, Serve(r),
         NEW s \in SessionIds, row[s].user # NoUser, row'[s].token # row[s].token,
         NEW k \in Clients, Knows(k, s)
  PROVE  Owner[r] = k /\ \A q \in Requests : Owner[q] = k => q = r
<1>1. s = call[r].s /\ Claims(call[r])
  BY ServeWrites
<1>2. Knows(Owner[r], s) /\ Owner[r] \in Clients
  BY <1>1, OwnerAssumption DEF Knows, Aware
<1>3. QED BY <1>2 DEF OwnerInv, OneCallEach, OneSlotPer

LEMMA ServeEmpty ==
  ASSUME IInv, CookieInv, NEW r \in Requests, Serve(r)
  PROVE  Empty(call'[r])
<1> DEFINE c == call[r]
           d == call'[r]
<1> SUFFICES ASSUME d.at \in {"idle", "lookup", "gate", "evict", "touch"}, d.op # "again"
             PROVE  d.out = 0
  BY DEF Empty
<1>0. c \in Call /\ Flowing(c) /\ Empty(c)
  BY CallKnown DEF CookieInv
<1>1. CASE Lookup(r) \/ Gate(r)
  <2>1. c.op # "again" /\ c.at \in {"lookup", "gate"}
    BY <1>1, LookupStep, GateStep DEF Same, Lookup, Gate
  <2>2. QED BY <1>0, <1>1, <2>1, ServeCarries DEF Empty, Lookup, Gate, Touch, Validate
<1>2. CASE Touch(r)
  BY <1>0, <1>2, GatedKnows, BecomeIs, AdmittedFields DEF Touch
<1>3. CASE Rotate(r)
  BY <1>3, RotateStep, TokenOps DEF Gated
<1>4. ~(Evict(r) \/ List(r) \/ Revoke(r) \/ RevokeAll(r) \/ Validate(r))
  BY EvictStep, ListStep, RevokeStep, RevokeAllStep, ValidateStep
<1>5. ~(Insert(r) \/ Factors(r) \/ Pend(r) \/ Verify(r) \/ Clear(r) \/ Hook(r))
  BY LoginStep, ChallengeStep, HookStep
<1>6. ~(ReadUser(r) \/ WriteStatus(r) \/ Anonymize(r))
  BY AdminStep, AnonymizeStep
<1>7. QED BY <1>1, <1>2, <1>3, <1>4, <1>5, <1>6 DEF Serve

\* A handler that shows a token showed it before, or has just written it.
LEMMA ServeShown ==
  ASSUME IInv, Ties, TokenInv, NEW r \in Requests, Serve(r), Shown(call'[r])
  PROVE  /\ call'[r].s = call[r].s /\ call'[r].out = call[r].out
         /\ Shown(call[r]) \/ Rotate(r) \/ Insert(r)
<1> DEFINE c == call[r]
           d == call'[r]
<1>0. c \in Call /\ Flowing(c)
  BY CallKnown
<1>1. d.out = c.out /\ d.out # 0 /\ d.at \notin {"insert", "rotate"}
  BY ServeCarries DEF Shown
<1>2. c.at \in {"insert", "rotate"} => Rotate(r) \/ Insert(r)
  BY DEF Serve, Lookup, Gate, Evict, Touch, List, Revoke, RevokeAll,
     Validate, Factors, Pend, Verify, Clear, Hook, ReadUser, WriteStatus, Anonymize
<1>3. d.s = c.s
  <2>1. CASE Lookup(r) /\ d.at = "gate"
    <3>1. c.op = "again"
      BY <1>1, <2>1 DEF TokenInv, Carried, Lookup
    <3>2. QED BY <2>1, <3>1, LookupOpens
  <2>2. CASE Lookup(r) /\ d.at # "gate"
    BY <2>2, LookupStep DEF Same
  <2>3. CASE Touch(r)
    BY <1>0, <2>3, GatedKnows, BecomeIs, AdmittedFields DEF Touch
  <2>4. CASE Rotate(r)
    BY <2>4, RotateStep
  <2>5. CASE Gate(r) \/ Evict(r) \/ List(r) \/ Revoke(r) \/ RevokeAll(r) \/ Validate(r)
    BY <1>1, <2>5, GateStep, EvictStep, ListStep, RevokeStep, RevokeAllStep, ValidateStep
       DEF Same
  <2>6. CASE Insert(r) \/ Factors(r) \/ Pend(r) \/ Verify(r) \/ Clear(r) \/ Hook(r)
    BY <2>6, LoginStep, ChallengeStep, HookStep DEF Same
  <2>7. CASE ReadUser(r) \/ WriteStatus(r) \/ Anonymize(r)
    BY <2>7, AdminStep, AnonymizeStep DEF Same
  <2>8. QED BY <2>1, <2>2, <2>3, <2>4, <2>5, <2>6, <2>7 DEF Serve
<1>4. QED BY <1>1, <1>2, <1>3 DEF Shown

\* Except in a login, a token once shown is shown until the answer.
LEMMA ServeShowing ==
  ASSUME IInv, NEW r \in Requests, Serve(r), Shown(call[r]), call[r].op # "login",
         Empty(call[r])
  PROVE  Shown(call'[r]) /\ call'[r].op # "login"
<1> DEFINE c == call[r]
           d == call'[r]
<1>0. c \in Call /\ Flowing(c)
  BY CallKnown
<1> SUFFICES d.at \notin {"insert", "rotate"} /\ d.op # "login"
  BY ServeCarries DEF Shown, Rotate
<1>1. CASE Touch(r)
  <2>1. c.op = "again"
    BY <1>1 DEF Shown, Empty, Touch
  <2>2. QED BY <1>0, <1>1, <2>1, BecomeIs, AdmittedFields DEF Touch, Gated
<1>2. ~(Rotate(r) \/ Insert(r))
  BY DEF Shown, Rotate, Insert
<1>3. ~Validate(r)
  BY <1>0, PointKnows DEF Validate
<1>4. CASE Lookup(r) \/ Gate(r) \/ Evict(r) \/ List(r) \/ Revoke(r) \/ RevokeAll(r)
  BY <1>4, LookupStep, GateStep, EvictStep, ListStep, RevokeStep, RevokeAllStep DEF Same
<1>5. CASE Factors(r) \/ Pend(r) \/ Verify(r) \/ Clear(r) \/ Hook(r)
  BY <1>5, LoginStep, ChallengeStep, HookStep DEF Same
<1>6. CASE ReadUser(r) \/ WriteStatus(r) \/ Anonymize(r)
  BY <1>6, AdminStep, AnonymizeStep DEF Same
<1>7. QED BY <1>1, <1>2, <1>3, <1>4, <1>5, <1>6 DEF Serve

LEMMA ServeBacked ==
  ASSUME OneCallEach, IInv, Ties, TokenInv, OwnerInv, Unended, \A q \in Requests : Backed(q),
         NEW r \in Requests, Serve(r), NEW q \in Requests
  PROVE  Backed(q)'
<1> SUFFICES ASSUME Shown(call'[q])
             PROVE  /\ call'[q].s \in SessionIds /\ row'[call'[q].s].user # NoUser
                    /\ row'[call'[q].s].token = call'[q].out
  BY DEF Backed
<1>1. CASE q = r /\ Rotate(r)
  <2>1. call'[q].s = call[q].s /\ call'[q].out = call[q].out
    BY <1>1, ServeShown
  <2>2. QED BY <1>1, <2>1, RotateRow DEF Unended, Shown
<1>2. CASE q = r /\ Insert(r)
  <2>1. call'[q].s = call[q].s /\ call'[q].out = call[q].out
    BY <1>2, ServeShown
  <2>2. QED BY <1>2, <2>1, InsertRow, UserAssumption
<1>3. CASE q = r /\ ~Rotate(r) /\ ~Insert(r)
  <2>1. Shown(call[q]) /\ call'[q].s = call[q].s /\ call'[q].out = call[q].out
    BY <1>3, ServeShown
  <2>2. QED BY <1>3, <2>1, ServeWrites DEF Backed
<1>4. CASE q # r
  <2>1. call'[q] = call[q]
    BY <1>4, ServeOthers
  <2>2. PICK s \in SessionIds : s = call[q].s /\ row[s].user # NoUser /\ row[s].token = call[q].out
    BY <2>1 DEF Backed
  <2>3. Knows(Owner[q], s) /\ Owner[q] \in Clients
    BY <2>2, OwnerAssumption DEF Knows, Aware
  <2>4. row'[s].token = row[s].token
    BY <1>4, <2>2, <2>3, OwnRotation
  <2>5. QED BY <2>1, <2>2, <2>4, ServeWrites
<1>5. QED BY <1>1, <1>2, <1>3, <1>4

LEMMA ServeCurrent ==
  ASSUME OneCallEach, IInv, Ties, TokenInv, OwnerInv, CookieInv, Unended,
         NEW r \in Requests, Serve(r), NEW k \in Clients
  PROVE  Current(k)'
<1> SUFFICES ASSUME jar[k] # 0
             PROVE  \/ \E s \in SessionIds : row'[s].user # NoUser /\ row'[s].token = jar[k]
                    \/ \E q \in Requests : /\ Owner[q] = k /\ Shown(call'[q])
                                           /\ call'[q].op # "login"
  BY ServeWrites, SessionAssumption DEF Current, Serve, Lookup, Gate, Evict, Touch, Rotate, List,
     Revoke, RevokeAll, Validate, Insert, Factors, Pend, Verify, Clear, Hook, ReadUser,
     WriteStatus, Anonymize
<1>1. Current(k) /\ jar[k] \in kept[k] /\ Backed(r)
  BY DEF CookieInv
<1>2. CASE \E s \in SessionIds : row[s].user # NoUser /\ row[s].token = jar[k]
  <2>1. PICK s \in SessionIds : row[s].user # NoUser /\ row[s].token = jar[k]
    BY <1>2
  <2>2. CASE row'[s].token = row[s].token
    BY <2>1, <2>2, ServeWrites
  <2>3. CASE row'[s].token # row[s].token
    <3>1. Knows(k, s)
      BY <1>1, <2>1 DEF Knows
    <3>2. Owner[r] = k
      BY <2>1, <2>3, <3>1, OwnRotation
    <3>3. Rotate(r) /\ Discreet(call[r])
      BY <2>1, <2>3, ServeWrites
    <3>4. Secret(r)
      BY <3>3 DEF TokenInv, Carried
    <3>5. call'[r].out = call[r].out /\ call[r].out \in 1..lastToken /\ lastToken \in Nat
      BY <2>3, <3>3, <3>4, RotateCarries, NumbersAre DEF Secret
    <3>6. Shown(call'[r]) /\ call'[r].op # "login"
      BY <3>3, <3>5, RotateStep DEF Shown, Gated
    <3>7. QED BY <3>2, <3>6
  <2>4. QED BY <2>2, <2>3
<1>3. CASE \E q \in Requests : Owner[q] = k /\ Shown(call[q]) /\ call[q].op # "login"
  <2>1. PICK q \in Requests : Owner[q] = k /\ Shown(call[q]) /\ call[q].op # "login"
    BY <1>3
  <2>2. CASE q # r
    BY <2>1, <2>2, ServeOthers
  <2>3. CASE q = r
    BY <2>1, <2>3, ServeShowing DEF CookieInv
  <2>4. QED BY <2>2, <2>3
<1>4. QED BY <1>1, <1>2, <1>3 DEF Current

LEMMA ServeUnended ==
  ASSUME IInv, Ties, NEW r \in Requests, Serve(r), Unended'
  PROVE  Unended
  BY ServeWrites DEF Unended

LEMMA ServeCookie ==
  ASSUME OneCallEach, IInv, Ties, TokenInv, OwnerInv, CookieInv, NEW r \in Requests, Serve(r)
  PROVE  CookieInv'
<1>1. \A k \in Clients : jar'[k] = 0 \/ jar'[k] \in kept'[k]
  BY SessionAssumption DEF CookieInv, Serve, Lookup, Gate, Evict, Touch, Rotate, List,
     Revoke, RevokeAll, Validate, Insert, Factors, Pend, Verify, Clear, Hook, ReadUser,
     WriteStatus, Anonymize
<1>2. \A q \in Requests : Empty(call'[q])
  BY ServeEmpty, ServeOthers DEF CookieInv
<1>3. ASSUME Unended' PROVE (\A q \in Requests : Backed(q)') /\ (\A k \in Clients : Current(k)')
  <2>1. Unended /\ \A q \in Requests : Backed(q)
    BY <1>3, ServeUnended DEF CookieInv
  <2>2. QED BY <2>1, ServeBacked, ServeCurrent
<1>4. QED BY <1>1, <1>2, <1>3 DEF CookieInv

LEMMA ArriveCookie ==
  ASSUME IInv, CookieInv, NEW r \in Requests, Arrive(r)
  PROVE  CookieInv'
<1>1. /\ UNCHANGED <<row, kept, jar>> /\ call'[r].out = 0
      /\ \A q \in Requests \ {r} : call'[q] = call[q]
  BY ArrivesAt
<1>2. call[r].at = "idle" /\ call[r].out = 0
  <2>1. call[r].at = "idle"
    BY DEF Arrive, Present, Login, Administer
  <2>2. call[r].op # "again"
    BY <2>1, CallKnown DEF Flowing, PointsOf, GatePoints, ByAdmin
  <2>3. QED BY <2>1, <2>2 DEF CookieInv, Empty
<1>3. \A q \in Requests : Empty(call'[q])
  BY <1>1 DEF CookieInv, Empty
<1>4. \A q \in Requests : Backed(q) => Backed(q)'
  BY <1>1 DEF Backed, Shown
<1>5. \A k \in Clients : Current(k) => Current(k)'
  BY <1>1, <1>2 DEF Current, Shown
<1>6. Unended' = Unended
  BY <1>1 DEF Unended
<1>7. QED BY <1>1, <1>3, <1>4, <1>5, <1>6 DEF CookieInv

\* The answer puts into the jar the token that its handler shows.
LEMMA ReceiveCookie ==
  ASSUME OneCallEach, IInv, CookieInv, NEW r \in Requests, Receive(r)
  PROVE  CookieInv'
<1> DEFINE o == Owner[r]
<1>0. /\ kept \in [Clients -> SUBSET Tokens] /\ jar \in [Clients -> Tokens] /\ o \in Clients
  BY OwnerAssumption DEF IInv, TypeOK
<1>1. /\ row' = row /\ call'[r].out = 0 /\ call'[r].at = "idle"
      /\ \A q \in Requests \ {r} : call'[q] = call[q]
  BY BecomeIs DEF Receive, Idle
<1>2. /\ \A k \in Clients \ {o} : jar'[k] = jar[k] /\ kept'[k] = kept[k]
      /\ kept'[o] = kept[o] \cup ({call[r].out} \ {0})
      /\ \/ jar'[o] = 0
         \/ jar'[o] = call[r].out /\ call[r].out # 0
         \/ jar'[o] = jar[o] /\ call[r].out = 0
  BY <1>0 DEF Receive, OneCallEach
<1>3. \A k \in Clients : jar'[k] = 0 \/ jar'[k] \in kept'[k]
  BY <1>0, <1>2 DEF CookieInv
<1>4. \A q \in Requests : Empty(call'[q])
  BY <1>1 DEF CookieInv, Empty
<1>5. \A q \in Requests : Backed(q) => Backed(q)'
  BY <1>1 DEF Backed, Shown
<1>6. ASSUME NEW k \in Clients, Current(k), Backed(r) PROVE Current(k)'
  <2>1. CASE k # o
    BY <1>1, <1>2, <1>6, <2>1 DEF Current
  <2>2. CASE k = o /\ jar'[o] = call[r].out /\ call[r].out # 0
    <3>1. Shown(call[r])
      BY <2>2 DEF Shown, Receive
    <3>2. QED BY <1>1, <1>6, <2>2, <3>1 DEF Current, Backed
  <2>3. CASE k = o /\ jar'[o] = jar[o] /\ call[r].out = 0
    BY <1>1, <1>6, <2>3 DEF Current, Shown
  <2>4. QED BY <1>2, <2>1, <2>2, <2>3 DEF Current
<1>7. Unended' = Unended
  BY <1>1 DEF Unended
<1>8. QED BY <1>3, <1>4, <1>5, <1>6, <1>7 DEF CookieInv

LEMMA CookieNext ==
  OneCallEach /\ IInv /\ Ties /\ TokenInv /\ OwnerInv /\ CookieInv /\ [Next]_vars => CookieInv'
<1> SUFFICES ASSUME OneCallEach, IInv, Ties, TokenInv, OwnerInv, CookieInv, [Next]_vars
             PROVE  CookieInv'
  OBVIOUS
<1>1. ASSUME UNCHANGED <<row, call, kept, jar>> PROVE CookieInv'
  BY <1>1 DEF CookieInv, Empty, Backed, Current, Unended, Shown
<1>2. CASE UNCHANGED vars \/ Tick
  BY <1>1, <1>2 DEF vars, Tick
<1>3. CASE \E u \in Users, status \in Statuses : HostSetStatus(u, status)
  BY <1>1, <1>3 DEF HostSetStatus
<1>4. QED BY <1>2, <1>3, ServeCookie, ArriveCookie, ReceiveCookie DEF Next

LEMMA CookieInit == Init => OwnerInv /\ CookieInv
  BY DEF Init, OwnerInv, CookieInv, Blank, Idle, Empty, Backed, Shown, Current, Unended

\* Where every client makes one call at a time and no answer is lost, the cookie a
\* browser holds between its calls is the token of a session for as long as nobody has
\* ended one: through logins, rotations, refusals and second passes of the gate.
THEOREM CookieOpens ==
  ASSUME OneCallEach
  PROVE  Spec => []CookieCurrent
<1>1. Init => IInv /\ Ties /\ TokenInv /\ OwnerInv /\ CookieInv
  BY InitTyped, TiesInit, TokensInit, CookieInit
<1>2. IInv /\ Ties /\ TokenInv /\ OwnerInv /\ CookieInv /\ [Next]_vars
        => IInv' /\ Ties' /\ TokenInv' /\ OwnerInv' /\ CookieInv'
  BY NextTyped, TiesNext, TokensNext, OwnerNext, CookieNext
<1>3. IInv /\ CookieInv => CookieCurrent
  <2> SUFFICES ASSUME IInv, CookieInv, Unended, NEW k \in Clients, jar[k] # 0,
                      \A r \in Requests : Owner[r] = k => call[r].at = "idle"
               PROVE  \E s \in SessionIds : row[s].token = jar[k]
    BY DEF CookieCurrent, Unended
  <2>1. Current(k)
    BY DEF CookieInv
  <2>2. ASSUME NEW r \in Requests, Owner[r] = k PROVE ~Shown(call[r])
    <3>1. call[r].at = "idle" /\ call[r].op # "again"
      BY <2>2, CallKnown DEF Flowing, PointsOf, GatePoints, ByAdmin
    <3>2. QED BY <3>1 DEF CookieInv, Empty, Shown
  <2>3. QED BY <2>1, <2>2 DEF Current
<1>4. QED BY <1>1, <1>2, <1>3, PTL DEF Spec

-----------------------------------------------------------------------------
\* The time limits, without rotation.

\* The lifetime of a session is the one its login asked for, and nobody has used it in
\* the future.
Lifetime(s) == IF s \in remembered THEN RememberMeTTL ELSE TTL
Dated(s) ==
    IF row[s].user = NoUser THEN s \notin remembered
    ELSE row[s].active <= now /\ row[s].expires = row[s].created + Lifetime(s)

\* A row as it was read some time ago: only last_active_at may have moved, forwards.
Outdated(x, y) ==
    /\ x.created = y.created /\ x.expires = y.expires /\ x.staff = y.staff
    /\ x.active <= y.active

TimeInv ==
    /\ \A s \in SessionIds : Dated(s)
    /\ \A r \in Requests : call[r].at = "gate" => Outdated(call[r].snap, row[call[r].s])

\* What every statement but INSERT and the rotation does to the dates of the rows.
DatesKept ==
    \A s \in SessionIds :
        /\ row'[s].user = row[s].user /\ row'[s].created = row[s].created
        /\ row'[s].expires = row[s].expires /\ row'[s].staff = row[s].staff
        /\ row'[s].active \in {row[s].active, now}

LEMMA ServeDates ==
  ASSUME IInv, NEW r \in Requests, Serve(r), ~Insert(r), ~Rotate(r)
  PROVE  DatesKept
<1> DEFINE c == call[r]
<1>0. c \in Call /\ Flowing(c)
  BY CallKnown
<1>1. ASSUME NEW s \in SessionIds, RevokeRow(s) PROVE DatesKept
  <2>1. row' = row \/ row' = [row EXCEPT ![s].revoked = TRUE]
    BY <1>1 DEF RevokeRow
  <2>2. QED BY <2>1, RowTable DEF DatesKept, Row
<1>2. CASE UNCHANGED row
  BY <1>2 DEF DatesKept
<1>3. CASE Evict(r)
  <2>1. c.s \in SessionIds
    BY <1>0, <1>3, GatedKnows DEF Evict, Known
  <2>2. QED BY <1>1, <1>3, <2>1 DEF Evict
<1>4. CASE Touch(r)
  <2>1. row' = row \/ row' = [row EXCEPT ![c.s].active = now]
    BY <1>4 DEF Touch
  <2>2. QED BY <1>2, <2>1, RowTable DEF Row, DatesKept
<1>5. CASE Revoke(r)
  <2>1. (IF c.op = "revokeOther" THEN c.target ELSE c.s) \in SessionIds
    BY <1>0, <1>5, PointKnows DEF Revoke, Known, Flowing
  <2>2. QED BY <1>1, <1>5, <2>1 DEF Revoke
<1>6. CASE RevokeAll(r)
  <2>1. \/ row' = row
        \/ row' = [s \in SessionIds |-> IF s \in SessionsOf(c.who)
                                        THEN [row[s] EXCEPT !.revoked = TRUE] ELSE row[s]]
    BY <1>6 DEF RevokeAll
  <2>2. QED BY <2>1, RowTable DEF Row, DatesKept
<1>7. CASE Pend(r) \/ Clear(r)
  <2>1. row' = row \/ \E b \in BOOLEAN : row' = [row EXCEPT ![c.s].mfaPending = b]
    BY <1>7 DEF Pend, Clear
  <2>2. CASE \E b \in BOOLEAN : row' = [row EXCEPT ![c.s].mfaPending = b]
    BY <2>2, RowTable DEF Row, DatesKept
  <2>3. QED BY <1>2, <2>1, <2>2
<1>8. QED
  BY <1>2, <1>3, <1>4, <1>5, <1>6, <1>7
     DEF Serve, Lookup, Gate, List, Validate, Factors, Verify, Hook, ReadUser,
         WriteStatus, Anonymize

LEMMA DatesAre ==
  ASSUME IInv
  PROVE  /\ now \in Nat
         /\ \A s \in SessionIds : /\ row[s].active \in Nat /\ row[s].created \in Nat
                                  /\ row[s].expires \in Nat
         /\ \A r \in Requests : /\ call[r].snap.active \in Nat /\ call[r].snap.created \in Nat
                                /\ call[r].snap.expires \in Nat
  BY DEF IInv, TypeOK, Row, Call

\* The lookup is the way to the gate.
LEMMA ToGate ==
  ASSUME IInv, NEW r \in Requests, Serve(r), call'[r].at = "gate"
  PROVE  Lookup(r)
<1>1. ~Touch(r)
  <2> SUFFICES ASSUME Touch(r) PROVE FALSE
    OBVIOUS
  <2>1. /\ call[r] \in Call /\ call[r].op \in ByToken \cup {"again"}
        /\ call'[r] = Admitted(call[r])
    BY CallKnown, BecomeIs, GatedKnows DEF Touch
  <2>2. QED BY <2>1, AdmittedFields
<1>2. ~Rotate(r)
  BY RotateStep
<1>3. ~(Gate(r) \/ Evict(r) \/ List(r) \/ Revoke(r) \/ RevokeAll(r) \/ Validate(r))
  BY GateStep, EvictStep, ListStep, RevokeStep, RevokeAllStep, ValidateStep
<1>4. ~(Insert(r) \/ Factors(r) \/ Pend(r) \/ Verify(r) \/ Clear(r) \/ Hook(r))
  BY LoginStep, ChallengeStep, HookStep
<1>5. ~(ReadUser(r) \/ WriteStatus(r) \/ Anonymize(r))
  BY AdminStep, AnonymizeStep
<1>6. QED BY <1>1, <1>2, <1>3, <1>4, <1>5 DEF Serve

\* Whoever will be at the gate has read a row that is there.
LEMMA AtGate ==
  ASSUME IInv, Ties, TimeInv, NEW r \in Requests, Serve(r), NEW q \in Requests,
         call'[q].at = "gate"
  PROVE  /\ call'[q].s \in SessionIds /\ row[call'[q].s].user # NoUser
         /\ Outdated(call'[q].snap, row[call'[q].s])
<1>1. CASE q = r
  <2>1. Lookup(r)
    BY <1>1, ToGate
  <2>2. /\ call'[q].s \in SessionIds /\ row[call'[q].s].user # NoUser
        /\ call'[q].snap = row[call'[q].s]
    BY <1>1, <2>1, LookupStep, LookupSnap DEF Matches, Live
  <2>3. QED BY <2>2, DatesAre DEF Outdated
<1>2. CASE q # r
  <2>1. call'[q] = call[q]
    BY <1>2, ServeOthers
  <2>2. Known(call[q]) /\ row[call[q].s].user = call[q].who
    <3>1. call[q].op \in ByToken \cup {"again"}
      BY <2>1, CallKnown, GatedKnows
    <3>2. QED BY <2>1, <3>1 DEF Ties, Tied, Claims, Holding
  <2>3. QED BY <2>1, <2>2, UserAssumption DEF TimeInv, Known
<1>3. QED BY <1>1, <1>2

LEMMA ServeTime ==
  ASSUME IInv, Ties, NoRotation, TimeInv, NEW r \in Requests, Serve(r)
  PROVE  TimeInv'
<1>1. ~Rotate(r)
  BY DEF Rotate, NoRotation
<1>2. now' = now /\ now \in Nat
  BY DatesAre DEF Serve, Lookup, Gate, Evict, Touch, Rotate, List, Revoke, RevokeAll,
     Validate, Insert, Factors, Pend, Verify, Clear, Hook, ReadUser, WriteStatus, Anonymize
<1>3. CASE Insert(r)
  <2>0. PICK t \in SessionIds : t = call[r].s
    BY <1>3, InsertRow
  <2>1. row[t].user = NoUser /\ \A s \in SessionIds \ {t} : row'[s] = row[s]
    BY <1>3, <2>0, InsertRow
  <2>2. /\ row'[t].created = now /\ row'[t].active = now
        /\ row'[t].expires = now + (IF call[r].remember THEN RememberMeTTL ELSE TTL)
    BY <1>3, <2>0, RowTable DEF Insert
  <2>3. remembered' = IF call[r].remember THEN remembered \cup {t} ELSE remembered
    BY <1>3, <2>0 DEF Insert
  <2>4. t \notin remembered
    BY <2>1 DEF TimeInv, Dated
  <2>5. row'[t].user # NoUser
    BY <1>3, <2>0, InsertRow, UserAssumption
  <2>6. Dated(t)'
    BY <1>2, <2>2, <2>3, <2>4, <2>5 DEF Dated, Lifetime
  <2>7. \A s \in SessionIds \ {t} : Dated(s)'
    BY <1>2, <2>1, <2>3 DEF TimeInv, Dated, Lifetime
  <2>8. \A q \in Requests : call'[q].at = "gate" => Outdated(call'[q].snap, row'[call'[q].s])
    BY <2>0, <2>1, AtGate
  <2>9. QED BY <2>6, <2>7, <2>8 DEF TimeInv, Outdated
<1>4. CASE ~Insert(r)
  <2>1. DatesKept /\ remembered' = remembered
    BY <1>1, <1>4, ServeDates DEF Serve, Lookup, Gate, Evict, Touch, List, Revoke,
       RevokeAll, Validate, Factors, Pend, Verify, Clear, Hook, ReadUser, WriteStatus,
       Anonymize, hvars
  <2>2. \A s \in SessionIds : Dated(s)'
    BY <1>2, <2>1 DEF TimeInv, Dated, Lifetime, DatesKept
  <2>3. \A s \in SessionIds : row[s].user # NoUser => row[s].active <= row'[s].active
    BY <1>2, <2>1, DatesAre DEF TimeInv, Dated, DatesKept
  <2>4. ASSUME NEW q \in Requests, call'[q].at = "gate"
        PROVE  Outdated(call'[q].snap, row'[call'[q].s])
    <3>1. /\ call'[q].s \in SessionIds /\ row[call'[q].s].user # NoUser
          /\ Outdated(call'[q].snap, row[call'[q].s])
      BY <2>4, AtGate
    <3>2. row[call'[q].s].active <= row'[call'[q].s].active
      BY <2>3, <3>1
    <3>3. /\ row[call'[q].s].active \in Nat /\ row'[call'[q].s].active \in Nat
          /\ call'[q].snap.active \in Nat
      BY <1>2, <2>1, <3>1, DatesAre, NextTyped DEF DatesKept, IInv, TypeOK, Call, Row, Next
    <3>4. QED BY <2>1, <3>1, <3>2, <3>3 DEF DatesKept, Outdated
  <2>5. QED BY <2>2, <2>4 DEF TimeInv, Outdated
<1>5. QED BY <1>3, <1>4

LEMMA TimeInit == Init => TimeInv
  BY DEF Init, Blank, Idle, TimeInv, Dated

LEMMA TimeNext == IInv /\ Ties /\ NoRotation /\ TimeInv /\ [Next]_vars => TimeInv'
<1> SUFFICES ASSUME IInv, Ties, NoRotation, TimeInv, [Next]_vars PROVE TimeInv'
  OBVIOUS
<1>1. ASSUME UNCHANGED <<row, call, remembered>>, now <= now' PROVE TimeInv'
  <2>1. now \in Nat /\ now' \in Nat
    BY NextTyped DEF IInv, TypeOK
  <2>2. QED BY <1>1, <2>1, DatesAre DEF TimeInv, Dated, Lifetime, Outdated
<1>2. now \in Nat
  BY DatesAre
<1>3. CASE UNCHANGED vars \/ Tick
  BY <1>1, <1>2, <1>3 DEF vars, Tick, hvars
<1>4. CASE \E u \in Users, status \in Statuses : HostSetStatus(u, status)
  BY <1>1, <1>2, <1>4 DEF HostSetStatus, hvars
<1>5. ASSUME NEW r \in Requests, Arrive(r) \/ Receive(r) PROVE TimeInv'
  <2>1. UNCHANGED <<row, now, remembered>> /\ \A q \in Requests \ {r} : call'[q] = call[q]
    BY <1>5, ArrivesAt, BecomeIs DEF Receive, Arrive, Present, Login, Administer, hvars
  <2>2. call'[r].at # "gate"
    BY <1>5, ArrivesAt, BecomeIs DEF Receive, Idle
  <2>3. QED BY <2>1, <2>2 DEF TimeInv, Dated, Lifetime, Outdated
<1>6. QED BY <1>3, <1>4, <1>5, ServeTime DEF Next

\* The gate's decision, on the row as its lookup read it.
LEMMA GateDecides ==
  ASSUME IInv, NEW r \in Requests, Next, call[r].at = "gate", call'[r].at # "gate"
  PROVE  /\ call'[r].at \in {"evict", "touch"}
         /\ call'[r].at = "touch" => ~Overdue(call[r].snap)
         /\ call'[r].at = "evict" => LockedOut(call[r].who) \/ Overdue(call[r].snap)
<1>1. Gate(r)
  <2>1. ASSUME NEW q \in Requests, q # r, Arrive(q) \/ Receive(q) \/ Serve(q) PROVE FALSE
    BY <2>1, ArrivesAt, BecomeIs, ServeOthers DEF Receive
  <2>2. Arrive(r) \/ Receive(r) \/ Serve(r)
    BY <2>1 DEF Next, Tick, HostSetStatus
  <2>3. QED
    BY <2>2 DEF Arrive, Present, Login, Administer, Receive, Serve, Lookup, Evict, Touch,
       Rotate, List, Revoke, RevokeAll, Validate, Insert, Factors, Pend, Verify, Clear,
       Hook, ReadUser, WriteStatus, Anonymize
<1>2. PICK unread \in BOOLEAN :
        Goto(r, IF (LockedOut(call[r].who) /\ ~unread) \/ Overdue(call[r].snap)
                THEN "evict" ELSE "touch")
  BY <1>1 DEF Gate, May
<1>3. call'[r].at = IF (LockedOut(call[r].who) /\ ~unread) \/ Overdue(call[r].snap)
                    THEN "evict" ELSE "touch"
  BY <1>2, Going
<1>4. QED BY <1>3

\* A configuration in which the gate can tell remember-me by the lifetime of a session:
\* the defaults are 7, 20 and 30 days, and rotation, which moves expires_at, is off.
Telling == RotateInterval = 0 /\ TTL < RememberThreshold /\ RememberThreshold <= RememberMeTTL

\* Then what the gate computes is what the login asked for.
LEMMA GateLimits ==
  ASSUME Telling, IInv, Ties, TimeInv, NEW r \in Requests, call[r].at = "gate"
  PROVE  LET x == call[r].snap
         IN  /\ LooksRemembered(x) <=> call[r].s \in remembered
             /\ x.created = row[call[r].s].created /\ x.staff = row[call[r].s].staff
             /\ now - x.active >= Rest(r) /\ Rest(r) \in Nat /\ x.active \in Nat
             /\ IdleLimit(x.staff, LooksRemembered(x)) = Limit(r) /\ Limit(r) \in Nat
<1> DEFINE c == call[r]
<1>1. Known(c) /\ row[c.s].user # NoUser
  <2>1. c.op \in ByToken \cup {"again"}
    BY CallKnown, GatedKnows
  <2>2. QED BY <2>1, UserAssumption DEF Ties, Tied, Claims, Holding, Known
<1>2. Outdated(c.snap, row[c.s]) /\ Dated(c.s) /\ c.s \in SessionIds
  BY <1>1 DEF TimeInv, Known
<1>3. /\ now \in Nat /\ row[c.s].active \in Nat /\ row[c.s].created \in Nat
      /\ row[c.s].expires \in Nat /\ c.snap.active \in Nat /\ c.snap.created \in Nat
      /\ c.snap.expires \in Nat
  BY <1>2, DatesAre
<1>4. c.snap.expires - c.snap.created = Lifetime(c.s)
  BY <1>1, <1>2, <1>3, ConfigAssumption DEF Outdated, Dated, Lifetime
<1>5. LooksRemembered(c.snap) <=> c.s \in remembered
  BY <1>4, ConfigAssumption DEF LooksRemembered, Lifetime, Telling
<1>6. now - c.snap.active >= Rest(r) /\ Rest(r) \in Nat
  BY <1>1, <1>2, <1>3 DEF Rest, Outdated, Dated
<1>7. IdleLimit(c.snap.staff, LooksRemembered(c.snap)) = Limit(r) /\ Limit(r) \in Nat
  BY <1>2, <1>5, ConfigAssumption DEF IdleLimit, Limit, Outdated
<1>8. QED BY <1>2, <1>3, <1>5, <1>6, <1>7 DEF Outdated

LEMMA TimeInvariance ==
  ASSUME RotateInterval = 0
  PROVE  Spec => [](IInv /\ Ties /\ TimeInv)
<1>1. Init => NoRotation
  BY DEF Init, Idle, NoRotation
<1>2. IInv /\ NoRotation /\ [Next]_vars => NoRotation'
  BY RotationOff
<1>3. QED BY <1>1, <1>2, TiesInit, TiesNext, InitTyped, NextTyped, TimeInit, TimeNext, PTL
         DEF Spec

\* In such a configuration the gate passes no session that is older than the absolute
\* cap and was not asked to be remembered.
THEOREM CapHolds == ASSUME Telling PROVE Spec => AbsoluteCap
<1> DEFINE Cap == \A r \in Requests :
                     Passes(r) /\ call[r].s \notin remembered /\ MaxLifetime > 0
                         => Age(r) <= MaxLifetime
<1>1. ASSUME IInv, Ties, TimeInv, Next PROVE Cap
  <2> SUFFICES ASSUME NEW r \in Requests, Passes(r), call[r].s \notin remembered,
                      MaxLifetime > 0
               PROVE  Age(r) <= MaxLifetime
    OBVIOUS
  <2>1. ~Overdue(call[r].snap)
    BY <1>1, GateDecides DEF Passes
  <2>2. ~(now - call[r].snap.created > MaxLifetime)
    BY <1>1, <2>1, GateLimits DEF Passes, Overdue
  <2>3. call[r].snap.created = row[call[r].s].created
    BY <1>1, GateLimits DEF Passes
  <2>4. now \in Nat /\ call[r].snap.created \in Nat
    BY <1>1, DatesAre
  <2>5. QED BY <2>2, <2>3, <2>4, ConfigAssumption DEF Age
<1>2. IInv /\ Ties /\ TimeInv /\ [Next]_vars => [Cap]_vars
  BY <1>1
<1>3. RotateInterval = 0
  BY DEF Telling
<1>4. Spec => [](IInv /\ Ties /\ TimeInv)
  BY <1>3, TimeInvariance
<1>5. QED BY <1>2, <1>4, PTL DEF Spec, AbsoluteCap

\* ... and none that was unused for longer than the idle limit its login earned it,
\* although the gate looks at a row that other requests have touched since.
THEOREM IdleHolds == ASSUME Telling PROVE Spec => IdleCap
<1> DEFINE Cap == \A r \in Requests : Passes(r) /\ Limit(r) > 0 => Rest(r) <= Limit(r)
<1>1. ASSUME IInv, Ties, TimeInv, Next PROVE Cap
  <2> SUFFICES ASSUME NEW r \in Requests, Passes(r), Limit(r) > 0 PROVE Rest(r) <= Limit(r)
    OBVIOUS
  <2>1. ~Overdue(call[r].snap)
    BY <1>1, GateDecides DEF Passes
  <2>2. ~(now - call[r].snap.active > Limit(r))
    BY <1>1, <2>1, GateLimits DEF Passes, Overdue
  <2>3. /\ now - call[r].snap.active >= Rest(r) /\ Rest(r) \in Nat /\ Limit(r) \in Nat
        /\ call[r].snap.active \in Nat
    BY <1>1, GateLimits DEF Passes
  <2>4. now \in Nat
    BY <1>1, DatesAre
  <2>5. QED BY <2>2, <2>3, <2>4
<1>2. IInv /\ Ties /\ TimeInv /\ [Next]_vars => [Cap]_vars
  BY <1>1
<1>3. RotateInterval = 0
  BY DEF Telling
<1>4. Spec => [](IInv /\ Ties /\ TimeInv)
  BY <1>3, TimeInvariance
<1>5. QED BY <1>2, <1>4, PTL DEF Spec, IdleCap

\* ... and it turns a remembered session of a user who is not staff away only when the
\* account is locked, however old and however long unused the session is.
THEOREM RememberedAreLetIn == ASSUME Telling PROVE Spec => RememberedStays
<1> DEFINE Stays == \A r \in Requests :
                       Evicts(r) /\ call[r].s \in remembered /\ ~row[call[r].s].staff
                           => account[call[r].who] = "locked"
<1>1. ASSUME IInv, Ties, TimeInv, Next PROVE Stays
  <2> SUFFICES ASSUME NEW r \in Requests, Evicts(r), call[r].s \in remembered,
                      ~row[call[r].s].staff
               PROVE  account[call[r].who] = "locked"
    OBVIOUS
  <2>1. LockedOut(call[r].who) \/ Overdue(call[r].snap)
    BY <1>1, GateDecides DEF Evicts
  <2>2. LooksRemembered(call[r].snap) /\ Limit(r) = 0
    BY <1>1, GateLimits DEF Evicts, Limit
  <2>3. ~call[r].snap.staff \/ ~(StaffIdleTimeout > 0)
    BY <1>1, GateLimits DEF Evicts
  <2>4. ~Overdue(call[r].snap)
    BY <2>2, <2>3, ConfigAssumption DEF Overdue, IdleLimit
  <2>5. QED BY <2>1, <2>4 DEF LockedOut
<1>2. IInv /\ Ties /\ TimeInv /\ [Next]_vars => [Stays]_vars
  BY <1>1
<1>3. RotateInterval = 0
  BY DEF Telling
<1>4. Spec => [](IInv /\ Ties /\ TimeInv)
  BY <1>3, TimeInvariance
<1>5. QED BY <1>2, <1>4, PTL DEF Spec, RememberedStays

-----------------------------------------------------------------------------
\* A session that somebody was told is over stays over, when no revocation is lost
\* and nobody else rotates a token that a logout has presented.

\* Each client makes one call at a time, or rotation is off.
Orderly == RotateInterval = 0 \/ OneSlotPer

\* A handler that may still write a later expiry into the row of its session.
Reviving(c) ==
    /\ c.op \in Gated
    /\ c.at = "rotate" \/ (RotateInterval > 0 /\ c.at \in {"gate", "touch"})

\* The sessions revoked, or expired with nobody left to revive them.
Over == {s \in SessionIds :
           /\ row[s].user # NoUser
           /\ \/ row[s].revoked
              \/ row[s].expires <= now /\ \A r \in Requests : Reviving(call[r]) => call[r].s # s}

\* What a handler's call c and the facts a recorded at its arrival keep:
\* the session it holds was not over when it arrived;
Held(c, a) == Holding(c) => c.s \notin a.over

\* the session a logout was aimed at is the one it looks up, or over;
Aimed(c, a) ==
    c.op \in {"logout", "logoutAll"} =>
        /\ c.at = "lookup" => \A s \in a.aim : row[s].user # NoUser /\ row[s].token = c.token
        /\ c.at \in {"gate", "evict", "touch", "revoke", "revokeAll"} => a.aim \subseteq {c.s}
        /\ c.at \in {"ok", "refused"} => a.aim \subseteq Over

\* a sweep ends all sessions the user had when it was asked for;
Swept(c, a) ==
    /\ \A s \in a.born : row[s].user # NoUser
    /\ c.op \in {"logoutAll", "lock", "delete"} /\ c.at \in {"anonymize", "ok"}
          => a.born \cap SessionsOf(c.who) \subseteq Over

\* a device revocation ends the session it names.
Named(c) == c.op = "revokeOther" /\ c.at = "ok" => c.target \in Over

Honest(c, a) ==
    /\ a.over \subseteq Over
    /\ Held(c, a) /\ Aimed(c, a) /\ Swept(c, a) /\ Named(c)

EndInv ==
    /\ told \subseteq Over
    /\ RotateInterval = 0 => NoRotation
    /\ \A r \in Requests : Honest(call[r], arrival[r])

\* All that is known of tokens and sessions so far.
Base == IInv /\ Ties /\ TokenInv /\ OwnerInv

\* A handler comes to revive a session by looking it up while it is open.
LEMMA ServeReviving ==
  ASSUME IInv, NEW r \in Requests, Serve(r), Reviving(call'[r])
  PROVE  \/ Reviving(call[r]) /\ call'[r].s = call[r].s
         \/ call'[r].s \in SessionIds /\ Matches(call'[r].s, call[r].token)
<1> DEFINE c == call[r]
           d == call'[r]
<1>0. c \in Call /\ Flowing(c)
  BY CallKnown
<1>1. d.at \in {"gate", "touch", "rotate"} /\ d.op \in Gated
  BY DEF Reviving
<1>2. CASE Lookup(r)
  BY <1>1, <1>2, LookupStep
<1>3. CASE Gate(r)
  <2>1. Same(c, d) /\ d.at = "touch" /\ c.at = "gate"
    BY <1>1, <1>3, GateStep DEF Gate
  <2>2. QED BY <2>1 DEF Reviving, Same
<1>4. CASE Touch(r)
  <2>1. c.op \in ByToken \cup {"again"} /\ d = Admitted(c) /\ c.at = "touch"
    BY <1>0, <1>4, BecomeIs, GatedKnows DEF Touch
  <2>2. c.op \in Gated /\ d.s = c.s /\ RotateDue(c.snap)
    BY <1>0, <1>1, <2>1, AdmittedFields DEF Gated
  <2>3. QED BY <2>1, <2>2, ConfigAssumption DEF Reviving, RotateDue
<1>5. CASE Rotate(r)
  BY <1>1, <1>5, RotateStep
<1>6. CASE Evict(r) \/ List(r) \/ Revoke(r) \/ RevokeAll(r) \/ Validate(r)
  BY <1>1, <1>6, EvictStep, ListStep, RevokeStep, RevokeAllStep, ValidateStep
<1>7. CASE Insert(r) \/ Factors(r) \/ Pend(r) \/ Verify(r) \/ Clear(r) \/ Hook(r)
  BY <1>1, <1>7, LoginStep, ChallengeStep, HookStep
<1>8. CASE ReadUser(r) \/ WriteStatus(r) \/ Anonymize(r)
  BY <1>1, <1>8, AdminStep, AnonymizeStep
<1>9. QED BY <1>2, <1>3, <1>4, <1>5, <1>6, <1>7, <1>8 DEF Serve

\* An expiry is moved by the rotation of that very session only.
LEMMA ServeExpires ==
  ASSUME IInv, Ties, NEW r \in Requests, Serve(r), NEW s \in SessionIds, row[s].user # NoUser
  PROVE  /\ now' = now
         /\ row'[s].expires = row[s].expires \/ (call[r].s = s /\ Reviving(call[r]))
<1>1. CASE Insert(r)
  <2>1. s # call[r].s
    BY <1>1, InsertRow
  <2>2. QED BY <1>1, <2>1, InsertRow DEF Insert
<1>2. CASE Rotate(r)
  <2>1. Reviving(call[r])
    BY <1>2, CallKnown, PointKnows DEF Rotate, Reviving
  <2>2. s # call[r].s => row'[s] = row[s]
    BY <1>2, RowTable DEF Rotate, Rotated
  <2>3. QED BY <1>2, <2>1, <2>2 DEF Rotate
<1>3. CASE ~Insert(r) /\ ~Rotate(r)
  BY <1>3, ServeMild DEF Mild
<1>4. QED BY <1>1, <1>2, <1>3

\* What is over stays over.
LEMMA ServeOver ==
  ASSUME IInv, Ties, NEW r \in Requests, Serve(r)
  PROVE  Over \subseteq Over'
<1> SUFFICES ASSUME NEW s \in SessionIds, row[s].user # NoUser, s \in Over PROVE s \in Over'
  BY DEF Over
<1>1. row'[s].user # NoUser /\ (row[s].revoked => row'[s].revoked)
  BY ServeWrites
<1>2. CASE row[s].revoked
  BY <1>1, <1>2 DEF Over
<1>3. CASE ~row[s].revoked
  <2>1. row[s].expires <= now /\ \A q \in Requests : Reviving(call[q]) => call[q].s # s
    BY <1>3 DEF Over
  <2>2. row'[s].expires = row[s].expires /\ now' = now
    BY <2>1, ServeExpires
  <2>3. ~Matches(s, call[r].token)
    BY <2>1, DatesAre DEF Matches, Live
  <2>4. Reviving(call'[r]) => call'[r].s # s
    BY <2>1, <2>3, ServeReviving
  <2>5. \A q \in Requests : Reviving(call'[q]) => call'[q].s # s
    BY <2>1, <2>4, ServeOthers
  <2>6. QED BY <1>1, <2>1, <2>2, <2>5 DEF Over, Reviving
<1>4. QED BY <1>2, <1>3

\* Two handlers that could name one session are one, where callers are orderly and a
\* rotation can interfere.
LEMMA OneHandler ==
  ASSUME Orderly, RotateInterval # 0, OwnerInv, NEW q \in Requests, NEW r \in Requests,
         NEW s \in SessionIds, row[s].user # NoUser, Aware(q, s), Aware(r, s)
  PROVE  q = r
<1>1. Knows(Owner[q], s) /\ Knows(Owner[r], s) /\ Owner[q] \in Clients /\ Owner[r] \in Clients
  BY OwnerAssumption DEF Knows
<1>2. Owner[q] = Owner[r]
  BY <1>1 DEF OwnerInv
<1>3. QED BY <1>2 DEF Orderly, OneSlotPer

\* The token a handler is about to look up is not rotated away from it.
LEMMA TokenStays ==
  ASSUME Orderly, Base, EndInv, NEW q \in Requests, Serve(q), NEW r \in Requests,
         call[r].at = "lookup", NEW s \in SessionIds, row[s].user # NoUser,
         row[s].token = call[r].token
  PROVE  row'[s].token = row[s].token
<1> SUFFICES ASSUME row'[s].token # row[s].token PROVE FALSE
  OBVIOUS
<1>1. Rotate(q) /\ s = call[q].s /\ Claims(call[q])
  BY ServeWrites DEF Base
<1>2. call[q].at = "rotate" /\ RotateInterval # 0
  BY <1>1 DEF Rotate, EndInv, NoRotation
<1>3. Aware(q, s) /\ Aware(r, s)
  BY <1>1 DEF Aware
<1>4. QED BY <1>2, <1>3, OneHandler DEF Base

\* What is kept for a handler is not disturbed by what others write.
LEMMA HonestStable ==
  ASSUME UsersStay, Over \subseteq Over', NEW c \in Call, Flowing(c), NEW a \in Arrival,
         Honest(c, a),
         c.at = "lookup" => \A s \in SessionIds : row[s].user # NoUser /\ row[s].token = c.token
                                                    => row'[s].token = row[s].token
  PROVE  Honest(c, a)'
<1>1. Held(c, a)'
  BY DEF Held, Honest
<1>2. Aimed(c, a)'
  BY DEF Aimed, Honest, UsersStay, Arrival
<1>3. Swept(c, a)'
  BY DEF Swept, Honest, UsersStay, SessionsOf, Arrival
<1>4. Named(c)'
  BY DEF Named, Honest
<1>5. QED BY <1>1, <1>2, <1>3, <1>4 DEF Honest

\* A handler that goes on to a point at which nothing new is claimed.
LEMMA HonestMove ==
  ASSUME NEW c \in Call, NEW d \in Call, NEW a, Honest(c, a)', Same(c, d),
         d.at \notin {"lookup", "gate"},
         Holding(d) => Holding(c),
         c.op \in {"logout", "logoutAll"} =>
            /\ c.at \in {"gate", "evict", "touch"}
            /\ d.at \in {"evict", "touch", "revoke", "revokeAll"},
         c.op \in {"logoutAll", "lock", "delete"} /\ d.at \in {"anonymize", "ok"}
            => c.at = "anonymize",
         c.op = "revokeOther" => d.at # "ok"
  PROVE  Honest(d, a)'
<1>1. Held(d, a)'
  BY DEF Honest, Held, Same
<1>2. Aimed(d, a)'
  BY DEF Honest, Aimed, Same
<1>3. Swept(d, a)'
  BY DEF Honest, Swept, Same
<1>4. Named(d)'
  BY DEF Named, Same
<1>5. QED BY <1>1, <1>2, <1>3, <1>4 DEF Honest

\* What a handler knows before a statement, its own or another's, it still knows after it.
LEMMA OwnHonest ==
  ASSUME Orderly, Base, EndInv, NEW q \in Requests, Serve(q), NEW r \in Requests,
         NEW c, NEW a, c = call[r], a = arrival[r]
  PROVE  /\ c \in Call /\ Flowing(c) /\ a \in Arrival /\ call'[r] \in Call
         /\ Honest(c, a) /\ Honest(c, a)'
         /\ Holding(c) => Known(c) /\ row[c.s].user = c.who /\ c.who # NoUser
<1>1. c \in Call /\ Flowing(c) /\ a \in Arrival /\ Honest(c, a)
  BY CallKnown DEF Base, IInv, TypeOK, EndInv
<1>2. call'[r] \in Call
  BY NextTyped DEF Base, Next, IInv, TypeOK
<1>3. UsersStay /\ Over \subseteq Over'
  BY ServeUsers, ServeOver DEF Base
<1>4. c.at = "lookup" => \A s \in SessionIds : row[s].user # NoUser /\ row[s].token = c.token
                                                 => row'[s].token = row[s].token
  BY TokenStays
<1>5. Holding(c) => Known(c) /\ row[c.s].user = c.who
  BY DEF Base, Ties, Tied, Claims
<1>6. QED BY <1>1, <1>2, <1>3, <1>4, <1>5, HonestStable, UserAssumption DEF Known

\* A revocation that is not lost ends the session it names.
LEMMA RevokeRowEnds ==
  ASSUME "revoke" \notin Faults, IInv, NEW s \in SessionIds, RevokeRow(s),
         row[s].user # NoUser
  PROVE  s \in Over'
<1>1. row' = [row EXCEPT ![s].revoked = TRUE]
  BY DEF RevokeRow, May
<1>2. row'[s].revoked /\ row'[s].user = row[s].user
  BY <1>1, RowTable DEF Row
<1>3. QED BY <1>2 DEF Over

\* The lookup chooses a session that is open, and the only one with the token;
\* when it finds none, whatever the caller was aiming at is over.
LEMMA LookupHonest ==
  ASSUME Orderly, Base, EndInv, NEW r \in Requests, Lookup(r),
         NEW c, NEW d, NEW a, c = call[r], d = call'[r], a = arrival[r]
  PROVE  Honest(d, a)'
<1>0. /\ c \in Call /\ Flowing(c) /\ a \in Arrival /\ Honest(c, a) /\ Honest(c, a)'
      /\ c.at = "lookup"
  BY OwnHonest DEF Lookup, Serve
<1>1. row' = row /\ now' = now /\ \A q \in Requests \ {r} : call'[q] = call[q]
  BY BecomeIs, ServeOthers DEF Lookup, Serve, Base
<1>2. CASE d.at = "gate"
  <2>1. /\ d.op = c.op /\ d.target = c.target /\ d.s \in SessionIds
        /\ Matches(d.s, c.token) /\ d.who = row[d.s].user
    BY <1>2, LookupStep DEF Same, Base
  <2>2. d.s \notin Over
    BY <2>1, DatesAre DEF Matches, Live, Over, Base
  <2>3. Held(d, a)'
    BY <1>0, <2>2 DEF Held, Honest
  <2>4. c.op \in {"logout", "logoutAll"} => a.aim \subseteq {d.s}
    <3>1. \A s \in a.aim : s \in SessionIds
      BY <1>0 DEF Arrival
    <3>2. QED BY <1>0, <2>1, <3>1 DEF Honest, Aimed, Base, TokenInv, Matches, Live
  <2>5. Aimed(d, a)'
    BY <1>2, <2>1, <2>4 DEF Aimed
  <2>6. Swept(d, a)' /\ Named(d)'
    BY <1>0, <1>1, <1>2 DEF Honest, Swept, Named
  <2>7. QED BY <1>0, <2>3, <2>5, <2>6 DEF Honest
<1>3. CASE d.at = "refused"
  <2>1. Same(c, d) /\ \A z \in SessionIds : ~Matches(z, c.token)
    BY <1>3, LookupStep DEF Base
  <2>2. ASSUME NEW s \in a.aim, c.op \in {"logout", "logoutAll"} PROVE s \in Over'
    <3>1. s \in SessionIds /\ row[s].user # NoUser /\ row[s].token = c.token
      BY <1>0, <2>2 DEF Honest, Aimed, Arrival
    <3>2. row[s].revoked \/ row[s].expires <= now
      BY <2>1, <3>1, DatesAre DEF Matches, Live, Base
    <3>3. ASSUME NEW q \in Requests, Reviving(call'[q]), call'[q].s = s PROVE FALSE
      <4>1. q # r /\ call'[q] = call[q]
        BY <1>1, <1>3, <3>3 DEF Reviving
      <4>2. RotateInterval # 0
        BY <3>3, <4>1, ConfigAssumption DEF Reviving, EndInv, NoRotation
      <4>3. Aware(q, s) /\ Aware(r, s)
        BY <3>1, <3>3, <4>1 DEF Aware, Claims, Holding, Reviving, ByToken
      <4>4. QED BY <3>1, <4>1, <4>2, <4>3, OneHandler DEF Base
    <3>4. QED BY <1>1, <3>1, <3>2, <3>3 DEF Over, Reviving
  <2>3. Aimed(d, a)'
    BY <1>3, <2>1, <2>2 DEF Aimed, Same
  <2>4. Held(d, a)' /\ Swept(d, a)' /\ Named(d)'
    BY <1>0, <1>3 DEF Honest, Held, Holding, Swept, Named
  <2>5. QED BY <1>0, <2>3, <2>4 DEF Honest
<1>4. QED BY <1>2, <1>3, LookupStep DEF Base

\* A session the gate turns away is over.
LEMMA EvictHonest ==
  ASSUME Orderly, "revoke" \notin Faults, Base, EndInv, NEW r \in Requests, Evict(r),
         NEW c, NEW d, NEW a, c = call[r], d = call'[r], a = arrival[r]
  PROVE  Honest(d, a)'
<1>0. /\ c \in Call /\ Flowing(c) /\ Honest(c, a) /\ Honest(c, a)' /\ c.at = "evict"
      /\ Same(c, d) /\ d.at = "refused"
      /\ Holding(c) => Known(c) /\ row[c.s].user = c.who /\ c.who # NoUser
  BY OwnHonest, EvictStep DEF Evict, Serve, Base
<1>1. Holding(c)
  BY <1>0, GatedKnows DEF Holding
<1>2. c.s \in Over'
  BY <1>0, <1>1, RevokeRowEnds DEF Evict, Known, Base
<1>3. Aimed(d, a)'
  BY <1>0, <1>2 DEF Honest, Aimed, Same
<1>4. Held(d, a)' /\ Swept(d, a)' /\ Named(d)'
  BY <1>0 DEF Honest, Held, Holding, Swept, Named
<1>5. QED BY <1>0, <1>3, <1>4 DEF Honest

\* Logout and device revocation end the session they are for.
LEMMA RevokeHonest ==
  ASSUME Orderly, "revoke" \notin Faults, Base, EndInv, NEW r \in Requests, Revoke(r),
         NEW c, NEW d, NEW a, c = call[r], d = call'[r], a = arrival[r]
  PROVE  Honest(d, a)'
<1>0. /\ c \in Call /\ Flowing(c) /\ Honest(c, a) /\ Honest(c, a)' /\ c.at = "revoke"
      /\ Same(c, d)
      /\ d.at = IF c.op \in {"login", "challenge"} THEN "refused" ELSE "ok"
      /\ Holding(c) => Known(c) /\ row[c.s].user = c.who /\ c.who # NoUser
  BY OwnHonest, RevokeStep DEF Revoke, Serve, Base
<1>1. Known(c) /\ c.op \in {"login", "logout", "challenge", "revokeOther"}
  BY <1>0, PointKnows
<1>2. c.op = "logout" => c.s \in Over'
  BY <1>0, <1>1, RevokeRowEnds DEF Revoke, Known, Holding, ByToken, Base
<1>3. c.op = "revokeOther" => c.target \in Over'
  <2>1. c.op = "revokeOther" => row[c.target].user = c.who /\ c.target \in SessionIds
    BY <1>0 DEF Base, Ties, Tied, Flowing
  <2>2. QED BY <1>0, <1>1, <2>1, RevokeRowEnds
           DEF Revoke, Holding, ByToken, Gated, Base
<1>4. Held(d, a)'
  BY <1>0, <1>1 DEF Honest, Held, Holding, Same
<1>5. Aimed(d, a)'
  BY <1>0, <1>1, <1>2 DEF Honest, Aimed, Same
<1>6. Swept(d, a)' /\ Named(d)'
  BY <1>0, <1>1, <1>3 DEF Honest, Swept, Named, Same
<1>7. QED BY <1>0, <1>4, <1>5, <1>6 DEF Honest

\* A sweep ends every session its user had when the caller arrived.
LEMMA RevokeAllHonest ==
  ASSUME Orderly, "revoke" \notin Faults, Base, EndInv, NEW r \in Requests, RevokeAll(r),
         NEW c, NEW d, NEW a, c = call[r], d = call'[r], a = arrival[r]
  PROVE  Honest(d, a)'
<1>0. /\ c \in Call /\ Flowing(c) /\ Honest(c, a) /\ Honest(c, a)' /\ c.at = "revokeAll"
      /\ a \in Arrival /\ Same(c, d)
      /\ d.at \in {"anonymize", "ok", "refused"}
      /\ d.at = "anonymize" => c.op = "delete"
      /\ d.at = "refused" => c.op = "lock"
      /\ d.at = "ok" => c.op # "delete"
      /\ Holding(c) => Known(c) /\ row[c.s].user = c.who /\ c.who # NoUser
  BY OwnHonest, RevokeAllStep DEF RevokeAll, Serve, Base
<1>1. \/ c.op \in {"logoutAll", "delete"} /\ Known(c)
      \/ c.op = "lock" \/ c.op = "unlock"
  BY <1>0, PointKnows
<1>2. row' = [s \in SessionIds |-> IF s \in SessionsOf(c.who)
                                   THEN [row[s] EXCEPT !.revoked = TRUE] ELSE row[s]]
  BY DEF RevokeAll, May
<1>3. \A z \in SessionIds : row'[z].user = row[z].user
  BY <1>2, RowTable DEF Row, Base
<1>4. \A z \in SessionsOf(c.who) : row[z].user # NoUser => z \in Over'
  <2>1. \A z \in SessionsOf(c.who) : row'[z].revoked
    BY <1>2, RowTable DEF Row, SessionsOf, Base
  <2>2. QED BY <1>3, <2>1 DEF Over, SessionsOf
<1>5. Held(d, a)'
  BY <1>0, <1>1 DEF Honest, Held, Holding, Same, ByToken, Gated
<1>6. Aimed(d, a)'
  <2>1. c.op = "logoutAll" => c.s \in SessionsOf(c.who) /\ row[c.s].user # NoUser
    BY <1>0, <1>1 DEF Holding, ByToken, Known, SessionsOf
  <2>2. c.op = "logoutAll" => a.aim \subseteq Over'
    BY <1>0, <1>4, <2>1 DEF Honest, Aimed
  <2>3. c.op # "logout"
    BY <1>1
  <2>4. QED BY <1>0, <2>2, <2>3 DEF Aimed, Same
<1>7. Swept(d, a)'
  <2>1. \A z \in a.born : z \in SessionIds /\ row[z].user # NoUser
    BY <1>0 DEF Honest, Swept, Arrival
  <2>2. a.born \cap SessionsOf(d.who)' \subseteq Over'
    BY <1>0, <1>3, <1>4, <2>1 DEF SessionsOf, Same
  <2>3. QED BY <1>3, <2>1, <2>2 DEF Swept
<1>8. Named(d)'
  BY <1>0, <1>1 DEF Named, Same
<1>9. QED BY <1>0, <1>5, <1>6, <1>7, <1>8 DEF Honest

\* Passing the gate, and the rotation, claim nothing.
LEMMA AdmissionHonest ==
  ASSUME Orderly, Base, EndInv, NEW r \in Requests, Touch(r) \/ Rotate(r),
         NEW c, NEW d, NEW a, c = call[r], d = call'[r], a = arrival[r]
  PROVE  Honest(d, a)'
<1>0. c \in Call /\ Flowing(c) /\ Honest(c, a) /\ Honest(c, a)' /\ c.at \in {"touch", "rotate"}
  BY OwnHonest DEF Touch, Rotate, Serve
<1>1. /\ Holding(c) /\ d.who = c.who /\ d.s = c.s /\ d.target = c.target
      /\ d.op = c.op \/ (d.op = "again" /\ d.at = "lookup")
      /\ d.at \in {"revoke", "revokeAll", "ok", "verify", "refused", "rotate", "lookup",
                   "list", "hook"}
      /\ d.at = "ok" => d.op \in {"again", "direct", "request"}
      /\ d.op \in {"logout", "logoutAll"} =>
           d.at \in {"revoke", "revokeAll"} /\ c.at = "touch"
  <2>1. CASE Touch(r)
    <3>1. d = Admitted(c) /\ c.op \in ByToken \cup {"again"} /\ c.at = "touch"
      BY <1>0, <2>1, BecomeIs, GatedKnows DEF Touch, Base
    <3>2. QED BY <1>0, <3>1, AdmittedFields DEF Gated, Holding
  <2>2. CASE Rotate(r)
    BY <2>2, RotateStep DEF Base, Gated, Holding, ByToken
  <2>3. QED BY <2>1, <2>2
<1>2. Held(d, a)'
  BY <1>0, <1>1 DEF Honest, Held
<1>3. Aimed(d, a)'
  BY <1>0, <1>1 DEF Honest, Aimed
<1>4. Swept(d, a)' /\ Named(d)'
  BY <1>0, <1>1 DEF Honest, Swept, Named
<1>5. QED BY <1>0, <1>2, <1>3, <1>4 DEF Honest

\* A login claims nothing about any session.
LEMMA LoginHonest ==
  ASSUME Orderly, Base, EndInv, NEW r \in Requests,
         Validate(r) \/ Insert(r) \/ Factors(r) \/ Pend(r),
         NEW c, NEW d, NEW a, c = call[r], d = call'[r], a = arrival[r]
  PROVE  Honest(d, a)'
<1>0. Honest(c, a)'
  BY OwnHonest DEF Serve
<1>1. d.op = "login"
  BY CallKnown, PointKnows, ValidateStep, LoginStep DEF Validate, Same, Base
<1>2. QED BY <1>0, <1>1, TokenOps
         DEF Honest, Held, Holding, Aimed, Swept, Named

\* The other statements move the handler on, and claim nothing.
LEMMA MoveHonest ==
  ASSUME Orderly, Base, EndInv, NEW r \in Requests,
         Gate(r) \/ List(r) \/ Verify(r) \/ Clear(r) \/ Hook(r) \/ ReadUser(r)
           \/ WriteStatus(r) \/ Anonymize(r),
         NEW c, NEW d, NEW a, c = call[r], d = call'[r], a = arrival[r]
  PROVE  Honest(d, a)'
<1>0. c \in Call /\ d \in Call /\ Flowing(c) /\ Honest(c, a) /\ Honest(c, a)' /\ IInv
  BY OwnHonest DEF Serve, Base
<1>1. CASE Gate(r)
  <2>1. Same(c, d) /\ c.at = "gate" /\ d.at \in {"evict", "touch"}
    BY <1>0, <1>1, GateStep DEF Gate
  <2>2. QED BY <1>0, <2>1, HonestMove DEF Holding, Same
<1>2. CASE List(r)
  <2>1. Same(c, d) /\ c.at = "list" /\ c.op = "revokeOther" /\ d.at \in {"revoke", "refused"}
    BY <1>0, <1>2, ListStep, PointKnows DEF List
  <2>2. QED BY <1>0, <2>1, HonestMove DEF Holding, Same
<1>3. CASE Verify(r) \/ Clear(r)
  <2>1. /\ Same(c, d) /\ c.at \in {"verify", "clear"} /\ c.op = "challenge"
        /\ d.at \in {"clear", "refused", "hook"}
    BY <1>0, <1>3, ChallengeStep DEF Verify, Clear
  <2>2. QED BY <1>0, <2>1, HonestMove DEF Holding, Same
<1>4. CASE Hook(r)
  <2>1. /\ Same(c, d) /\ c.at = "hook" /\ c.op \in {"login", "challenge", "delete"}
        /\ d.at \in {"refused", "revokeAll", "revoke", "ok"}
        /\ d.at = "ok" => c.op # "delete"
    BY <1>0, <1>4, HookStep, PointKnows DEF Hook
  <2>2. QED BY <1>0, <2>1, HonestMove DEF Holding, Same
<1>5. CASE ReadUser(r) \/ WriteStatus(r)
  <2>1. /\ Same(c, d) /\ c.op \in ByAdmin
        /\ d.at \in {"write", "refused", "revokeAll", "ok"}
        /\ d.at = "ok" => c.op # "lock"
    BY <1>0, <1>5, AdminStep
  <2>2. QED BY <1>0, <2>1, TokenOps, HonestMove DEF Holding, Same, ByAdmin
<1>6. CASE Anonymize(r)
  <2>1. Same(c, d) /\ c.at = "anonymize" /\ d.at = "ok" /\ c.op = "delete"
    BY <1>0, <1>6, AnonymizeStep DEF Anonymize
  <2>2. QED BY <1>0, <2>1, HonestMove DEF Holding, Same
<1>7. QED BY <1>1, <1>2, <1>3, <1>4, <1>5, <1>6

\* Only what a call recorded of sessions matters here, not the locked users.
LEMMA HonestArrival ==
  ASSUME NEW c, NEW a, NEW b, b.aim = a.aim, b.born = a.born, b.over = a.over,
         Honest(c, a)'
  PROVE  Honest(c, b)'
  BY DEF Honest, Held, Aimed, Swept

LEMMA StatusArrivals ==
  ASSUME IInv, NEW u, NEW status, UpdateStatus(u, status), NEW q \in Requests
  PROVE  /\ arrival'[q].aim = arrival[q].aim /\ arrival'[q].born = arrival[q].born
         /\ arrival'[q].over = arrival[q].over
<1>1. CASE status = "locked"
  BY <1>1 DEF UpdateStatus
<1>2. CASE status # "locked"
  <2>1. arrival'[q] = [arrival[q] EXCEPT !.locked = @ \ {u}]
    BY <1>2 DEF UpdateStatus
  <2>2. arrival[q] \in Arrival
    BY DEF IInv, TypeOK
  <2>3. QED BY <2>1, <2>2 DEF Arrival
<1>3. QED BY <1>1, <1>2

LEMMA ServeArrivals ==
  ASSUME IInv, NEW r \in Requests, Serve(r), NEW q \in Requests
  PROVE  /\ arrival'[q].aim = arrival[q].aim /\ arrival'[q].born = arrival[q].born
         /\ arrival'[q].over = arrival[q].over
<1>1. ASSUME NEW u, NEW status, UpdateStatus(u, status)
      PROVE  /\ arrival'[q].aim = arrival[q].aim /\ arrival'[q].born = arrival[q].born
             /\ arrival'[q].over = arrival[q].over
  BY <1>1, StatusArrivals
<1>2. QED BY <1>1, ServeAccounts DEF WriteStatus, Anonymize

\* A handler's statement keeps all of it.
LEMMA ServeEnd ==
  ASSUME Orderly, "revoke" \notin Faults, Base, EndInv, NEW r \in Requests, Serve(r)
  PROVE  told' \subseteq Over' /\ \A q \in Requests : Honest(call[q], arrival[q])'
<1>1. told' \subseteq Over'
  <2>1. told' = told
    BY DEF Serve, Lookup, Gate, Evict, Touch, Rotate, List, Revoke, RevokeAll, Validate,
           Insert, Factors, Pend, Verify, Clear, Hook, ReadUser, WriteStatus, Anonymize, hvars
  <2>2. QED BY <2>1, ServeOver DEF EndInv, Base
<1>2. ASSUME NEW q \in Requests, NEW d, NEW b, d = call'[q], b = arrival'[q]
      PROVE  Honest(d, b)'
  <2>1. PICK c, a : c = call[q] /\ a = arrival[q]
    OBVIOUS
  <2>2. Honest(d, a)'
    <3>1. CASE q # r
      <4>1. d = c
        BY <1>2, <2>1, <3>1, ServeOthers DEF Base
      <4>2. QED BY <2>1, <4>1, OwnHonest
    <3>2. CASE q = r
      BY <1>2, <2>1, <3>2, LookupHonest, EvictHonest, RevokeHonest,
         RevokeAllHonest, AdmissionHonest, LoginHonest, MoveHonest DEF Serve
    <3>3. QED BY <3>1, <3>2
  <2>3. b.aim = a.aim /\ b.born = a.born /\ b.over = a.over
    BY <1>2, <2>1, ServeArrivals DEF Base
  <2>4. QED BY <2>2, <2>3, HonestArrival
<1>3. QED BY <1>1, <1>2

\* A step that writes no row and leaves every handler but one as it was, and that one
\* free or just arrived, keeps what was known and what is known of that one.
LEMMA OutsideEnd ==
  ASSUME Base, EndInv, UNCHANGED row, now <= now', now' \in Nat, told' \subseteq Over,
         \A q \in Requests :
            \/ /\ call'[q] = call[q] /\ arrival'[q].aim = arrival[q].aim
               /\ arrival'[q].born = arrival[q].born /\ arrival'[q].over = arrival[q].over
            \/ /\ call'[q].s = NoSession
               /\ \A d, b : d = call'[q] /\ b = arrival'[q] =>
                     d \in Call /\ Flowing(d) /\ b \in Arrival /\ Honest(d, b)
  PROVE  told' \subseteq Over' /\ \A q \in Requests : Honest(call[q], arrival[q])'
<1>1. Over \subseteq Over'
  <2> SUFFICES ASSUME NEW s \in SessionIds, s \in Over PROVE s \in Over'
    BY DEF Over
  <2>1. row[s].expires <= now => row'[s].expires <= now'
    BY DatesAre DEF Base
  <2>2. \A q \in Requests : call'[q].s = s => call'[q] = call[q]
    BY SessionAssumption
  <2>3. QED BY <2>1, <2>2 DEF Over, Reviving
<1>2. ASSUME NEW q \in Requests, NEW d, NEW b, d = call'[q], b = arrival'[q]
      PROVE  Honest(d, b)'
  <2>1. CASE call'[q] = call[q]
    <3>1. PICK a : a = arrival[q] /\ a \in Arrival
      BY DEF Base, IInv, TypeOK
    <3>2. CASE b.aim = a.aim /\ b.born = a.born /\ b.over = a.over
      <4>1. d \in Call /\ Flowing(d) /\ Honest(d, a)
        BY <1>2, <2>1, <3>1, CallKnown DEF Base, EndInv
      <4>2. Honest(d, a)'
        BY <1>1, <3>1, <4>1, HonestStable DEF UsersStay
      <4>3. QED BY <3>2, <4>2, HonestArrival
    <3>3. CASE d \in Call /\ Flowing(d) /\ b \in Arrival /\ Honest(d, b)
      BY <1>1, <3>3, HonestStable DEF UsersStay
    <3>4. QED BY <1>2, <3>1, <3>2, <3>3
  <2>2. CASE call'[q] # call[q]
    <3>1. d \in Call /\ Flowing(d) /\ b \in Arrival /\ Honest(d, b)
      BY <1>2, <2>2
    <3>2. QED BY <1>1, <3>1, HonestStable DEF UsersStay
  <2>3. QED BY <2>1, <2>2
<1>3. QED BY <1>1, <1>2

\* An arriving call records what is in use, and what its token opens.
LEMMA ArriveEnd ==
  ASSUME Base, EndInv, NEW r \in Requests, Arrive(r)
  PROVE  told' \subseteq Over' /\ \A q \in Requests : Honest(call[q], arrival[q])'
<1>0. IInv /\ IInv'
  BY NextTyped DEF Base, Next
<1>1. /\ Arrived(r, call'[r].token) /\ call'[r].s = NoSession /\ UNCHANGED <<now, row, told>>
      /\ ~Holding(call'[r]) /\ call'[r].at \in {"lookup", "validate", "read"}
      /\ call'[r].op \in {"logout", "logoutAll"} => call'[r].at = "lookup"
      /\ \A q \in Requests \ {r} : call'[q] = call[q]
  <2>1. ASSUME NEW op, NEW t, NEW s, Present(r, op, t, s)
        PROVE  UNCHANGED told /\ Arrived(r, call'[r].token)
    <3>1. call'[r] = [Idle EXCEPT !.at = "lookup", !.op = op, !.token = t, !.target = s]
      BY <1>0, <2>1, BecomeIs DEF Present
    <3>2. call'[r].token = t
      BY <3>1 DEF Idle
    <3>3. QED BY <2>1, <3>2 DEF Present, hvars
  <2>2. ASSUME NEW u, NEW remember, Login(r, u, remember)
        PROVE  UNCHANGED told /\ Arrived(r, call'[r].token)
    <3>1. call'[r] = [Idle EXCEPT !.at = "validate", !.op = "login", !.who = u,
                                  !.remember = remember]
      BY <1>0, <2>2, BecomeIs DEF Login
    <3>2. call'[r].token = 0
      BY <3>1 DEF Idle
    <3>3. QED BY <2>2, <3>2 DEF Login, hvars
  <2>3. ASSUME NEW op, NEW u, Administer(r, op, u)
        PROVE  UNCHANGED told /\ Arrived(r, call'[r].token)
    <3>1. call'[r] = [Idle EXCEPT !.at = "read", !.op = op, !.who = u]
      BY <1>0, <2>3, BecomeIs DEF Administer
    <3>2. call'[r].token = 0
      BY <3>1 DEF Idle
    <3>3. QED BY <2>3, <3>2 DEF Administer, hvars
  <2>4. UNCHANGED told /\ Arrived(r, call'[r].token)
    BY <2>1, <2>2, <2>3 DEF Arrive
  <2>5. QED BY <1>0, <2>4, ArrivesAt, TokenOps DEF Holding, ByAdmin
<1>2. \A q \in Requests \ {r} : arrival'[q] = arrival[q]
  BY <1>1 DEF Arrived
<1>3. ASSUME NEW d, NEW b, d = call'[r], b = arrival'[r]
      PROVE  d \in Call /\ Flowing(d) /\ b \in Arrival /\ Honest(d, b)
  <2>1. /\ b.over = told
        /\ \A s \in b.born : row[s].user # NoUser
        /\ \A s \in b.aim : row[s].user # NoUser /\ row[s].token = d.token
    <3>1. b = [aim |-> {s \in SessionIds : Live(s) /\ row[s].token = d.token},
               born |-> {s \in SessionIds : row[s].user # NoUser},
               over |-> told,
               locked |-> {u \in Users : account[u] = "locked"},
               gone |-> erased]
      BY <1>0, <1>1, <1>3 DEF Arrived, IInv, TypeOK
    <3>2. QED BY <3>1 DEF Live
  <2>2. Honest(d, b)
    BY <1>1, <1>3, <2>1 DEF EndInv, Honest, Held, Aimed, Swept, Named
  <2>3. d \in Call /\ Flowing(d) /\ b \in Arrival
    BY <1>0, <1>3 DEF IInv, TypeOK, FlowOK
  <2>4. QED BY <2>2, <2>3
<1>4. now \in Nat /\ now <= now' /\ now' \in Nat
  BY <1>0, <1>1, DatesAre
<1>5. QED BY <1>1, <1>2, <1>3, <1>4, OutsideEnd DEF EndInv

\* What the answer tells the caller is so.
LEMMA ReceiveEnd ==
  ASSUME Base, EndInv, NEW r \in Requests, Receive(r)
  PROVE  told' \subseteq Over' /\ \A q \in Requests : Honest(call[q], arrival[q])'
<1>0. IInv /\ IInv'
  BY NextTyped DEF Base, Next
<1>1. /\ UNCHANGED <<now, row>>
      /\ \A q \in Requests \ {r} : call'[q] = call[q] /\ arrival'[q] = arrival[q]
      /\ call'[r] = Idle /\ arrival'[r] = NoArrival
  BY <1>0, BecomeIs DEF Receive, IInv, TypeOK
<1>2. told' \subseteq Over
  <2>1. Honest(call[r], arrival[r]) /\ call[r].at \in {"ok", "refused"}
    BY DEF EndInv, Receive
  <2>2. Promised(r) \subseteq Over
    BY <2>1 DEF Promised, Honest, Aimed, Swept, Named
  <2>3. QED BY <2>2 DEF Receive, EndInv
<1>3. ASSUME NEW d, NEW b, d = call'[r], b = arrival'[r]
      PROVE  d \in Call /\ Flowing(d) /\ b \in Arrival /\ Honest(d, b)
  <2>1. Honest(Idle, NoArrival)
    BY DEF Idle, NoArrival, Honest, Held, Holding, Aimed, Swept, Named
  <2>2. d \in Call /\ Flowing(d) /\ b \in Arrival
    BY <1>0, <1>3 DEF IInv, TypeOK, FlowOK
  <2>3. QED BY <1>1, <1>3, <2>1, <2>2
<1>4. call'[r].s = NoSession
  BY <1>1 DEF Idle
<1>5. now \in Nat /\ now <= now' /\ now' \in Nat
  BY <1>0, <1>1, DatesAre
<1>6. QED BY <1>1, <1>2, <1>3, <1>4, <1>5, OutsideEnd

LEMMA NextEnd ==
  ASSUME Orderly, "revoke" \notin Faults, Base, EndInv, [Next]_vars
  PROVE  EndInv'
<1>1. told' \subseteq Over' /\ \A q \in Requests : Honest(call[q], arrival[q])'
  <2>0. now \in Nat
    BY DatesAre DEF Base
  <2>1. CASE UNCHANGED vars \/ Tick
    BY <2>0, <2>1, OutsideEnd DEF vars, Tick, hvars, EndInv
  <2>2. ASSUME NEW u \in Users, NEW status \in Statuses, HostSetStatus(u, status)
        PROVE  <1>1!:
    <3>1. /\ UNCHANGED <<row, now, call, told>> /\ UpdateStatus(u, status)
      BY <2>2 DEF HostSetStatus, hvars
    <3>2. QED BY <2>0, <3>1, StatusArrivals, OutsideEnd DEF EndInv, Base
  <2>3. QED BY <2>1, <2>2, ArriveEnd, ReceiveEnd, ServeEnd DEF Next
<1>2. RotateInterval = 0 => NoRotation'
  BY RotationOff DEF EndInv, Base
<1>3. QED BY <1>1, <1>2 DEF EndInv

\* Once a caller was told that a session is over, no request that arrives later is
\* accepted with it, as long as no revocation is lost, and either rotation is off or each
\* client makes one call at a time; whatever the number of users, sessions and clients,
\* with lost answers, failing hooks and sessions that expire while they are rotated.
THEOREM EndingIsFinal ==
  ASSUME Orderly, "revoke" \notin Faults
  PROVE  Spec => []EndIsFinal
<1>1. Init => Base /\ EndInv
  <2>1. Init => EndInv
    BY DEF Init, Idle, Blank, NoArrival, EndInv, NoRotation, Honest, Held, Holding, Aimed,
           Swept, Named
  <2>2. QED BY <2>1, InitTyped, TiesInit, TokensInit, CookieInit DEF Base
<1>2. Base /\ EndInv /\ [Next]_vars => Base' /\ EndInv'
  BY NextEnd, NextTyped, TiesNext, TokensNext, OwnerNext DEF Base
<1>3. EndInv => EndIsFinal
  BY DEF EndInv, Honest, Held, Holding, EndIsFinal, Accepted
<1>4. QED BY <1>1, <1>2, <1>3, PTL DEF Spec
=============================================================================
