--------------------------- MODULE SessionsSafety ---------------------------
(***************************************************************************)
(* Safety of Sessions, for every value of its constants: a locked account  *)
(* is not served, a session ends only at the hands of its own user, and    *)
(* without rotation Sessions implements SessionLife.                       *)
(***************************************************************************)
EXTENDS SessionsProofs

-----------------------------------------------------------------------------
\* Steps of a handler, as far as both proofs look at them.

\* A handler that presented a token, past the lookup of its session.
Holding(c) == c.op \in ByToken \cup {"again"} /\ c.at \notin {"idle", "lookup", "refused"}

\* ... and past the gate.
Inside(c) == Holding(c) /\ c.at \notin {"gate", "evict"}

\* Two records of one call that differ in its progress only.
Same(c, d) == d.op = c.op /\ d.who = c.who /\ d.s = c.s /\ d.target = c.target

\* Finishing, or going on to another point, is progress.
LEMMA OkFields ==
  ASSUME NEW c \in Call PROVE Same(c, Ok(c)) /\ Ok(c).at = "ok"
  BY DEF Ok, Call, Same

LEMMA RefusalFields ==
  ASSUME NEW c \in Call PROVE Same(c, Refusal(c)) /\ Refusal(c).at = "refused"
  BY DEF Refusal, Call, Same

LEMMA MoveFields ==
  ASSUME NEW c \in Call, NEW p
  PROVE  Same(c, [c EXCEPT !.at = p]) /\ [c EXCEPT !.at = p].at = p
  BY DEF Call, Same

\* What follows an accepted session: the handler's own first point, its answer,
\* or a second lookup.
LEMMA WorkFields ==
  ASSUME NEW c \in Call, c.op \in Gated
  PROVE  /\ Work(c).who = c.who /\ Work(c).s = c.s /\ Work(c).target = c.target
         /\ \/ c.op = "full" /\ Work(c).at = "lookup" /\ Work(c).op = "again"
            \/ c.op = "revokeOther" /\ Work(c).at = "list" /\ Work(c).op = c.op
            \/ c.op = "delete" /\ Work(c).at = "hook" /\ Work(c).op = c.op
            \/ c.op = "request" /\ Work(c).at = "ok" /\ Work(c).op = c.op
<1>1. CASE c.op = "full"
  BY <1>1 DEF Work, Call
<1>2. CASE c.op = "revokeOther"
  BY <1>2 DEF Work, Call
<1>3. CASE c.op = "delete"
  BY <1>3 DEF Work, Call
<1>4. CASE c.op = "request"
  BY <1>4, OkFields DEF Work, Same
<1>5. QED BY <1>1, <1>2, <1>3, <1>4 DEF Gated

\* What follows the touch of an operation that presented a token.
LEMMA AdmittedFields ==
  ASSUME NEW c \in Call, c.op \in ByToken \cup {"again"}
  PROVE  /\ Admitted(c).who = c.who /\ Admitted(c).s = c.s /\ Admitted(c).target = c.target
         /\ \/ c.op = "logout" /\ Admitted(c).at = "revoke" /\ Admitted(c).op = c.op
            \/ c.op = "logoutAll" /\ Admitted(c).at = "revokeAll" /\ Admitted(c).op = c.op
            \/ c.op \in {"again", "direct"} /\ Admitted(c).at = "ok" /\ Admitted(c).op = c.op
            \/ c.op = "challenge" /\ Admitted(c).at \in {"verify", "refused"}
                 /\ Admitted(c).op = c.op
            \/ c.op \in Gated /\ Admitted(c).at = "refused" /\ Admitted(c).op = c.op
            \/ c.op \in Gated /\ Admitted(c).at = "rotate" /\ RotateDue(c.snap)
                 /\ Admitted(c).op = c.op
            \/ c.op = "full" /\ Admitted(c).at = "lookup" /\ Admitted(c).op = "again"
            \/ c.op = "revokeOther" /\ Admitted(c).at = "list" /\ Admitted(c).op = c.op
            \/ c.op = "delete" /\ Admitted(c).at = "hook" /\ Admitted(c).op = c.op
            \/ c.op = "request" /\ Admitted(c).at = "ok" /\ Admitted(c).op = c.op
<1>1. CASE c.op \in {"logout", "logoutAll"}
  BY <1>1 DEF Admitted, Call
<1>2. CASE c.op \in {"again", "direct"}
  BY <1>2, OkFields DEF Admitted, Same
<1>3. CASE c.op = "challenge"
  <2>1. CASE Pending(c)
    BY <1>3, <2>1 DEF Admitted, Call
  <2>2. CASE ~Pending(c)
    BY <1>3, <2>2, RefusalFields DEF Admitted, Same
  <2>3. QED BY <2>1, <2>2
<1>4. CASE c.op \in Gated
  <2>1. Admitted(c) = IF Pending(c) THEN Refusal(c)
                      ELSE IF RotateDue(c.snap)
                           THEN [c EXCEPT !.at = "rotate", !.out = lastToken + 1]
                           ELSE Work(c)
    BY <1>4 DEF Admitted, Gated
  <2>2. CASE Pending(c)
    BY <1>4, <2>1, <2>2, RefusalFields DEF Same
  <2>3. CASE ~Pending(c) /\ RotateDue(c.snap)
    BY <1>4, <2>1, <2>3 DEF Call
  <2>4. CASE ~Pending(c) /\ ~RotateDue(c.snap)
    BY <1>4, <2>1, <2>4, WorkFields
  <2>5. QED BY <2>2, <2>3, <2>4
<1>5. QED BY <1>1, <1>2, <1>3, <1>4 DEF ByToken

\* The admission hands out a fresh token only for a rotation.
LEMMA AdmittedToken ==
  ASSUME NEW c \in Call, c.op \in ByToken \cup {"again"}, Admitted(c).at = "rotate"
  PROVE  Admitted(c).out = lastToken + 1
<1>1. c.op \in Gated
  BY AdmittedFields DEF Gated
<1>2. Admitted(c) = IF Pending(c) THEN Refusal(c)
                    ELSE IF RotateDue(c.snap)
                         THEN [c EXCEPT !.at = "rotate", !.out = lastToken + 1]
                         ELSE Work(c)
  BY <1>1 DEF Admitted, Gated
<1>3. CASE ~Pending(c) /\ RotateDue(c.snap)
  BY <1>2, <1>3 DEF Call
<1>4. CASE Pending(c)
  BY <1>2, <1>4, RefusalFields
<1>5. CASE ~Pending(c) /\ ~RotateDue(c.snap)
  BY <1>1, <1>2, <1>5, WorkFields
<1>6. QED BY <1>3, <1>4, <1>5

\* A handler of the operations that present no token is never inside the gate.
LEMMA TokenOps ==
  /\ "login" \notin ByToken \cup {"again"}
  /\ \A op \in ByAdmin : op \notin ByToken \cup {"again"}
  BY DEF ByToken, ByAdmin, Gated

\* The table of handlers is a function on the slots.
LEMMA CallTable == ASSUME IInv PROVE call \in [Requests -> Call]
  BY DEF IInv, TypeOK

\* The handler that takes a step, before and after it.
LEMMA BecomeIs ==
  ASSUME IInv, NEW r \in Requests, NEW x, Become(r, x)
  PROVE  call'[r] = x /\ \A q \in Requests \ {r} : call'[q] = call[q]
  BY DEF Become, IInv, TypeOK

LEMMA Going ==
  ASSUME IInv, NEW r \in Requests, NEW p, Goto(r, p)
  PROVE  Same(call[r], call'[r]) /\ call'[r].at = p
<1>1. call[r] \in Call
  BY CallKnown
<1>2. call'[r] = [call[r] EXCEPT !.at = p]
  BY CallTable DEF Goto, Become
<1>3. QED BY <1>1, <1>2, MoveFields

LEMMA Finishing ==
  ASSUME IInv, NEW r \in Requests, Become(r, Ok(call[r]))
  PROVE  Same(call[r], call'[r]) /\ call'[r].at = "ok"
<1>1. call[r] \in Call /\ call'[r] = Ok(call[r])
  BY CallKnown, BecomeIs
<1>2. QED BY <1>1, OkFields

LEMMA Refusing ==
  ASSUME IInv, NEW r \in Requests, Become(r, Refusal(call[r]))
  PROVE  Same(call[r], call'[r]) /\ call'[r].at = "refused"
<1>1. call[r] \in Call /\ call'[r] = Refusal(call[r])
  BY CallKnown, BecomeIs
<1>2. QED BY <1>1, RefusalFields

\* A rotation, whether it wrote or failed, is followed by the accepted session's
\* own work.
LEMMA RotateStep ==
  ASSUME IInv, NEW r \in Requests, Rotate(r)
  PROVE  LET c == call[r]
             d == call'[r]
         IN  /\ c.op \in Gated /\ c.at = "rotate"
             /\ d.who = c.who /\ d.s = c.s /\ d.target = c.target
             /\ \/ c.op = "full" /\ d.at = "lookup" /\ d.op = "again"
                \/ c.op = "revokeOther" /\ d.at = "list" /\ d.op = c.op
                \/ c.op = "delete" /\ d.at = "hook" /\ d.op = c.op
                \/ c.op = "request" /\ d.at = "ok" /\ d.op = c.op
<1>1. call[r] \in Call /\ call[r].op \in Gated /\ call[r].at = "rotate"
  BY CallKnown, PointKnows DEF Rotate
<1>2. PICK e \in {call[r], Silent(call[r])} : call'[r] = Work(e)
  BY BecomeIs DEF Rotate, Silent
<1>3. /\ e \in Call /\ e.op = call[r].op /\ e.who = call[r].who /\ e.s = call[r].s
      /\ e.target = call[r].target
  BY <1>1, <1>2, SilentCall
<1>4. QED BY <1>1, <1>2, <1>3, WorkFields

LEMMA LookupStep ==
  ASSUME IInv, NEW r \in Requests, Lookup(r)
  PROVE  /\ call'[r].op = call[r].op /\ call'[r].target = call[r].target
         /\ \/ /\ call'[r].at = "gate" /\ call'[r].s \in SessionIds
               /\ Matches(call'[r].s, call[r].token)
               /\ call'[r].who = row[call'[r].s].user
            \/ /\ Same(call[r], call'[r]) /\ call'[r].at = "refused"
               /\ \A s \in SessionIds : ~Matches(s, call[r].token)
<1>0. call[r] \in Call
  BY CallKnown
<1>1. ASSUME NEW s \in SessionIds, Matches(s, call[r].token),
             Become(r, [call[r] EXCEPT !.at = "gate", !.s = s,
                                       !.who = row[s].user, !.snap = row[s]])
      PROVE  /\ call'[r].op = call[r].op /\ call'[r].target = call[r].target
             /\ call'[r].at = "gate" /\ call'[r].s = s /\ call'[r].who = row[s].user
  <2>1. call'[r] = [call[r] EXCEPT !.at = "gate", !.s = s, !.who = row[s].user,
                                   !.snap = row[s]]
    BY <1>1, BecomeIs
  <2>2. QED BY <1>0, <2>1 DEF Call
<1>2. ASSUME Become(r, Refusal(call[r]))
      PROVE  Same(call[r], call'[r]) /\ call'[r].at = "refused"
  BY <1>2, Refusing
<1>3. CASE \E s \in SessionIds :
             /\ Matches(s, call[r].token)
             /\ Become(r, [call[r] EXCEPT !.at = "gate", !.s = s,
                                          !.who = row[s].user, !.snap = row[s]])
  <2>1. PICK s \in SessionIds :
             /\ Matches(s, call[r].token)
             /\ Become(r, [call[r] EXCEPT !.at = "gate", !.s = s,
                                          !.who = row[s].user, !.snap = row[s]])
    BY <1>3
  <2>2. /\ call'[r].op = call[r].op /\ call'[r].target = call[r].target
        /\ call'[r].at = "gate" /\ call'[r].s = s /\ call'[r].who = row[s].user
    BY <1>1, <2>1
  <2>3. QED BY <2>1, <2>2
<1>4. CASE Become(r, Refusal(call[r]))
             /\ \A s \in SessionIds : ~Matches(s, call[r].token)
  BY <1>2, <1>4 DEF Same
<1>5. QED BY <1>3, <1>4 DEF Lookup

LEMMA GateStep ==
  ASSUME IInv, NEW r \in Requests, Gate(r)
  PROVE  /\ Same(call[r], call'[r])
         /\ call'[r].at \in {"evict", "touch"}
         /\ call'[r].at = "touch" /\ "statusRead" \notin Faults => ~LockedOut(call[r].who)
<1>0. call[r] \in Call
  BY CallKnown
<1>1. PICK unread \in May("statusRead") :
        Goto(r, IF (LockedOut(call[r].who) /\ ~unread) \/ Overdue(call[r].snap)
                THEN "evict" ELSE "touch")
  BY DEF Gate
<1>2. "statusRead" \notin Faults => ~unread
  BY <1>1 DEF May
<1>3. CASE (LockedOut(call[r].who) /\ ~unread) \/ Overdue(call[r].snap)
  <2>1. Goto(r, "evict")
    BY <1>1, <1>3
  <2>2. QED BY <2>1, Going
<1>4. CASE ~((LockedOut(call[r].who) /\ ~unread) \/ Overdue(call[r].snap))
  <2>1. Goto(r, "touch")
    BY <1>1, <1>4
  <2>2. QED BY <1>2, <1>4, <2>1, Going
<1>5. QED BY <1>3, <1>4

LEMMA EvictStep ==
  ASSUME IInv, NEW r \in Requests, Evict(r)
  PROVE  Same(call[r], call'[r]) /\ call'[r].at = "refused"
  BY Refusing DEF Evict

LEMMA ListStep ==
  ASSUME IInv, NEW r \in Requests, List(r)
  PROVE  /\ Same(call[r], call'[r])
         /\ \/ call'[r].at = "revoke" /\ Listed(call[r])
            \/ call'[r].at = "refused"
<1>0. call[r] \in Call
  BY CallKnown
<1>1. CASE Listed(call[r])
  <2>1. Goto(r, "revoke")
    BY <1>1 DEF List
  <2>2. QED BY <1>1, <2>1, Going
<1>2. CASE ~Listed(call[r])
  <2>1. Become(r, Refusal(call[r]))
    BY <1>2 DEF List
  <2>2. QED BY <2>1, Refusing
<1>3. QED BY <1>1, <1>2

LEMMA RevokeStep ==
  ASSUME IInv, NEW r \in Requests, Revoke(r)
  PROVE  /\ Same(call[r], call'[r])
         /\ call'[r].at = IF call[r].op \in {"login", "challenge"} THEN "refused" ELSE "ok"
<1>0. call[r] \in Call
  BY CallKnown
<1>1. CASE call[r].op \in {"login", "challenge"}
  <2>1. Become(r, Refusal(call[r]))
    BY <1>1 DEF Revoke
  <2>2. QED BY <1>1, <2>1, Refusing
<1>2. CASE call[r].op \notin {"login", "challenge"}
  <2>1. Become(r, Ok(call[r]))
    BY <1>2 DEF Revoke
  <2>2. QED BY <1>2, <2>1, Finishing
<1>3. QED BY <1>1, <1>2

LEMMA RevokeAllStep ==
  ASSUME IInv, NEW r \in Requests, RevokeAll(r)
  PROVE  /\ Same(call[r], call'[r])
         /\ \/ call'[r].at = "anonymize" /\ call[r].op = "delete"
            \/ call'[r].at = "refused" /\ call[r].op = "lock"
            \/ call'[r].at = "ok" /\ call[r].op # "delete"
<1>0. call[r] \in Call
  BY CallKnown
<1>1. \/ Goto(r, "anonymize") /\ call[r].op = "delete"
      \/ Become(r, Refusal(call[r])) /\ call[r].op = "lock"
      \/ Become(r, Ok(call[r])) /\ call[r].op # "delete"
  BY DEF RevokeAll, Goto
<1>2. QED BY <1>1, Finishing, Refusing, Going

LEMMA ValidateStep ==
  ASSUME IInv, NEW r \in Requests, Validate(r)
  PROVE  /\ call'[r].op = call[r].op /\ call'[r].who = call[r].who
         /\ \/ call'[r].at = "refused" /\ Same(call[r], call'[r]) /\ lastToken' = lastToken
            \/ /\ call'[r].at = "insert" /\ call'[r].s \in SessionIds
               /\ Fresh(call'[r].s) /\ lastToken' = lastToken + 1
               /\ call'[r].out = lastToken + 1
<1>0. call[r] \in Call
  BY CallKnown
<1>1. CASE Become(r, Refusal(call[r])) /\ UNCHANGED lastToken
  BY <1>1, Refusing DEF Same
<1>2. ASSUME lastToken' = lastToken + 1, NEW s \in SessionIds, Fresh(s),
             Become(r, [call[r] EXCEPT !.at = "insert", !.s = s, !.out = lastToken + 1])
      PROVE  /\ call'[r].op = call[r].op /\ call'[r].who = call[r].who
             /\ call'[r].at = "insert" /\ call'[r].s = s /\ call'[r].out = lastToken + 1
  <2>1. call'[r] = [call[r] EXCEPT !.at = "insert", !.s = s, !.out = lastToken + 1]
    BY <1>2, BecomeIs
  <2>2. QED BY <1>0, <2>1 DEF Call
<1>3. QED BY <1>1, <1>2 DEF Validate

LEMMA LoginStep ==
  ASSUME IInv, NEW r \in Requests, Insert(r) \/ Factors(r) \/ Pend(r)
  PROVE  /\ Same(call[r], call'[r]) /\ call[r].op = "login"
         /\ call'[r].at \in {"factors", "pend", "hook", "ok", "refused"}
         /\ call'[r].at \in {"ok", "refused"} => Pend(r)
<1>0. call[r] \in Call /\ Flowing(call[r]) /\ call[r].op = "login"
  BY CallKnown, PointKnows DEF Insert, Factors, Pend
<1>1. CASE Insert(r)
  BY <1>0, <1>1, Going DEF Insert
<1>2. ASSUME NEW p \in {"pend", "hook"}, Goto(r, p)
      PROVE  Same(call[r], call'[r]) /\ call'[r].at = p
  BY <1>2, Going
<1>3. CASE Factors(r)
  BY <1>0, <1>2, <1>3 DEF Factors
<1>4. CASE Pend(r)
  BY <1>0, <1>4, Finishing, Refusing DEF Pend
<1>5. QED BY <1>0, <1>1, <1>3, <1>4

LEMMA ChallengeStep ==
  ASSUME IInv, NEW r \in Requests, Verify(r) \/ Clear(r)
  PROVE  /\ Same(call[r], call'[r]) /\ call[r].op = "challenge"
         /\ call'[r].at \in {"clear", "refused", "hook"}
<1>0. call[r] \in Call /\ Flowing(call[r]) /\ call[r].op = "challenge"
  BY CallKnown, PointKnows DEF Verify, Clear
<1>1. CASE Verify(r)
  BY <1>0, <1>1, Going, Refusing DEF Verify
<1>2. CASE Clear(r)
  BY <1>0, <1>2, Going, Refusing DEF Clear, Goto
<1>3. QED BY <1>1, <1>2

LEMMA HookStep ==
  ASSUME IInv, NEW r \in Requests, Hook(r)
  PROVE  /\ Same(call[r], call'[r])
         /\ \/ call'[r].at = "refused"
            \/ call'[r].at = "revokeAll" /\ call[r].op = "delete"
            \/ call'[r].at = "revoke" /\ call[r].op \in {"login", "challenge"}
            \/ call'[r].at = "ok" /\ call[r].op \in {"login", "challenge"}
<1>0. call[r] \in Call /\ call[r].op \in {"login", "challenge", "delete"}
  BY CallKnown, PointKnows DEF Hook
<1>1. \/ Become(r, Refusal(call[r]))
      \/ call[r].op = "delete" /\ Goto(r, "revokeAll")
      \/ call[r].op # "delete" /\ Goto(r, "revoke")
      \/ call[r].op # "delete" /\ Become(r, Ok(call[r]))
  BY DEF Hook, Goto
<1>2. QED BY <1>0, <1>1, Finishing, Refusing, Going

LEMMA AdminStep ==
  ASSUME IInv, NEW r \in Requests, ReadUser(r) \/ WriteStatus(r)
  PROVE  /\ Same(call[r], call'[r]) /\ call[r].op \in ByAdmin
         /\ call'[r].at \in {"write", "refused", "revokeAll", "ok"}
         /\ call'[r].at = "ok" => call[r].op # "lock"
<1>0. call[r] \in Call /\ Flowing(call[r]) /\ call[r].op \in ByAdmin
  BY CallKnown, PointKnows DEF ReadUser, WriteStatus
<1>1. CASE ReadUser(r)
  <2>1. Goto(r, "write") \/ Become(r, Refusal(call[r]))
    BY <1>1 DEF ReadUser
  <2>2. QED BY <1>0, <2>1, Going, Refusing
<1>2. CASE WriteStatus(r)
  <2>1. \/ call[r].op = "lock" /\ Goto(r, "revokeAll")
        \/ call[r].op # "lock" /\ Become(r, Ok(call[r]))
    BY <1>2 DEF WriteStatus, Goto
  <2>2. QED BY <1>0, <2>1, Going, Finishing
<1>3. QED BY <1>1, <1>2

LEMMA AnonymizeStep ==
  ASSUME IInv, NEW r \in Requests, Anonymize(r)
  PROVE  Same(call[r], call'[r]) /\ call'[r].at = "ok" /\ call[r].op = "delete"
  BY CallKnown, PointKnows, Finishing DEF Anonymize

\* The session a statement leaves the handler with, and where.
LEMMA ServePoints ==
  ASSUME IInv, NEW r \in Requests, Serve(r)
  PROVE  /\ call'[r].at = "insert" => Validate(r)
         /\ \/ call'[r].s = call[r].s
            \/ call'[r].s \in SessionIds /\ row[call'[r].s].user # NoUser
            \/ Validate(r) /\ call'[r].at = "insert"
<1> DEFINE c == call[r]
<1> DEFINE d == call'[r]
<1>0. c \in Call /\ Flowing(c)
  BY CallKnown
<1>1. CASE Lookup(r)
  BY <1>1, LookupStep DEF Same, Matches, Live
<1>2. CASE Touch(r)
  <2>1. c.op \in ByToken \cup {"again"} /\ d = Admitted(c)
    BY <1>0, <1>2, BecomeIs, GatedKnows DEF Touch
  <2>2. QED BY <1>0, <2>1, AdmittedFields
<1>3. CASE Rotate(r)
  BY <1>3, RotateStep
<1>4. CASE Validate(r)
  BY <1>4, ValidateStep DEF Same
<1>5. CASE Gate(r) \/ Evict(r) \/ List(r) \/ Revoke(r) \/ RevokeAll(r)
  BY <1>5, GateStep, EvictStep, ListStep, RevokeStep, RevokeAllStep DEF Same
<1>6. CASE Insert(r) \/ Factors(r) \/ Pend(r) \/ Verify(r) \/ Clear(r) \/ Hook(r)
  BY <1>6, LoginStep, ChallengeStep, HookStep DEF Same
<1>7. CASE ReadUser(r) \/ WriteStatus(r) \/ Anonymize(r)
  BY <1>7, AdminStep, AnonymizeStep DEF Same
<1>8. QED BY <1>1, <1>2, <1>3, <1>4, <1>5, <1>6, <1>7 DEF Serve

\* A handler gets inside the gate by passing it, and stays with its user.
LEMMA ServeInside ==
  ASSUME IInv, NEW r \in Requests, Serve(r), Inside(call'[r])
  PROVE  /\ call'[r].who = call[r].who /\ call'[r].s = call[r].s
         /\ Inside(call[r]) \/ (Gate(r) /\ call'[r].at = "touch")
<1> DEFINE c == call[r]
<1> DEFINE d == call'[r]
<1>0. c \in Call /\ Flowing(c)
  BY CallKnown
<1>1. d.at \notin {"idle", "lookup", "refused", "gate", "evict"}
        /\ d.op \in ByToken \cup {"again"}
  BY DEF Inside, Holding
<1>2. CASE Lookup(r) \/ Evict(r)
  BY <1>1, <1>2, LookupStep, EvictStep
<1>3. CASE Gate(r)
  BY <1>1, <1>3, GateStep DEF Same
<1>4. CASE Touch(r)
  <2>1. c.op \in ByToken \cup {"again"} /\ d = Admitted(c) /\ c.at = "touch"
    BY <1>0, <1>4, BecomeIs, GatedKnows DEF Touch
  <2>2. QED BY <1>0, <2>1, AdmittedFields DEF Inside, Holding
<1>5. CASE Rotate(r)
  BY <1>5, RotateStep DEF Inside, Holding, ByToken
<1>6. CASE List(r)
  BY <1>1, <1>6, ListStep DEF Same, Inside, Holding, List
<1>7. CASE Revoke(r)
  BY <1>1, <1>7, RevokeStep DEF Same, Inside, Holding, Revoke
<1>8. CASE RevokeAll(r)
  BY <1>1, <1>8, RevokeAllStep DEF Same, Inside, Holding, RevokeAll
<1>9. CASE Validate(r)
  BY <1>0, <1>1, <1>9, ValidateStep, PointKnows, TokenOps DEF Validate
<1>10. CASE Insert(r) \/ Factors(r) \/ Pend(r)
  BY <1>1, <1>10, LoginStep, TokenOps DEF Same
<1>11. CASE Verify(r) \/ Clear(r)
  BY <1>1, <1>11, ChallengeStep DEF Same, Inside, Holding, Verify, Clear
<1>12. CASE Hook(r)
  BY <1>1, <1>12, HookStep DEF Same, Inside, Holding, Hook
<1>13. CASE ReadUser(r) \/ WriteStatus(r)
  BY <1>1, <1>13, AdminStep, TokenOps DEF Same
<1>14. CASE Anonymize(r)
  BY <1>1, <1>14, AnonymizeStep DEF Same, Inside, Holding, Anonymize
<1>15. QED BY <1>2, <1>3, <1>4, <1>5, <1>6, <1>7, <1>8, <1>9, <1>10, <1>11, <1>12, <1>13,
              <1>14 DEF Serve

\* A handler's statement moves no other handler.
LEMMA ServeOthers ==
  ASSUME IInv, NEW r \in Requests, Serve(r)
  PROVE  \A q \in Requests \ {r} : call'[q] = call[q]
<1>1. \E c : Become(r, c)
  BY DEF Serve, Lookup, Gate, Evict, Touch, Rotate, List, Revoke, RevokeAll, Validate,
         Insert, Factors, Pend, Verify, Clear, Hook, ReadUser, WriteStatus, Anonymize, Goto
<1>2. QED BY <1>1, BecomeIs

\* Only these two statements of a handler write users_auth.
LEMMA ServeAccounts ==
  ASSUME NEW r \in Requests, Serve(r)
  PROVE  \/ UNCHANGED <<account, arrival>>
         \/ WriteStatus(r) \/ Anonymize(r)
  BY DEF Serve, Lookup, Gate, Evict, Touch, Rotate, List, Revoke, RevokeAll, Validate,
         Insert, Factors, Pend, Verify, Clear, Hook, ReadUser

-----------------------------------------------------------------------------
\* A locked account is not served.

\* arrival[r].locked holds accounts locked ever since call[r] arrived; a handler
\* inside the gate does not run for any of them.
LockInv ==
    \A r \in Requests :
        /\ \A u \in arrival[r].locked : account[u] = "locked"
        /\ Inside(call[r]) => call[r].who \notin arrival[r].locked

\* A status write forgets the lock of the account it unlocks, and no other.
LEMMA UpdateStatusLocked ==
  ASSUME IInv, LockInv, NEW u \in Users \cup {NoUser}, NEW status, UpdateStatus(u, status)
  PROVE  \A r \in Requests :
            /\ arrival'[r].locked \subseteq arrival[r].locked
            /\ \A v \in arrival'[r].locked : account'[v] = "locked"
<1> SUFFICES ASSUME NEW r \in Requests
             PROVE  /\ arrival'[r].locked \subseteq arrival[r].locked
                    /\ \A v \in arrival'[r].locked : account'[v] = "locked"
  OBVIOUS
<1>1. arrival[r] \in Arrival /\ arrival[r].locked \subseteq Users
  BY DEF IInv, TypeOK, Arrival
<1>2. \A v \in Users : account'[v] = IF v = u THEN status ELSE account[v]
  BY DEF IInv, TypeOK, UpdateStatus
<1>3. CASE status = "locked"
  BY <1>1, <1>2, <1>3 DEF UpdateStatus, LockInv
<1>4. CASE status # "locked"
  <2>1. arrival'[r].locked = arrival[r].locked \ {u}
    BY <1>1, <1>4 DEF UpdateStatus, Arrival
  <2>2. QED BY <1>1, <1>2, <2>1 DEF LockInv
<1>5. QED BY <1>3, <1>4

\* An arriving call records who is locked, and is not inside the gate.
LEMMA ArriveLocked ==
  ASSUME IInv, LockInv, NEW r \in Requests, Arrive(r)
  PROVE  LockInv'
<1>1. /\ \E token : Arrived(r, token)
      /\ UNCHANGED account
      /\ \A q \in Requests \ {r} : call'[q] = call[q]
      /\ ~Inside(call'[r])
  <2>1. ASSUME NEW op \in ByToken, NEW t, NEW s, Present(r, op, t, s)
        PROVE  <1>1!:
    BY <2>1, CallTable DEF Present, Become, Idle, Inside, Holding
  <2>2. ASSUME NEW u, NEW remember, Login(r, u, remember) PROVE <1>1!:
    BY <2>2, CallTable, TokenOps DEF Login, Become, Idle, Inside, Holding
  <2>3. ASSUME NEW op \in ByAdmin, NEW u, Administer(r, op, u) PROVE <1>1!:
    BY <2>3, CallTable, TokenOps DEF Administer, Become, Idle, Inside, Holding
  <2>4. QED BY <2>1, <2>2, <2>3 DEF Arrive, ByToken, Gated
<1>2. /\ \A u \in arrival'[r].locked : account[u] = "locked"
      /\ \A q \in Requests \ {r} : arrival'[q] = arrival[q]
  BY <1>1 DEF Arrived, IInv, TypeOK
<1>3. QED BY <1>1, <1>2 DEF LockInv, Inside, Holding

\* A finished handler frees its slot.
LEMMA ReceiveLocked ==
  ASSUME IInv, LockInv, NEW r \in Requests, Receive(r)
  PROVE  LockInv'
<1>1. ~Inside(call'[r]) /\ \A q \in Requests \ {r} : call'[q] = call[q]
  BY CallTable DEF Receive, Become, Idle, Inside, Holding
<1>2. arrival'[r].locked = {} /\ \A q \in Requests \ {r} : arrival'[q] = arrival[q]
  BY DEF Receive, NoArrival, IInv, TypeOK
<1>3. QED BY <1>1, <1>2 DEF LockInv, Inside, Holding, Receive

\* A handler passes the gate only when the account is not locked.
LEMMA ServeLocked ==
  ASSUME "statusRead" \notin Faults, IInv, LockInv, NEW r \in Requests, Serve(r)
  PROVE  LockInv'
<1>1. \A q \in Requests :
        /\ arrival'[q].locked \subseteq arrival[q].locked
        /\ \A u \in arrival'[q].locked : account'[u] = "locked"
  <2>1. call[r].who \in Users \cup {NoUser}
    BY CallKnown DEF Call
  <2>2. CASE UNCHANGED <<account, arrival>>
    BY <2>2 DEF LockInv
  <2>3. CASE WriteStatus(r)
    BY <2>1, <2>3, UpdateStatusLocked DEF WriteStatus
  <2>4. CASE Anonymize(r)
    BY <2>1, <2>4, UpdateStatusLocked DEF Anonymize
  <2>5. QED BY <2>2, <2>3, <2>4, ServeAccounts
<1>2. Inside(call'[r]) => call'[r].who \notin arrival[r].locked
  <2> SUFFICES ASSUME Inside(call'[r]) PROVE call'[r].who \notin arrival[r].locked
    OBVIOUS
  <2>1. CASE Inside(call[r])
    BY <2>1, ServeInside DEF LockInv
  <2>2. CASE Gate(r) /\ call'[r].at = "touch"
    <3>1. ~LockedOut(call[r].who) /\ call'[r].who = call[r].who
      BY <2>2, GateStep DEF Same
    <3>2. QED BY <3>1 DEF LockedOut, LockInv
  <2>3. QED BY <2>1, <2>2, ServeInside
<1>3. \A q \in Requests \ {r} : call'[q] = call[q]
  BY ServeOthers
<1>4. QED BY <1>1, <1>2, <1>3 DEF LockInv, Inside, Holding

\* As long as the gate can read the user, no request is answered as signed in
\* when its account was locked from its arrival to its answer.
THEOREM LockIsEffective ==
  ASSUME "statusRead" \notin Faults
  PROVE  Spec => []LockedNotServed
<1>1. Init => LockInv
  BY DEF Init, Idle, NoArrival, LockInv, Inside, Holding
<1>2. IInv /\ LockInv /\ [Next]_vars => LockInv'
  <2> SUFFICES ASSUME IInv, LockInv, [Next]_vars PROVE LockInv'
    OBVIOUS
  <2>1. CASE UNCHANGED vars
    BY <2>1 DEF vars, LockInv, Inside, Holding
  <2>2. CASE Tick
    BY <2>2 DEF Tick, LockInv, Inside, Holding
  <2>3. ASSUME NEW u \in Users, NEW status \in Statuses, HostSetStatus(u, status)
        PROVE  LockInv'
    BY <2>3, UpdateStatusLocked DEF HostSetStatus, LockInv, Inside, Holding
  <2>4. QED BY <2>1, <2>2, <2>3, ArriveLocked, ReceiveLocked, ServeLocked DEF Next
<1>3. LockInv => LockedNotServed
  BY DEF LockInv, LockedNotServed, Accepted, Inside, Holding
<1>4. QED BY <1>1, <1>2, <1>3, InitTyped, NextTyped, PTL DEF Spec

-----------------------------------------------------------------------------
\* Whose session a handler works on.

LEMMA RowTable == ASSUME IInv PROVE row \in [SessionIds -> Row]
  BY DEF IInv, TypeOK

\* A handler that holds a session knows it and its user.
LEMMA HoldingKnows ==
  ASSUME NEW c \in Call, Flowing(c), Holding(c)
  PROVE  Known(c)
<1>1. c.at \notin {"validate", "read", "write"} /\ c.op \notin ByAdmin
  BY DEF Holding, Flowing, PointsOf, GatePoints, ByToken, ByAdmin, Gated
<1>2. QED BY <1>1 DEF Flowing, Holding

\* A login that has inserted its session, and has not answered yet.
LoggedIn(c) == c.op = "login" /\ c.at \in {"factors", "pend", "hook", "revoke"}

Claims(c) == Holding(c) \/ c.op = "again" \/ LoggedIn(c)

\* The session a handler works on, and the one it is about to revoke for its caller,
\* are its user's.
Tied(c) ==
    /\ Claims(c) => Known(c) /\ row[c.s].user = c.who
    /\ c.op = "revokeOther" /\ c.at = "revoke" => row[c.target].user = c.who

\* A login is about to insert into a row that no other handler knows.
Ties ==
    \A r \in Requests :
        /\ Tied(call[r])
        /\ call[r].at = "insert" =>
              row[call[r].s].user = NoUser /\ \A q \in Requests \ {r} : call[q].s # call[r].s

\* Rows keep their user once they have one.
UsersStay == \A s \in SessionIds : row[s].user # NoUser => row'[s].user = row[s].user
NoneAdded == \A s \in SessionIds : row[s].user = NoUser => row'[s].user = NoUser

\* A statement that neither inserts a row nor rotates a token touches last_active_at,
\* mfa_pending and revoked only, and un-revokes nothing.
Mild ==
    \A s \in SessionIds :
        /\ row'[s].user = row[s].user /\ row'[s].token = row[s].token
        /\ row'[s].expires = row[s].expires /\ (row[s].revoked => row'[s].revoked)

LEMMA RevokeRowMild ==
  ASSUME IInv, NEW s \in SessionIds, RevokeRow(s)
  PROVE  /\ Mild
         /\ \A z \in SessionIds : row'[z].mfaPending = row[z].mfaPending
<1>1. row' = row \/ row' = [row EXCEPT ![s].revoked = TRUE]
  BY DEF RevokeRow
<1>2. row[s] \in Row
  BY RowTable
<1>3. CASE row' = [row EXCEPT ![s].revoked = TRUE]
  <2>1. row'[s] = [row[s] EXCEPT !.revoked = TRUE]
    BY <1>3, RowTable
  <2>2. /\ row'[s].user = row[s].user /\ row'[s].token = row[s].token
        /\ row'[s].expires = row[s].expires /\ row'[s].revoked
        /\ row'[s].mfaPending = row[s].mfaPending
    BY <1>2, <2>1 DEF Row
  <2>3. \A z \in SessionIds \ {s} : row'[z] = row[z]
    BY <1>3, RowTable
  <2>4. QED BY <2>2, <2>3 DEF Mild
<1>4. QED BY <1>1, <1>3 DEF Mild

LEMMA ServeMild ==
  ASSUME IInv, NEW r \in Requests, Serve(r), ~Insert(r), ~Rotate(r)
  PROVE  /\ Mild /\ now' = now
         /\ Pend(r) \/ Clear(r) \/ \A s \in SessionIds : row'[s].mfaPending = row[s].mfaPending
<1> DEFINE c == call[r]
           Kept == \A s \in SessionIds : row'[s].mfaPending = row[s].mfaPending
<1>0. c \in Call /\ Flowing(c)
  BY CallKnown
<1>1. now' = now
  BY DEF Serve, Lookup, Gate, Evict, Touch, Rotate, List, Revoke, RevokeAll, Validate,
         Insert, Factors, Pend, Verify, Clear, Hook, ReadUser, WriteStatus, Anonymize
<1>2. CASE UNCHANGED row
  BY <1>1, <1>2 DEF Mild
<1>3. CASE Evict(r)
  <2>1. c.s \in SessionIds
    BY <1>0, <1>3, GatedKnows DEF Evict, Known
  <2>2. QED BY <1>1, <1>3, <2>1, RevokeRowMild DEF Evict
<1>4. CASE Touch(r)
  <2>1. row' = row \/ row' = [row EXCEPT ![c.s].active = now]
    BY <1>4 DEF Touch
  <2>2. Mild /\ Kept
    BY <2>1, RowTable DEF Row, Mild
  <2>3. QED BY <1>1, <2>2
<1>5. CASE Revoke(r)
  <2>1. (IF c.op = "revokeOther" THEN c.target ELSE c.s) \in SessionIds
    BY <1>0, <1>5, PointKnows DEF Revoke, Known, Flowing
  <2>2. QED BY <1>1, <1>5, <2>1, RevokeRowMild DEF Revoke
<1>6. CASE RevokeAll(r)
  <2>1. \/ row' = row
        \/ row' = [s \in SessionIds |-> IF s \in SessionsOf(c.who)
                                        THEN [row[s] EXCEPT !.revoked = TRUE] ELSE row[s]]
    BY <1>6 DEF RevokeAll
  <2>2. Mild /\ Kept
    BY <2>1, RowTable DEF Row, Mild
  <2>3. QED BY <1>1, <2>2
<1>7. CASE Pend(r) \/ Clear(r)
  <2>1. row' = row \/ \E b \in BOOLEAN : row' = [row EXCEPT ![c.s].mfaPending = b]
    BY <1>7 DEF Pend, Clear
  <2>2. Mild
    <3>1. CASE row' = row
      BY <3>1 DEF Mild
    <3>2. CASE \E b \in BOOLEAN : row' = [row EXCEPT ![c.s].mfaPending = b]
      BY <3>2, RowTable DEF Row, Mild
    <3>3. QED BY <2>1, <3>1, <3>2
  <2>3. QED BY <1>1, <1>7, <2>2
<1>8. QED
  BY <1>2, <1>3, <1>4, <1>5, <1>6, <1>7
     DEF Serve, Lookup, Gate, List, Validate, Factors, Verify, Hook, ReadUser,
         WriteStatus, Anonymize

\* What each statement does to the users of the rows.
LEMMA ServeUsers ==
  ASSUME IInv, Ties, NEW r \in Requests, Serve(r)
  PROVE  UsersStay /\ (Insert(r) \/ NoneAdded)
<1> DEFINE c == call[r]
<1>1. CASE Insert(r)
  <2>1. c.s \in SessionIds /\ row[c.s].user = NoUser
    BY <1>1, CallKnown, PointKnows DEF Insert, Known, Ties
  <2>2. \A s \in SessionIds : row[s].user # NoUser => row'[s] = row[s]
    BY <1>1, <2>1, RowTable DEF Insert
  <2>3. QED BY <1>1, <2>2 DEF UsersStay
<1>2. CASE Rotate(r)
  <2>1. \/ row' = row
        \/ row' = [row EXCEPT ![c.s] = [@ EXCEPT !.token = c.out,
                                        !.expires = now + TTL, !.active = now]]
    BY <1>2 DEF Rotate, Rotated
  <2>2. \A x \in Row :
          [x EXCEPT !.token = c.out, !.expires = now + TTL, !.active = now].user = x.user
    BY DEF Row
  <2>3. QED BY <2>1, <2>2, RowTable DEF UsersStay, NoneAdded
<1>3. CASE ~Insert(r) /\ ~Rotate(r)
  BY <1>3, ServeMild DEF Mild, UsersStay, NoneAdded
<1>4. QED BY <1>1, <1>2, <1>3

\* How a handler comes to work on a session: by its lookup, or by inserting it.
LEMMA ServeClaims ==
  ASSUME IInv, NEW r \in Requests, Serve(r), Claims(call'[r])
  PROVE  \/ /\ Claims(call[r]) \/ Insert(r)
            /\ call'[r].s = call[r].s /\ call'[r].who = call[r].who
         \/ /\ Lookup(r) /\ call'[r].at = "gate" /\ call'[r].s \in SessionIds
            /\ Matches(call'[r].s, call[r].token)
            /\ call'[r].who = row[call'[r].s].user
<1> DEFINE c == call[r]
           d == call'[r]
<1>0. c \in Call /\ Flowing(c)
  BY CallKnown
<1>1. CASE Lookup(r)
  <2>1. CASE d.at = "gate"
    BY <1>1, <2>1, LookupStep DEF Same
  <2>2. CASE d.at = "refused"
    <3>1. Same(c, d)
      BY <1>1, <2>2, LookupStep
    <3>2. c.op = "again"
      BY <3>1, <2>2 DEF Claims, Holding, LoggedIn, Same
    <3>3. QED BY <3>1, <3>2 DEF Claims, Same
  <2>3. QED BY <1>1, <2>1, <2>2, LookupStep
<1>2. CASE Gate(r)
  BY <1>2, GateStep, GatedKnows, <1>0 DEF Gate, Same, Claims, Holding
<1>3. CASE Evict(r)
  BY <1>3, EvictStep, GatedKnows, <1>0 DEF Evict, Same, Claims, Holding
<1>4. CASE Touch(r)
  <2>1. c.op \in ByToken \cup {"again"} /\ d = Admitted(c) /\ c.at = "touch"
    BY <1>0, <1>4, BecomeIs, GatedKnows DEF Touch
  <2>2. QED BY <1>0, <2>1, AdmittedFields DEF Claims, Holding
<1>5. CASE Rotate(r)
  BY <1>5, RotateStep DEF Claims, Holding, ByToken
<1>6. CASE List(r)
  BY <1>0, <1>6, ListStep, PointKnows DEF Same, List, Claims, Holding, ByToken, Gated
<1>7. CASE Revoke(r)
  BY <1>7, RevokeStep DEF Same, Revoke, Claims, Holding, LoggedIn
<1>8. CASE RevokeAll(r)
  BY <1>8, RevokeAllStep DEF Same, RevokeAll, Claims, Holding, LoggedIn
<1>9. CASE Validate(r)
  <2>1. c.op = "login" /\ d.op = "login" /\ d.at \in {"insert", "refused"}
    BY <1>0, <1>9, ValidateStep, PointKnows DEF Validate
  <2>2. QED BY <2>1, TokenOps DEF Claims, Holding, LoggedIn
<1>10. CASE Insert(r)
  BY <1>10, LoginStep DEF Same
<1>11. CASE Factors(r) \/ Pend(r)
  <2>1. Same(c, d) /\ c.op = "login" /\ c.at \in {"factors", "pend"}
    BY <1>11, LoginStep DEF Factors, Pend
  <2>2. QED BY <2>1 DEF Same, Claims, LoggedIn
<1>12. CASE Verify(r) \/ Clear(r)
  <2>1. Same(c, d) /\ c.op = "challenge" /\ c.at \in {"verify", "clear"}
    BY <1>12, ChallengeStep DEF Verify, Clear
  <2>2. QED BY <2>1 DEF Same, Claims, Holding, ByToken
<1>13. CASE Hook(r)
  <2>1. Same(c, d) /\ c.op \in {"login", "challenge", "delete"} /\ c.at = "hook"
    BY <1>0, <1>13, HookStep, PointKnows DEF Hook
  <2>2. QED BY <2>1 DEF Same, Claims, Holding, LoggedIn, ByToken, Gated
<1>14. CASE ReadUser(r) \/ WriteStatus(r)
  <2>1. Same(c, d) /\ c.op \in ByAdmin
    BY <1>14, AdminStep
  <2>2. QED BY <2>1, TokenOps DEF Same, Claims, Holding, LoggedIn, ByAdmin
<1>15. CASE Anonymize(r)
  <2>1. Same(c, d) /\ c.op = "delete" /\ c.at = "anonymize"
    BY <1>15, AnonymizeStep DEF Anonymize
  <2>2. QED BY <2>1 DEF Same, Claims, Holding, ByToken, Gated
<1>16. QED BY <1>1, <1>2, <1>3, <1>4, <1>5, <1>6, <1>7, <1>8, <1>9, <1>10, <1>11, <1>12,
              <1>13, <1>14, <1>15 DEF Serve

\* A device revocation gets to its UPDATE through the device list.
LEMMA ServeNames ==
  ASSUME IInv, NEW r \in Requests, Serve(r),
         call'[r].op = "revokeOther", call'[r].at = "revoke"
  PROVE  /\ Listed(call[r]) /\ List(r)
         /\ call'[r].who = call[r].who /\ call'[r].target = call[r].target
<1> DEFINE c == call[r]
           d == call'[r]
<1>0. c \in Call /\ Flowing(c)
  BY CallKnown
<1>1. CASE List(r)
  BY <1>1, ListStep DEF Same
<1>2. CASE Lookup(r) \/ Gate(r) \/ Evict(r) \/ Revoke(r) \/ RevokeAll(r) \/ Validate(r)
  BY <1>2, LookupStep, GateStep, EvictStep, RevokeStep, RevokeAllStep, ValidateStep
<1>3. CASE Touch(r)
  <2>1. c.op \in ByToken \cup {"again"} /\ d = Admitted(c)
    BY <1>0, <1>3, BecomeIs, GatedKnows DEF Touch
  <2>2. QED BY <1>0, <2>1, AdmittedFields
<1>4. CASE Rotate(r)
  BY <1>4, RotateStep
<1>5. CASE Insert(r) \/ Factors(r) \/ Pend(r) \/ Verify(r) \/ Clear(r) \/ Hook(r)
  BY <1>5, LoginStep, ChallengeStep, HookStep DEF Same
<1>6. CASE ReadUser(r) \/ WriteStatus(r) \/ Anonymize(r)
  BY <1>6, AdminStep, AnonymizeStep
<1>7. QED BY <1>1, <1>2, <1>3, <1>4, <1>5, <1>6 DEF Serve

\* What is tied stays tied.
LEMMA TiedStable ==
  ASSUME UsersStay, NEW c \in Call, Flowing(c), Tied(c)
  PROVE  Tied(c)'
<1>1. Claims(c) => c.s \in SessionIds /\ row[c.s].user # NoUser
  BY UserAssumption DEF Tied, Known
<1>2. c.op = "revokeOther" /\ c.at = "revoke" => c.target \in SessionIds /\ row[c.target].user # NoUser
  <2>1. c.op = "revokeOther" /\ c.at = "revoke" => Known(c)
    BY PointKnows
  <2>2. QED BY <2>1, UserAssumption DEF Tied, Known, Flowing
<1>3. QED BY <1>1, <1>2 DEF Tied, UsersStay

\* A login inserts into a row nobody else knows.
LEMMA InsertRow ==
  ASSUME IInv, Ties, NEW r \in Requests, Insert(r)
  PROVE  /\ call[r].s \in SessionIds /\ row[call[r].s].user = NoUser
         /\ row'[call[r].s].user = call[r].who /\ call[r].who \in Users
         /\ row'[call[r].s].token = call[r].out /\ ~row'[call[r].s].revoked
         /\ ~row'[call[r].s].mfaPending
         /\ row'[call[r].s].expires \in Nat /\ row'[call[r].s].expires > now
         /\ \A s \in SessionIds \ {call[r].s} : row'[s] = row[s]
<1>1. call[r].s \in SessionIds /\ row[call[r].s].user = NoUser /\ call[r].who \in Users
  BY CallKnown, PointKnows DEF Insert, Known, Ties
<1>2. now \in Nat
  BY DEF IInv, TypeOK
<1>3. QED BY <1>1, <1>2, RowTable, ConfigAssumption DEF Insert

\* A statement keeps the ties, of its own handler and of all others.
LEMMA ServeTies ==
  ASSUME IInv, Ties, NEW r \in Requests, Serve(r)
  PROVE  Ties'
<1> DEFINE c == call[r]
           d == call'[r]
<1>0. c \in Call /\ Flowing(c) /\ d \in Call /\ Flowing(d) /\ UsersStay
  <2>1. IInv'
    BY NextTyped DEF Next
  <2>2. d \in Call /\ Flowing(d)
    BY <2>1 DEF IInv, TypeOK, FlowOK
  <2>3. QED BY <2>2, CallKnown, ServeUsers
<1>1. \A q \in Requests \ {r} : call'[q] = call[q]
  BY ServeOthers
<1>2. Claims(d) => Known(d) /\ row'[d.s].user = d.who
  <2> SUFFICES ASSUME Claims(d) PROVE Known(d) /\ row'[d.s].user = d.who
    OBVIOUS
  <2>1. CASE Claims(c) /\ d.s = c.s /\ d.who = c.who
    <3>1. Known(c) /\ row[c.s].user = c.who
      BY <2>1 DEF Ties, Tied
    <3>2. QED BY <1>0, <2>1, <3>1, UserAssumption DEF Known, UsersStay
  <2>2. CASE Insert(r) /\ d.s = c.s /\ d.who = c.who
    BY <2>2, InsertRow DEF Known
  <2>3. CASE Lookup(r) /\ d.s \in SessionIds /\ Matches(d.s, c.token)
               /\ d.who = row[d.s].user
    <3>1. row' = row
      BY <2>3 DEF Lookup
    <3>2. d.who \in Users
      BY <2>3, RowTable DEF Row, Matches, Live
    <3>3. QED BY <2>3, <3>1, <3>2 DEF Known
  <2>4. QED BY <2>1, <2>2, <2>3, ServeClaims
<1>3. d.op = "revokeOther" /\ d.at = "revoke" => row'[d.target].user = d.who
  <2> SUFFICES ASSUME d.op = "revokeOther", d.at = "revoke" PROVE row'[d.target].user = d.who
    OBVIOUS
  <2>1. Listed(c) /\ List(r) /\ d.who = c.who /\ d.target = c.target
    BY ServeNames
  <2>2. row' = row
    BY <2>1 DEF List
  <2>3. QED BY <2>1, <2>2 DEF Listed, SessionsOf
<1>4. \A q \in Requests : Tied(call[q])'
  <2> SUFFICES ASSUME NEW q \in Requests PROVE Tied(call[q])'
    OBVIOUS
  <2>1. CASE q = r
    BY <1>2, <1>3, <2>1 DEF Tied, Known, Claims, Holding, LoggedIn
  <2>2. CASE q # r
    <3>1. call'[q] = call[q] /\ call[q] \in Call /\ Flowing(call[q]) /\ Tied(call[q])
      BY <1>1, <2>2, CallKnown DEF Ties
    <3>2. PICK e : e = call[q]
      OBVIOUS
    <3>3. Tied(e)'
      BY <1>0, <3>1, <3>2, TiedStable
    <3>4. QED BY <3>1, <3>2, <3>3 DEF Tied, Known, Claims, Holding, LoggedIn
  <2>3. QED BY <2>1, <2>2
<1>5. ASSUME NEW q \in Requests, call'[q].at = "insert"
      PROVE  /\ row'[call'[q].s].user = NoUser
             /\ \A p \in Requests \ {q} : call'[p].s # call'[q].s
  <2>1. CASE q = r
    <3>1. Validate(r) /\ d.s \in SessionIds /\ Fresh(d.s)
      BY <1>5, <2>1, ServePoints, ValidateStep
    <3>2. row' = row
      BY <3>1 DEF Validate
    <3>3. QED BY <1>1, <2>1, <3>1, <3>2 DEF Fresh
  <2>2. CASE q # r
    <3>1. /\ call'[q] = call[q] /\ row[call[q].s].user = NoUser /\ call[q].s \in SessionIds
          /\ \A p \in Requests \ {q} : call[p].s # call[q].s
      BY <1>1, <1>5, <2>2, CallKnown, PointKnows DEF Ties, Known
    <3>2. row'[call[q].s].user = NoUser
      <4>1. CASE Insert(r)
        BY <2>2, <3>1, <4>1, InsertRow
      <4>2. CASE ~Insert(r)
        BY <3>1, <4>2, ServeUsers DEF NoneAdded
      <4>3. QED BY <4>1, <4>2
    <3>3. d.s # call[q].s
      <4>1. CASE Validate(r) /\ d.at = "insert"
        BY <2>2, <4>1, ValidateStep DEF Fresh
      <4>2. CASE d.s = c.s
        BY <2>2, <3>1, <4>2
      <4>3. CASE d.s \in SessionIds /\ row[d.s].user # NoUser
        BY <3>1, <4>3
      <4>4. QED BY <4>1, <4>2, <4>3, ServePoints
    <3>4. QED BY <1>1, <3>1, <3>2, <3>3
  <2>3. QED BY <2>1, <2>2
<1>6. QED BY <1>4, <1>5 DEF Ties

\* A call that arrives works on no session yet.
LEMMA ArrivesAt ==
  ASSUME IInv, NEW r \in Requests, Arrive(r)
  PROVE  /\ call'[r].s = NoSession /\ call'[r].out = 0
         /\ \/ call'[r].at = "lookup" /\ call'[r].op \in ByToken
                 /\ call'[r].token \in kept[Owner[r]]
            \/ call'[r].at = "validate" /\ call'[r].op = "login" /\ call'[r].token = 0
            \/ call'[r].at = "read" /\ call'[r].op \in ByAdmin /\ call'[r].token = 0
         /\ \A q \in Requests \ {r} : call'[q] = call[q]
         /\ UNCHANGED <<now, row, lastToken, kept, jar, proved>>
<1>1. ASSUME NEW op \in ByToken, NEW t, NEW s, Present(r, op, t, s)
      PROVE  /\ call'[r].s = NoSession /\ call'[r].out = 0
             /\ call'[r].at = "lookup" /\ call'[r].op = op
             /\ call'[r].token = t /\ t \in kept[Owner[r]]
  <2>1. call'[r] = [Idle EXCEPT !.at = "lookup", !.op = op, !.token = t, !.target = s]
    BY <1>1, BecomeIs DEF Present
  <2>2. t \in kept[Owner[r]]
    BY <1>1 DEF Present
  <2>3. QED BY <2>1, <2>2 DEF Idle
<1>2. ASSUME NEW u, NEW remember, Login(r, u, remember)
      PROVE  /\ call'[r].s = NoSession /\ call'[r].out = 0 /\ call'[r].token = 0
             /\ call'[r].at = "validate" /\ call'[r].op = "login"
  <2>1. call'[r] = [Idle EXCEPT !.at = "validate", !.op = "login", !.who = u,
                                !.remember = remember]
    BY <1>2, BecomeIs DEF Login
  <2>2. QED BY <2>1 DEF Idle
<1>3. ASSUME NEW op \in ByAdmin, NEW u, Administer(r, op, u)
      PROVE  /\ call'[r].s = NoSession /\ call'[r].out = 0 /\ call'[r].token = 0
             /\ call'[r].at = "read" /\ call'[r].op = op
  <2>1. call'[r] = [Idle EXCEPT !.at = "read", !.op = op, !.who = u]
    BY <1>3, BecomeIs DEF Administer
  <2>2. QED BY <2>1 DEF Idle
<1>4. /\ \A q \in Requests \ {r} : call'[q] = call[q]
      /\ UNCHANGED <<now, row, lastToken, kept, jar, proved>>
  <2>1. \E x : Become(r, x)
    BY DEF Arrive, Present, Login, Administer
  <2>2. QED BY <2>1, BecomeIs DEF Arrive, Present, Login, Administer, hvars
<1>5. CASE \/ \E op \in ByToken \ {"revokeOther"}, t \in Tokens \ {0} :
                Present(r, op, t, NoSession)
           \/ \E t \in Tokens \ {0}, s \in SessionIds : Present(r, "revokeOther", t, s)
  BY <1>1, <1>4, <1>5 DEF ByToken, Gated
<1>6. CASE \E u \in Users, remember \in BOOLEAN : Login(r, u, remember)
  BY <1>2, <1>4, <1>6
<1>7. CASE \E op \in ByAdmin, u \in Users : Administer(r, op, u)
  BY <1>3, <1>4, <1>7
<1>8. QED BY <1>5, <1>6, <1>7 DEF Arrive

\* An idle slot, or a call that has only just arrived, is tied to nothing.
LEMMA LooseTies ==
  ASSUME IInv, Ties, NEW r \in Requests, UNCHANGED row,
         \A q \in Requests \ {r} : call'[q] = call[q],
         ~Claims(call'[r]), call'[r].at \notin {"insert", "revoke"},
         call'[r].s = NoSession
  PROVE  Ties'
<1>1. \A q \in Requests : Tied(call[q])'
  BY DEF Ties, Tied, Known, Claims, Holding, LoggedIn
<1>2. ASSUME NEW q \in Requests, call'[q].at = "insert"
      PROVE  /\ row'[call'[q].s].user = NoUser
             /\ \A p \in Requests \ {q} : call'[p].s # call'[q].s
  <2>1. q # r /\ call'[q] = call[q] /\ call[q].s \in SessionIds
    BY <1>2, CallKnown, PointKnows DEF Known
  <2>2. QED BY <1>2, <2>1, SessionAssumption DEF Ties
<1>3. QED BY <1>1, <1>2 DEF Ties

LEMMA TiesInit == Init => Ties
  BY DEF Init, Idle, Ties, Tied, Claims, Holding, LoggedIn

LEMMA TiesNext == IInv /\ Ties /\ [Next]_vars => Ties'
<1> SUFFICES ASSUME IInv, Ties, [Next]_vars PROVE Ties'
  OBVIOUS
<1>1. ASSUME UNCHANGED <<row, call>> PROVE Ties'
  BY <1>1 DEF Ties, Tied, Known, Claims, Holding, LoggedIn
<1>2. CASE UNCHANGED vars \/ Tick
  BY <1>1, <1>2 DEF vars, Tick
<1>3. CASE \E u \in Users, status \in Statuses : HostSetStatus(u, status)
  BY <1>1, <1>3 DEF HostSetStatus
<1>4. ASSUME NEW r \in Requests, Arrive(r) PROVE Ties'
  <2>1. ~Claims(call'[r])
    BY <1>4, ArrivesAt, TokenOps DEF Claims, Holding, LoggedIn, ByToken, Gated, ByAdmin
  <2>2. QED BY <1>4, <2>1, ArrivesAt, LooseTies
<1>5. ASSUME NEW r \in Requests, Receive(r) PROVE Ties'
  <2>1. call'[r] = Idle /\ \A q \in Requests \ {r} : call'[q] = call[q]
    BY <1>5, BecomeIs DEF Receive
  <2>2. UNCHANGED row
    BY <1>5 DEF Receive
  <2>3. QED BY <2>1, <2>2, LooseTies DEF Idle, Claims, Holding, LoggedIn
<1>6. QED BY <1>2, <1>3, <1>4, <1>5, ServeTies DEF Next

\* A statement that revokes a row is one of a handler that runs for its user.
LEMMA ServeOwn ==
  ASSUME IInv, Ties, NEW r \in Requests, Serve(r), NEW s \in SessionIds,
         row'[s].revoked, ~row[s].revoked
  PROVE  call'[r] # call[r] /\ call[r].who = row[s].user
<1> DEFINE c == call[r]
           d == call'[r]
<1>0. c \in Call /\ Flowing(c) /\ Tied(c)
  BY CallKnown DEF Ties
<1>1. ASSUME NEW z \in SessionIds, RevokeRow(z) PROVE s = z
  <2>1. row' = row \/ row' = [row EXCEPT ![z].revoked = TRUE]
    BY <1>1 DEF RevokeRow
  <2>2. QED BY <2>1, RowTable
<1>2. CASE UNCHANGED row
  BY <1>2
<1>3. CASE Evict(r)
  <2>1. Known(c) /\ Claims(c) /\ c.at = "evict"
    BY <1>0, <1>3, GatedKnows DEF Evict, Claims, Holding
  <2>2. s = c.s
    BY <1>1, <1>3, <2>1 DEF Evict, Known
  <2>3. d.at = "refused"
    BY <1>3, EvictStep
  <2>4. QED BY <1>0, <2>1, <2>2, <2>3 DEF Tied
<1>4. CASE Revoke(r)
  <2>1. /\ Known(c) /\ c.at = "revoke"
        /\ c.op \in {"login", "logout", "challenge", "revokeOther"}
    BY <1>0, <1>4, PointKnows DEF Revoke
  <2>2. c.op = "revokeOther" => c.target \in SessionIds
    BY <1>0 DEF Flowing
  <2>3. s = IF c.op = "revokeOther" THEN c.target ELSE c.s
    BY <1>1, <1>4, <2>1, <2>2 DEF Revoke, Known
  <2>4. Claims(c)
    BY <2>1 DEF Claims, Holding, LoggedIn, ByToken, Gated
  <2>5. d.at # "revoke"
    BY <1>4, RevokeStep
  <2>6. QED BY <1>0, <2>1, <2>3, <2>4, <2>5 DEF Tied
<1>5. CASE RevokeAll(r)
  <2>1. \/ row' = row
        \/ row' = [z \in SessionIds |-> IF z \in SessionsOf(c.who)
                                        THEN [row[z] EXCEPT !.revoked = TRUE] ELSE row[z]]
    BY <1>5 DEF RevokeAll
  <2>2. s \in SessionsOf(c.who)
    BY <2>1
  <2>3. c.at = "revokeAll" /\ d.at # "revokeAll"
    BY <1>5, RevokeAllStep DEF RevokeAll
  <2>4. QED BY <2>2, <2>3 DEF SessionsOf
<1>6. CASE Touch(r)
  <2>1. row' = row \/ row' = [row EXCEPT ![c.s].active = now]
    BY <1>6 DEF Touch
  <2>2. \A x \in Row : [x EXCEPT !.active = now].revoked = x.revoked
    BY DEF Row
  <2>3. row'[s].revoked = row[s].revoked
    BY <2>1, <2>2, RowTable
  <2>4. QED BY <2>3
<1>7. CASE Rotate(r)
  <2>1. \/ row' = row
        \/ row' = [row EXCEPT ![c.s] = [@ EXCEPT !.token = c.out,
                                        !.expires = now + TTL, !.active = now]]
    BY <1>7 DEF Rotate, Rotated
  <2>2. \A x \in Row : [x EXCEPT !.token = c.out, !.expires = now + TTL,
                                 !.active = now].revoked = x.revoked
    BY DEF Row
  <2>3. row'[s].revoked = row[s].revoked
    BY <2>1, <2>2, RowTable
  <2>4. QED BY <2>3
<1>8. CASE Insert(r)
  BY <1>8, InsertRow
<1>9. CASE Pend(r) \/ Clear(r)
  <2>1. row' = row \/ \E b \in BOOLEAN : row' = [row EXCEPT ![c.s].mfaPending = b]
    BY <1>9 DEF Pend, Clear
  <2>2. row'[s].revoked = row[s].revoked
    BY <2>1, RowTable DEF Row
  <2>3. QED BY <2>2
<1>10. QED
  BY <1>2, <1>3, <1>4, <1>5, <1>6, <1>7, <1>8, <1>9
     DEF Serve, Lookup, Gate, List, Validate, Factors, Verify, Hook, ReadUser,
         WriteStatus, Anonymize

\* A session comes to an end only through a statement of a handler that runs for the
\* user whose session it is: nobody ends another user's session, whatever users,
\* clients and handlers there are.
THEOREM EndingsAreOwn == Spec => OwnSessionsOnly
<1> DEFINE Own ==
      \A s \in SessionIds :
          row'[s].revoked /\ ~row[s].revoked
              => \E r \in Requests : call'[r] # call[r] /\ call[r].who = row[s].user
<1>1. IInv /\ Ties /\ [Next]_vars => [Own]_vars
  <2> SUFFICES ASSUME IInv, Ties, [Next]_vars PROVE [Own]_vars
    OBVIOUS
  <2>1. ASSUME UNCHANGED row PROVE Own
    BY <2>1
  <2>2. CASE UNCHANGED vars \/ Tick
    BY <2>1, <2>2 DEF Tick
  <2>3. CASE \E u \in Users, status \in Statuses : HostSetStatus(u, status)
    BY <2>1, <2>3 DEF HostSetStatus
  <2>4. ASSUME NEW r \in Requests, Arrive(r) \/ Receive(r) PROVE Own
    BY <2>1, <2>4, ArrivesAt DEF Receive
  <2>5. ASSUME NEW r \in Requests, Serve(r) PROVE Own
    BY <2>5, ServeOwn
  <2>6. QED BY <2>2, <2>3, <2>4, <2>5 DEF Next
<1>2. QED BY <1>1, TiesInit, TiesNext, InitTyped, NextTyped, PTL DEF Spec, OwnSessionsOnly

-----------------------------------------------------------------------------
\* Without rotation, Sessions implements SessionLife.

NoRotation == \A r \in Requests : call[r].at # "rotate"

LEMMA RotationOff ==
  ASSUME RotateInterval = 0, IInv, NoRotation, [Next]_vars
  PROVE  NoRotation'
<1>1. CASE UNCHANGED vars \/ Tick
  BY <1>1 DEF vars, Tick, NoRotation
<1>2. CASE \E u \in Users, status \in Statuses : HostSetStatus(u, status)
  BY <1>2 DEF HostSetStatus, NoRotation
<1>3. ASSUME NEW r \in Requests, Arrive(r) PROVE NoRotation'
  BY <1>3, ArrivesAt DEF NoRotation
<1>4. ASSUME NEW r \in Requests, Receive(r) PROVE NoRotation'
  BY <1>4, BecomeIs DEF Receive, NoRotation, Idle
<1>5. ASSUME NEW r \in Requests, Serve(r) PROVE NoRotation'
  <2>1. call'[r].at # "rotate"
    <3>1. CASE Touch(r)
      <4>1. /\ call[r] \in Call /\ call[r].op \in ByToken \cup {"again"}
            /\ call'[r] = Admitted(call[r])
        BY <3>1, CallKnown, BecomeIs, GatedKnows DEF Touch
      <4>2. QED BY <4>1, AdmittedFields DEF RotateDue
    <3>2. CASE Rotate(r)
      BY <3>2 DEF Rotate, NoRotation
    <3>3. CASE Lookup(r) \/ Gate(r) \/ Evict(r) \/ List(r) \/ Revoke(r) \/ RevokeAll(r)
                 \/ Validate(r)
      BY <3>3, LookupStep, GateStep, EvictStep, ListStep, RevokeStep, RevokeAllStep,
         ValidateStep
    <3>4. CASE Insert(r) \/ Factors(r) \/ Pend(r) \/ Verify(r) \/ Clear(r) \/ Hook(r)
      BY <3>4, LoginStep, ChallengeStep, HookStep
    <3>5. CASE ReadUser(r) \/ WriteStatus(r) \/ Anonymize(r)
      BY <3>5, AdminStep, AnonymizeStep
    <3>6. QED BY <1>5, <3>1, <3>2, <3>3, <3>4, <3>5 DEF Serve
  <2>2. QED BY <1>5, <2>1, ServeOthers DEF NoRotation
<1>6. QED BY <1>1, <1>2, <1>3, <1>4, <1>5 DEF Next

\* The sessions a step ends.
Ended == {s \in SessionIds : lifeOf[s] = "open" /\ lifeOf'[s] = "over"}

\* A mild statement, or a tick of the clock, only ends sessions.
LEMMA MildEnds ==
  ASSUME IInv, IInv', Mild, now <= now'
  PROVE  /\ lifeOf' = [s \in SessionIds |-> IF s \in Ended THEN "over" ELSE lifeOf[s]]
         /\ Ended \in SUBSET SessionIds /\ \A s \in Ended : lifeOf[s] = "open"
<1>1. now \in Nat /\ now' \in Nat /\ \A s \in SessionIds : row[s].expires \in Nat
  BY DEF IInv, TypeOK, Row
<1>2. ASSUME NEW s \in SessionIds
      PROVE  lifeOf'[s] = lifeOf[s] \/ (lifeOf[s] = "open" /\ lifeOf'[s] = "over")
  <2>1. CASE row[s].user = NoUser
    BY <2>1 DEF lifeOf, Mild
  <2>2. CASE row[s].user # NoUser
    <3>1. Live(s)' => Live(s)
      BY <1>1, <2>2 DEF Live, Mild
    <3>2. QED BY <2>2, <3>1 DEF lifeOf, Mild
  <2>3. QED BY <2>1, <2>2
<1>3. QED BY <1>2 DEF Ended, lifeOf

\* A handler comes to hold a session by its lookup only.
LEMMA HeldBefore ==
  ASSUME IInv, NEW r \in Requests, Serve(r), ~Lookup(r), Holding(call'[r])
  PROVE  Holding(call[r]) /\ call'[r].s = call[r].s
<1> DEFINE c == call[r]
           d == call'[r]
<1>0. c \in Call /\ Flowing(c) /\ Claims(d)
  BY CallKnown DEF Claims
<1>1. ~Insert(r) /\ ~LoggedIn(c)
  <2>1. CASE Insert(r) \/ Factors(r) \/ Pend(r)
    BY <2>1, LoginStep, TokenOps DEF Same, Holding
  <2>2. CASE LoggedIn(c)
    <3>1. CASE Hook(r) \/ Revoke(r)
      BY <2>2, <3>1, HookStep, RevokeStep, TokenOps DEF Same, Holding, LoggedIn
    <3>2. CASE ~Hook(r) /\ ~Revoke(r)
      BY <2>1, <2>2, <3>2 DEF LoggedIn, Serve, Lookup, Gate, Evict, Touch, Rotate, List,
         RevokeAll, Validate, Verify, Clear, ReadUser, WriteStatus, Anonymize
    <3>3. QED BY <3>1, <3>2
  <2>3. QED BY <2>1, <2>2
<1>2. Claims(c) /\ d.s = c.s
  BY <1>0, <1>1, ServeClaims
<1>3. c.at \notin {"idle", "lookup", "refused"}
  BY DEF Serve, Lookup, Gate, Evict, Touch, Rotate, List, Revoke, RevokeAll, Validate,
         Insert, Factors, Pend, Verify, Clear, Hook, ReadUser, WriteStatus, Anonymize
<1>4. QED BY <1>1, <1>2, <1>3 DEF Claims, Holding

\* A step that moves one handler changes what was admitted for that one only.
LEMMA AdmittedMoves ==
  ASSUME NEW r \in Requests, \A q \in Requests \ {r} : call'[q] = call[q]
  PROVE  admittedOf' = [admittedOf EXCEPT ![r] = IF Holding(call'[r]) THEN call'[r].s
                                                                      ELSE NoSession]
<1>1. \A q \in Requests : admittedOf[q] = IF Holding(call[q]) THEN call[q].s ELSE NoSession
  BY DEF admittedOf, Holding
<1>2. \A q \in Requests : admittedOf'[q] = IF Holding(call'[q]) THEN call'[q].s ELSE NoSession
  BY DEF admittedOf, Holding
<1>3. QED BY <1>1, <1>2 DEF admittedOf

\* A statement is a step of SessionLife, or none.
LEMMA ServeLife ==
  ASSUME IInv, IInv', Ties, NoRotation, NEW r \in Requests, Serve(r)
  PROVE  [Life!Next]_(Life!vars)
<1> DEFINE c == call[r]
           d == call'[r]
<1>0. /\ c \in Call /\ Flowing(c) /\ ~Rotate(r)
      /\ \A q \in Requests \ {r} : call'[q] = call[q]
  BY CallKnown, ServeOthers DEF NoRotation, Rotate
<1>1. \A q \in Requests : admittedOf[q] = IF Holding(call[q]) THEN call[q].s ELSE NoSession
  BY DEF admittedOf, Holding
<1>2. admittedOf' = [admittedOf EXCEPT ![r] = IF Holding(d) THEN d.s ELSE NoSession]
  BY <1>0, AdmittedMoves
<1>3. CASE Lookup(r)
  <2>1. lifeOf' = lifeOf
    BY <1>3 DEF Lookup, lifeOf, Live
  <2>2. admittedOf[r] = NoSession
    BY <1>1, <1>3 DEF Lookup, Holding
  <2>3. CASE d.at = "gate"
    <3>1. d.s \in SessionIds /\ lifeOf[d.s] = "open" /\ d.op = c.op
      BY <1>3, <2>3, LookupStep DEF Matches, Live, lifeOf
    <3>2. Holding(d)
      BY <1>0, <1>3, <2>3, <3>1 DEF Holding, Flowing, PointsOf, Lookup, ByAdmin, Call,
         GatePoints, ByToken
    <3>3. Life!Admit(r, d.s)
      BY <1>2, <2>1, <2>2, <3>1, <3>2 DEF Life!Admit
    <3>4. QED BY <3>1, <3>3 DEF Life!Next
  <2>4. CASE d.at = "refused"
    <3>1. ~Holding(d)
      BY <2>4 DEF Holding
    <3>2. admittedOf' = admittedOf
      BY <1>2, <2>2, <3>1 DEF admittedOf
    <3>3. QED BY <2>1, <3>2 DEF Life!vars
  <2>5. QED BY <1>3, <2>3, <2>4, LookupStep
<1>4. CASE Insert(r)
  <2>1. ~Holding(c) /\ ~Holding(d)
    BY <1>4, LoginStep, TokenOps DEF Same, Holding
  <2>2. admittedOf' = admittedOf
    BY <1>1, <1>2, <2>1 DEF admittedOf
  <2>3. c.s \in SessionIds /\ lifeOf[c.s] = "unborn" /\ lifeOf'[c.s] = "open"
    <3>1. now' = now
      BY <1>4 DEF Insert
    <3>2. QED BY <1>4, <3>1, InsertRow, UserAssumption DEF lifeOf, Live
  <2>4. \A s \in SessionIds \ {c.s} : lifeOf'[s] = lifeOf[s]
    BY <1>4, InsertRow DEF lifeOf, Live, Insert
  <2>5. lifeOf' = [lifeOf EXCEPT ![c.s] = "open"]
    BY <2>3, <2>4 DEF lifeOf
  <2>6. Life!Begin(c.s)
    BY <2>2, <2>3, <2>5 DEF Life!Begin
  <2>7. QED BY <2>3, <2>6 DEF Life!Next
<1>5. CASE ~Lookup(r) /\ ~Insert(r)
  <2>1. /\ lifeOf' = [s \in SessionIds |-> IF s \in Ended THEN "over" ELSE lifeOf[s]]
        /\ Ended \in SUBSET SessionIds /\ \A s \in Ended : lifeOf[s] = "open"
    <3>1. Mild /\ now' = now /\ now \in Nat
      BY <1>0, <1>5, ServeMild DEF IInv, TypeOK
    <3>2. QED BY <3>1, MildEnds
  <2>2. CASE Holding(c) /\ ~Holding(d)
    <3>1. admittedOf[r] # NoSession
      BY <1>0, <1>1, <2>2, HoldingKnows, SessionAssumption DEF Known
    <3>2. Life!Expel(r, Ended)
      BY <1>2, <2>1, <2>2, <3>1 DEF Life!Expel
    <3>3. QED BY <2>1, <3>2 DEF Life!Next
  <2>3. CASE (Holding(c) <=> Holding(d)) /\ (Holding(d) => d.s = c.s)
    <3>1. admittedOf' = admittedOf
      BY <1>1, <1>2, <2>3 DEF admittedOf
    <3>2. Life!End(Ended)
      BY <2>1, <3>1 DEF Life!End
    <3>3. QED BY <2>1, <3>2 DEF Life!Next
  <2>4. QED BY <1>5, <2>2, <2>3, HeldBefore
<1>6. QED BY <1>3, <1>4, <1>5

\* The session life cycle: without rotation the sessions table, its gate and its
\* handlers implement SessionLife, whatever revocations are lost and hooks fail: a
\* session is opened once and ends once, and every request that is answered as signed
\* in was admitted by a session open at that moment.
THEOREM LifeIsKept ==
  ASSUME RotateInterval = 0
  PROVE  Spec => ImplementsLife
<1>1. Init => NoRotation
  BY DEF Init, Idle, NoRotation
<1>2. IInv /\ NoRotation /\ [Next]_vars => NoRotation'
  BY RotationOff
<1>3. Init => Life!Init
  BY DEF Init, Blank, Idle, Life!Init, lifeOf, admittedOf
<1>4. IInv /\ IInv' /\ Ties /\ NoRotation /\ [Next]_vars => [Life!Next]_(Life!vars)
  <2> SUFFICES ASSUME IInv, IInv', Ties, NoRotation, [Next]_vars
               PROVE  [Life!Next]_(Life!vars)
    OBVIOUS
  <2>1. CASE UNCHANGED <<now, row, call>>
    BY <2>1 DEF Life!vars, lifeOf, admittedOf, Live
  <2>2. CASE UNCHANGED vars
    BY <2>1, <2>2 DEF vars
  <2>3. CASE \E u \in Users, status \in Statuses : HostSetStatus(u, status)
    BY <2>1, <2>3 DEF HostSetStatus
  <2>4. CASE Tick
    <3>1. Mild /\ now <= now' /\ call' = call
      BY <2>4 DEF Tick, Mild, IInv, TypeOK
    <3>2. admittedOf' = admittedOf
      BY <3>1 DEF admittedOf
    <3>3. Life!End(Ended) /\ Ended \in SUBSET SessionIds
      BY <3>1, <3>2, MildEnds DEF Life!End
    <3>4. QED BY <3>3 DEF Life!Next
  <2>5. ASSUME NEW r \in Requests, Arrive(r) PROVE UNCHANGED Life!vars
    <3>1. lifeOf' = lifeOf
      BY <2>5, ArrivesAt DEF lifeOf, Live
    <3>2. call[r].at = "idle"
      BY <2>5 DEF Arrive, Present, Login, Administer
    <3>3. call'[r].at = "lookup" \/ call'[r].op = "login" \/ call'[r].op \in ByAdmin
      BY <2>5, ArrivesAt
    <3>4. \A q \in Requests \ {r} : call'[q] = call[q]
      BY <2>5, ArrivesAt
    <3>5. admittedOf' = admittedOf
      BY <3>2, <3>3, <3>4, TokenOps DEF admittedOf
    <3>6. QED BY <3>1, <3>5 DEF Life!vars
  <2>6. ASSUME NEW r \in Requests, Receive(r) PROVE [Life!Next]_(Life!vars)
    <3>1. lifeOf' = lifeOf
      BY <2>6 DEF Receive, lifeOf, Live
    <3>2. call'[r] = Idle /\ \A q \in Requests \ {r} : call'[q] = call[q]
      BY <2>6, BecomeIs DEF Receive
    <3>3. admittedOf' = [admittedOf EXCEPT ![r] = NoSession]
      BY <3>2, AdmittedMoves DEF Idle, Holding
    <3>4. CASE admittedOf[r] = NoSession
      <4>1. admittedOf' = admittedOf
        BY <3>3, <3>4 DEF admittedOf
      <4>2. QED BY <3>1, <4>1 DEF Life!vars
    <3>5. CASE admittedOf[r] # NoSession
      <4>1. Life!Leave(r)
        BY <3>1, <3>3, <3>5 DEF Life!Leave
      <4>2. QED BY <4>1 DEF Life!Next
    <3>6. QED BY <3>4, <3>5
  <2>7. QED BY <2>2, <2>3, <2>4, <2>5, <2>6, ServeLife DEF Next
<1>5. QED BY <1>1, <1>2, <1>3, <1>4, TiesInit, TiesNext, InitTyped, NextTyped, PTL
         DEF Spec, ImplementsLife, Life!Spec
=============================================================================
