--------------------------- MODULE SessionsProofs ---------------------------
(***************************************************************************)
(* Proofs about Sessions, for every value of its constants.                *)
(***************************************************************************)
EXTENDS Sessions, TLAPS

-----------------------------------------------------------------------------
\* The records a handler moves through are calls.

\* The record of an unused row and the record of an idle slot have their types.
LEMMA BlankType == Blank \in Row
  BY BoundAssumption DEF Blank, Row, Tokens

LEMMA IdleType == Idle \in Call
  BY BlankType, BoundAssumption DEF Idle, Call, Points, Tokens

\* The answers of a handler leave a call a call.
LEMMA OkType == ASSUME NEW c \in Call PROVE Ok(c) \in Call
  BY BlankType DEF Ok, Call, Points

LEMMA RefusalType == ASSUME NEW c \in Call PROVE Refusal(c) \in Call
<1>1. \A o \in Tokens :
        [c EXCEPT !.at = "refused", !.snap = Blank, !.out = o] \in Call
  BY BlankType DEF Call, Points
<1>2. 0 \in Tokens /\ c.out \in Tokens
  BY BoundAssumption DEF Call, Tokens
<1>3. CASE c.op = "login"
  BY <1>1, <1>2, <1>3 DEF Refusal
<1>4. CASE c.op # "login"
  BY <1>1, <1>2, <1>4 DEF Refusal
<1>5. QED BY <1>3, <1>4

\* What a handler does once its session is accepted leaves a call a call.
LEMMA WorkType == ASSUME NEW c \in Call PROVE Work(c) \in Call
<1>1. CASE c.op = "full"
  BY <1>1 DEF Work, Call, Points
<1>2. CASE c.op = "revokeOther"
  BY <1>2 DEF Work, Call, Points
<1>3. CASE c.op = "delete"
  BY <1>3 DEF Work, Call, Points
<1>4. CASE c.op \notin {"full", "revokeOther", "delete"}
  BY <1>4, OkType DEF Work
<1>5. QED BY <1>1, <1>2, <1>3, <1>4

\* So does the admission, whose fresh token RotateDue keeps within MaxToken.
LEMMA AdmittedType ==
  ASSUME NEW c \in Call, lastToken \in Tokens PROVE Admitted(c) \in Call
<1>1. CASE c.op \in {"logout", "logoutAll"}
  BY <1>1 DEF Admitted, Call, Points
<1>2. CASE c.op \in {"again", "direct"}
  BY <1>2, OkType DEF Admitted
<1>3. CASE c.op = "challenge"
  BY <1>3, RefusalType DEF Admitted, Call, Points
<1>4. CASE c.op \notin {"logout", "logoutAll", "again", "direct", "challenge"}
  <2>1. RotateDue(c.snap) => lastToken + 1 \in Tokens
    BY BoundAssumption DEF RotateDue, Tokens
  <2>2. RotateDue(c.snap) => [c EXCEPT !.at = "rotate", !.out = lastToken + 1] \in Call
    BY <2>1 DEF Call, Points
  <2>3. Admitted(c) = IF Pending(c) THEN Refusal(c)
                      ELSE IF RotateDue(c.snap)
                           THEN [c EXCEPT !.at = "rotate", !.out = lastToken + 1]
                           ELSE Work(c)
    BY <1>4 DEF Admitted
  <2>4. QED BY <2>2, <2>3, RefusalType, WorkType
<1>5. QED BY <1>1, <1>2, <1>3, <1>4

\* A refused handler is at the end of its operation.
LEMMA RefusalFlow ==
  ASSUME NEW c \in Call, Flowing(c), c.op # "none"
  PROVE  Flowing(Refusal(c))
<1>1. Refusal(c).at = "refused" /\ Refusal(c).op = c.op /\ Refusal(c).who = c.who
        /\ Refusal(c).target = c.target
  BY DEF Refusal, Call
<1>2. "refused" \in PointsOf(c.op)
  BY DEF Flowing, PointsOf, GatePoints
<1>3. QED BY <1>1, <1>2 DEF Flowing

LEMMA OkFlow ==
  ASSUME NEW c \in Call, Flowing(c), Known(c), "ok" \in PointsOf(c.op)
  PROVE  Flowing(Ok(c))
<1>1. Ok(c).at = "ok" /\ Ok(c).op = c.op /\ Ok(c).who = c.who
        /\ Ok(c).target = c.target /\ Ok(c).s = c.s
  BY DEF Ok, Call
<1>2. QED BY <1>1 DEF Flowing, Known

\* What requireSession hands on is at a point of its operation.
LEMMA WorkFlow ==
  ASSUME NEW c \in Call, Flowing(c), Known(c), c.op \in Gated
  PROVE  Flowing(Work(c))
<1>1. CASE c.op = "full"
  <2>1. Work(c).at = "lookup" /\ Work(c).op = "again"
    BY <1>1 DEF Work, Call
  <2>2. QED BY <2>1 DEF Flowing, PointsOf, GatePoints, ByAdmin
<1>2. CASE c.op = "revokeOther"
  <2>1. /\ Work(c).at = "list" /\ Work(c).op = c.op /\ Work(c).s = c.s
        /\ Work(c).who = c.who /\ Work(c).target = c.target
    BY <1>2 DEF Work, Call
  <2>2. QED BY <1>2, <2>1 DEF Flowing, PointsOf, GatePoints, ByAdmin, Known
<1>3. CASE c.op = "delete"
  <2>1. /\ Work(c).at = "hook" /\ Work(c).op = c.op /\ Work(c).s = c.s
        /\ Work(c).who = c.who
    BY <1>3 DEF Work, Call
  <2>2. QED BY <1>3, <2>1 DEF Flowing, PointsOf, GatePoints, ByAdmin, Known
<1>4. CASE c.op = "request"
  BY <1>4, OkFlow DEF Work, PointsOf, ByAdmin
<1>5. QED BY <1>1, <1>2, <1>3, <1>4 DEF Gated

\* Past the lookup, an operation that presented a token knows its session.
LEMMA GatedKnows ==
  ASSUME NEW c \in Call, Flowing(c), c.at \in {"gate", "evict", "touch"}
  PROVE  Known(c) /\ c.op \in ByToken \cup {"again"}
<1>1. c.op \in ByToken \cup {"again"}
  BY DEF Flowing, PointsOf, GatePoints, ByAdmin, ByToken, Gated, Call
<1>2. c.op \notin ByAdmin
  BY <1>1 DEF ByAdmin, ByToken, Gated
<1>3. QED BY <1>1, <1>2 DEF Flowing

LEMMA AdmittedFlow ==
  ASSUME NEW c \in Call, Flowing(c), c.at = "touch"
  PROVE  Flowing(Admitted(c))
<1> Known(c) /\ c.op \in ByToken \cup {"again"}
  BY GatedKnows
<1>1. CASE c.op = "logout"
  <2>1. Admitted(c).at = "revoke" /\ Admitted(c).op = c.op /\ Admitted(c).s = c.s
        /\ Admitted(c).who = c.who
    BY <1>1 DEF Admitted, Call
  <2>2. QED BY <1>1, <2>1 DEF Flowing, PointsOf, ByAdmin, Known
<1>2. CASE c.op = "logoutAll"
  <2>1. Admitted(c).at = "revokeAll" /\ Admitted(c).op = c.op /\ Admitted(c).s = c.s
        /\ Admitted(c).who = c.who
    BY <1>2 DEF Admitted, Call
  <2>2. QED BY <1>2, <2>1 DEF Flowing, PointsOf, ByAdmin, Known
<1>3. CASE c.op \in {"again", "direct"}
  BY <1>3, OkFlow DEF Admitted, PointsOf, ByAdmin
<1>4. CASE c.op = "challenge"
  <2>1. CASE Pending(c)
    <3>1. Admitted(c).at = "verify" /\ Admitted(c).op = c.op /\ Admitted(c).s = c.s
          /\ Admitted(c).who = c.who
      BY <1>4, <2>1 DEF Admitted, Call
    <3>2. QED BY <1>4, <3>1 DEF Flowing, PointsOf, ByAdmin, Known
  <2>2. CASE ~Pending(c)
    BY <1>4, <2>2, RefusalFlow DEF Admitted
  <2>3. QED BY <2>1, <2>2
<1>5. CASE c.op \in Gated
  <2>1. Admitted(c) = IF Pending(c) THEN Refusal(c)
                      ELSE IF RotateDue(c.snap)
                           THEN [c EXCEPT !.at = "rotate", !.out = lastToken + 1]
                           ELSE Work(c)
    BY <1>5 DEF Admitted, Gated
  <2>2. CASE Pending(c)
    BY <1>5, <2>1, <2>2, RefusalFlow DEF Gated
  <2>3. CASE ~Pending(c) /\ RotateDue(c.snap)
    <3>1. /\ Admitted(c).at = "rotate" /\ Admitted(c).op = c.op
          /\ Admitted(c).s = c.s /\ Admitted(c).who = c.who
          /\ Admitted(c).target = c.target
      BY <2>1, <2>3 DEF Call
    <3>2. "rotate" \in PointsOf(c.op)
      BY <1>5 DEF PointsOf, Gated, ByAdmin
    <3>3. QED BY <1>5, <3>1, <3>2 DEF Flowing, Known, Gated, ByAdmin
  <2>4. CASE ~Pending(c) /\ ~RotateDue(c.snap)
    BY <1>5, <2>1, <2>4, WorkFlow
  <2>5. QED BY <2>2, <2>3, <2>4
<1>6. QED BY <1>1, <1>2, <1>3, <1>4, <1>5 DEF ByToken

\* A step that leaves one handler in a well-typed state at a point of its
\* operation keeps every handler so.
LEMMA BecomeOK ==
  ASSUME call \in [Requests -> Call], FlowOK,
         NEW r \in Requests, NEW c \in Call, Flowing(c), Become(r, c)
  PROVE  call' \in [Requests -> Call] /\ FlowOK'
  BY DEF Become, FlowOK

-----------------------------------------------------------------------------
\* Type correctness.

IInv == TypeOK /\ FlowOK

\* What UpdateStatus writes has its type.
LEMMA UpdateStatusType ==
  ASSUME TypeOK, NEW u \in Users \cup {NoUser}, NEW status \in AccountStates,
         UpdateStatus(u, status)
  PROVE  account' \in [Users -> AccountStates] /\ arrival' \in [Requests -> Arrival]
<1>1. account' \in [Users -> AccountStates]
  BY DEF TypeOK, UpdateStatus
<1>2. \A a \in Arrival : [a EXCEPT !.locked = @ \ {u}] \in Arrival
  BY DEF Arrival
<1>3. arrival' \in [Requests -> Arrival]
  BY <1>2 DEF TypeOK, UpdateStatus
<1>4. QED BY <1>1, <1>3

\* What RevokeRow writes has its type.
LEMMA RevokeRowType ==
  ASSUME TypeOK, NEW s \in SessionIds, RevokeRow(s)
  PROVE  row' \in [SessionIds -> Row]
<1>1. \A x \in Row : [x EXCEPT !.revoked = TRUE] \in Row
  BY DEF Row
<1>2. row' = row \/ row' = [row EXCEPT ![s].revoked = TRUE]
  BY DEF RevokeRow
<1>3. QED BY <1>1, <1>2 DEF TypeOK

\* The record of an arriving call has its type.
LEMMA ArrivedType ==
  ASSUME TypeOK, NEW r \in Requests, NEW token \in Tokens, Arrived(r, token)
  PROVE  arrival' \in [Requests -> Arrival]
  BY DEF TypeOK, Arrived, Arrival

LEMMA InitTyped == Init => IInv
<1> SUFFICES ASSUME Init PROVE IInv
  OBVIOUS
<1>1. TypeOK
  BY BlankType, IdleType, BoundAssumption
     DEF Init, TypeOK, AccountStates, Statuses, Tokens, NoArrival, Arrival
<1>2. \A r \in Requests : Flowing(call[r])
  BY DEF Init, Idle, Flowing, PointsOf, ByAdmin
<1>3. QED BY <1>1, <1>2 DEF IInv, FlowOK

\* Callers: what arrives is a call at the first point of its operation.
LEMMA ArriveTyped ==
  ASSUME IInv, NEW r \in Requests, Arrive(r)
  PROVE  IInv'
<1> USE DEF IInv
<1>1. ASSUME NEW op \in ByToken, NEW t \in Tokens, NEW s \in SessionIds \cup {NoSession},
             op = "revokeOther" => s \in SessionIds, Present(r, op, t, s)
      PROVE  IInv'
  <2> DEFINE c == [Idle EXCEPT !.at = "lookup", !.op = op, !.token = t, !.target = s]
  <2>1. c \in Call
    BY <1>1, IdleType DEF Call, Points
  <2>2. Flowing(c)
    BY <1>1 DEF Idle, Flowing, PointsOf, GatePoints, ByAdmin, ByToken, Gated
  <2>3. Become(r, c) /\ Arrived(r, t)
    BY <1>1 DEF Present
  <2>4. call' \in [Requests -> Call] /\ FlowOK'
    BY <2>1, <2>2, <2>3, BecomeOK DEF TypeOK
  <2>5. arrival' \in [Requests -> Arrival]
    BY <2>3, ArrivedType
  <2>6. QED BY <1>1, <2>4, <2>5 DEF Present, TypeOK, hvars
<1>2. ASSUME NEW u \in Users, NEW remember \in BOOLEAN, Login(r, u, remember)
      PROVE  IInv'
  <2> DEFINE c == [Idle EXCEPT !.at = "validate", !.op = "login", !.who = u,
                               !.remember = remember]
  <2>1. c \in Call
    BY <1>2, IdleType DEF Call, Points
  <2>2. Flowing(c)
    BY <1>2 DEF Idle, Flowing, PointsOf, ByAdmin
  <2>3. Become(r, c) /\ Arrived(r, 0)
    BY <1>2 DEF Login
  <2>4. call' \in [Requests -> Call] /\ FlowOK'
    BY <2>1, <2>2, <2>3, BecomeOK DEF TypeOK
  <2>5. arrival' \in [Requests -> Arrival]
    BY <2>3, ArrivedType, BoundAssumption DEF Tokens
  <2>6. QED BY <1>2, <2>4, <2>5 DEF Login, TypeOK, hvars
<1>3. ASSUME NEW op \in ByAdmin, NEW u \in Users, Administer(r, op, u)
      PROVE  IInv'
  <2> DEFINE c == [Idle EXCEPT !.at = "read", !.op = op, !.who = u]
  <2>1. c \in Call
    BY <1>3, IdleType DEF Call, Points
  <2>2. Flowing(c)
    BY <1>3 DEF Idle, Flowing, PointsOf, ByAdmin
  <2>3. Become(r, c) /\ Arrived(r, 0)
    BY <1>3 DEF Administer
  <2>4. call' \in [Requests -> Call] /\ FlowOK'
    BY <2>1, <2>2, <2>3, BecomeOK DEF TypeOK
  <2>5. arrival' \in [Requests -> Arrival]
    BY <2>3, ArrivedType, BoundAssumption DEF Tokens
  <2>6. QED BY <1>3, <2>4, <2>5 DEF Administer, TypeOK, hvars
<1> HIDE DEF IInv
<1>4. QED BY <1>1, <1>2, <1>3 DEF Arrive, ByToken, Gated

\* The answer's arrival frees the slot.
LEMMA ReceiveTyped ==
  ASSUME IInv, NEW r \in Requests, Receive(r)
  PROVE  IInv'
<1> USE DEF IInv
<1>1. call' \in [Requests -> Call] /\ FlowOK'
  <2>1. Flowing(Idle)
    BY DEF Idle, Flowing, PointsOf, ByAdmin
  <2>2. QED BY <2>1, IdleType, BecomeOK DEF TypeOK, Receive
<1>2. arrival' \in [Requests -> Arrival]
  BY DEF TypeOK, Receive, Arrival, NoArrival
<1>3. told' \subseteq SessionIds
  <2>1. call[r] \in Call /\ Flowing(call[r]) /\ arrival[r] \in Arrival
    BY DEF TypeOK, FlowOK
  <2>2. Promised(r) \subseteq SessionIds
    BY <2>1 DEF Promised, SessionsOf, Flowing, Arrival
  <2>3. QED BY <2>2 DEF TypeOK, Receive
<1>4. jar' \in [Clients -> Tokens] /\ kept' \in [Clients -> SUBSET Tokens]
  <2>1. call[r].out \in Tokens /\ 0 \in Tokens /\ Owner[r] \in Clients
    BY OwnerAssumption, BoundAssumption DEF TypeOK, Call, Tokens
  <2>2. QED BY <2>1 DEF TypeOK, Receive
<1>5. QED BY <1>1, <1>2, <1>3, <1>4 DEF Receive, TypeOK

-----------------------------------------------------------------------------
\* The gate.

\* A step that changes only call, from one good record to another.
LEMMA CallOnly ==
  ASSUME IInv, NEW r \in Requests, NEW c \in Call, Flowing(c), Become(r, c),
         UNCHANGED <<now, account, erased, row, lastToken, kept, jar, hvars, arrival>>
  PROVE  IInv'
<1>1. call' \in [Requests -> Call] /\ FlowOK'
  BY BecomeOK DEF IInv, TypeOK
<1>2. QED BY <1>1 DEF IInv, TypeOK, hvars

\* A step that changes call and a row.
LEMMA CallAndRow ==
  ASSUME IInv, NEW r \in Requests, NEW c \in Call, Flowing(c), Become(r, c),
         row' \in [SessionIds -> Row],
         UNCHANGED <<now, account, erased, lastToken, kept, jar, hvars, arrival>>
  PROVE  IInv'
<1>1. call' \in [Requests -> Call] /\ FlowOK'
  BY BecomeOK DEF IInv, TypeOK
<1>2. QED BY <1>1 DEF IInv, TypeOK, hvars

\* What is known of the handler in a slot.
LEMMA CallKnown ==
  ASSUME IInv, NEW r \in Requests
  PROVE  call[r] \in Call /\ Flowing(call[r])
  BY DEF IInv, TypeOK, FlowOK

LEMMA LookupTyped ==
  ASSUME IInv, NEW r \in Requests, Lookup(r)
  PROVE  IInv'
<1> DEFINE d == call[r]
<1>0. d \in Call /\ Flowing(d) /\ d.at = "lookup"
  BY CallKnown DEF Lookup
<1>1. d.op \in ByToken \cup {"again"}
  BY <1>0 DEF Flowing, PointsOf, ByAdmin, ByToken, Gated, Call
<1>2. ASSUME NEW s \in SessionIds, Matches(s, d.token),
             Become(r, [d EXCEPT !.at = "gate", !.s = s, !.who = row[s].user, !.snap = row[s]])
      PROVE  IInv'
  <2> DEFINE c == [d EXCEPT !.at = "gate", !.s = s, !.who = row[s].user, !.snap = row[s]]
  <2>1. row[s] \in Row /\ row[s].user \in Users
    BY <1>2 DEF IInv, TypeOK, Matches, Live, Row
  <2>2. c \in Call
    BY <1>0, <2>1 DEF Call, Points
  <2>3. c.at = "gate" /\ c.op = d.op /\ c.s = s /\ c.who = row[s].user /\ c.target = d.target
    BY <1>0 DEF Call
  <2>4. "gate" \in PointsOf(c.op)
    BY <1>1, <2>3 DEF PointsOf, GatePoints, ByToken, Gated, ByAdmin
  <2>5. Flowing(c)
    BY <1>0, <1>1, <2>1, <2>3, <2>4 DEF Flowing, Known
  <2>6. QED BY <1>2, <2>2, <2>5, CallOnly DEF Lookup
<1>3. ASSUME Become(r, Refusal(d)) PROVE IInv'
  <2>1. Flowing(Refusal(d)) /\ Refusal(d) \in Call
    BY <1>0, <1>1, RefusalFlow, RefusalType DEF ByToken, Gated
  <2>2. QED BY <1>3, <2>1, CallOnly DEF Lookup
<1>4. QED BY <1>2, <1>3 DEF Lookup

LEMMA GateTyped ==
  ASSUME IInv, NEW r \in Requests, Gate(r)
  PROVE  IInv'
<1> DEFINE d == call[r]
<1>0. d \in Call /\ Flowing(d) /\ d.at = "gate"
  BY CallKnown DEF Gate
<1>1. Known(d) /\ d.op \in ByToken \cup {"again"}
  BY <1>0, GatedKnows
<1>2. ASSUME NEW point \in {"evict", "touch"}, Goto(r, point) PROVE IInv'
  <2> DEFINE c == [d EXCEPT !.at = point]
  <2>1. c \in Call /\ c.at = point /\ c.op = d.op /\ c.s = d.s /\ c.who = d.who
          /\ c.target = d.target
    BY <1>0 DEF Call, Points
  <2>2. point \in PointsOf(c.op)
    BY <1>1, <2>1 DEF PointsOf, GatePoints, ByToken, Gated, ByAdmin
  <2>3. Flowing(c)
    BY <1>0, <1>1, <2>1, <2>2 DEF Flowing, Known
  <2>4. QED BY <1>2, <2>1, <2>3, CallOnly DEF Gate, Goto
<1>3. QED BY <1>2 DEF Gate

\* Moving a handler to another point of its operation.
LEMMA MoveOK ==
  ASSUME NEW c \in Call, Flowing(c), Known(c) \/ c.op \in ByAdmin,
         NEW p \in Points, p \in PointsOf(c.op)
  PROVE  [c EXCEPT !.at = p] \in Call /\ Flowing([c EXCEPT !.at = p])
<1> DEFINE d == [c EXCEPT !.at = p]
<1>1. d \in Call /\ d.at = p /\ d.op = c.op /\ d.s = c.s /\ d.who = c.who
        /\ d.target = c.target
  BY DEF Call
<1>2. QED BY <1>1 DEF Flowing, Known

\* At these points an operation is one of those, and knows its session.
LEMMA PointKnows ==
  ASSUME NEW c \in Call, Flowing(c)
  PROVE  /\ c.at \in {"insert", "factors", "pend"} => c.op = "login" /\ Known(c)
         /\ c.at \in {"verify", "clear"} => c.op = "challenge" /\ Known(c)
         /\ c.at = "hook" => c.op \in {"login", "challenge", "delete"} /\ Known(c)
         /\ c.at = "rotate" => c.op \in Gated /\ Known(c)
         /\ c.at = "list" => c.op = "revokeOther" /\ Known(c)
         /\ c.at = "revoke" =>
                c.op \in {"login", "logout", "challenge", "revokeOther"} /\ Known(c)
         /\ c.at = "revokeAll" =>
                \/ c.op \in {"logoutAll", "delete"} /\ Known(c)
                \/ c.op = "lock" \/ c.op = "unlock"
         /\ c.at = "anonymize" => c.op = "delete" /\ Known(c)
         /\ c.at \in {"read", "write"} => c.op \in ByAdmin
         /\ c.at = "validate" => c.op = "login"
  BY DEF Flowing, PointsOf, GatePoints, ByAdmin, Gated, Call, ByToken

LEMMA EvictTyped ==
  ASSUME IInv, NEW r \in Requests, Evict(r)
  PROVE  IInv'
<1>0. call[r] \in Call /\ Flowing(call[r]) /\ call[r].at = "evict"
  BY CallKnown DEF Evict
<1>1. Known(call[r]) /\ call[r].op \in ByToken \cup {"again"}
  BY <1>0, GatedKnows
<1>2. row' \in [SessionIds -> Row]
  BY <1>1, RevokeRowType DEF Evict, Known, IInv
<1>3. Refusal(call[r]) \in Call /\ Flowing(Refusal(call[r]))
  BY <1>0, <1>1, RefusalType, RefusalFlow DEF ByToken, Gated
<1>4. QED BY <1>2, <1>3, CallAndRow DEF Evict

\* A change of last_active_at, mfa_pending, token and expiry, or of a whole row.
LEMMA RowWrites ==
  ASSUME IInv, NEW s \in SessionIds
  PROVE  /\ [row EXCEPT ![s].active = now] \in [SessionIds -> Row]
         /\ \A b \in BOOLEAN : [row EXCEPT ![s].mfaPending = b] \in [SessionIds -> Row]
         /\ \A x \in Row : [row EXCEPT ![s] = x] \in [SessionIds -> Row]
<1>1. row \in [SessionIds -> Row] /\ now \in Nat
  BY DEF IInv, TypeOK
<1>2. \A x \in Row : [x EXCEPT !.active = now] \in Row
  BY <1>1 DEF Row
<1>3. \A x \in Row, b \in BOOLEAN : [x EXCEPT !.mfaPending = b] \in Row
  BY DEF Row
<1>4. QED BY <1>1, <1>2, <1>3

LEMMA TouchTyped ==
  ASSUME IInv, NEW r \in Requests, Touch(r)
  PROVE  IInv'
<1> DEFINE c == Admitted(call[r])
<1>0. call[r] \in Call /\ Flowing(call[r]) /\ call[r].at = "touch"
  BY CallKnown DEF Touch
<1>1. c \in Call /\ Flowing(c)
  BY <1>0, AdmittedType, AdmittedFlow DEF IInv, TypeOK
<1>2. row' \in [SessionIds -> Row]
  BY <1>0, GatedKnows, RowWrites DEF Touch, Known, IInv, TypeOK
<1>3. call' \in [Requests -> Call] /\ FlowOK'
  BY <1>1, BecomeOK DEF Touch, IInv, TypeOK
<1>4. lastToken' \in Tokens
  BY <1>1 DEF Touch, IInv, TypeOK, Call
<1>5. QED BY <1>2, <1>3, <1>4 DEF Touch, IInv, TypeOK, hvars

\* A rotation that failed leaves the call as it was, without a fresh token.
Silent(c) == [c EXCEPT !.out = 0]

LEMMA SilentCall ==
  ASSUME NEW c \in Call
  PROVE  /\ Silent(c) \in Call /\ Silent(c).at = c.at /\ Silent(c).op = c.op
         /\ Silent(c).who = c.who /\ Silent(c).s = c.s /\ Silent(c).target = c.target
         /\ Silent(c).token = c.token /\ Silent(c).snap = c.snap /\ Silent(c).out = 0
         /\ Silent(c).remember = c.remember
BY BoundAssumption DEF Silent, Call, Tokens

LEMMA RotateTyped ==
  ASSUME IInv, NEW r \in Requests, Rotate(r)
  PROVE  IInv'
<1> DEFINE c == call[r]
<1>0. c \in Call /\ Flowing(c) /\ c.at = "rotate"
  BY CallKnown DEF Rotate
<1>1. c.op \in Gated /\ Known(c)
  BY <1>0, PointKnows
<1>2. row' \in [SessionIds -> Row]
  <2>1. row \in [SessionIds -> Row] /\ now \in Nat /\ c.s \in SessionIds
          /\ c.out \in Tokens /\ now + TTL \in Nat
    BY <1>0, <1>1, ConfigAssumption DEF IInv, TypeOK, Known, Call
  <2>2. \A x \in Row : [x EXCEPT !.token = c.out, !.expires = now + TTL, !.active = now] \in Row
    BY <2>1 DEF Row
  <2>3. Rotated(c) \in [SessionIds -> Row] BY <2>1, <2>2 DEF Rotated
  <2>4. QED BY <2>1, <2>3 DEF Rotate
<1>3. \A e \in {c, Silent(c)} : Work(e) \in Call /\ Flowing(Work(e))
  <2>1. \A e \in {c, Silent(c)} : e \in Call /\ Flowing(e) /\ Known(e) /\ e.op \in Gated
    BY <1>0, <1>1, SilentCall DEF Flowing, Known
  <2>2. QED BY <2>1, WorkType, WorkFlow
<1>4. PICK e \in {c, Silent(c)} : Become(r, Work(e))
  BY DEF Rotate, Silent
<1>5. QED BY <1>2, <1>3, <1>4, CallAndRow DEF Rotate

-----------------------------------------------------------------------------
\* Ending sessions.

LEMMA ListTyped ==
  ASSUME IInv, NEW r \in Requests, List(r)
  PROVE  IInv'
<1> DEFINE c == call[r]
<1>0. c \in Call /\ Flowing(c) /\ c.op = "revokeOther" /\ Known(c)
  BY CallKnown, PointKnows DEF List
<1>1. CASE Goto(r, "revoke")
  <2>1. [c EXCEPT !.at = "revoke"] \in Call /\ Flowing([c EXCEPT !.at = "revoke"])
    BY <1>0, MoveOK DEF Points, PointsOf, ByAdmin
  <2>2. QED BY <1>1, <2>1, CallOnly DEF List, Goto
<1>2. CASE Become(r, Refusal(c))
  BY <1>0, <1>2, RefusalType, RefusalFlow, CallOnly DEF List
<1>3. QED BY <1>1, <1>2 DEF List

LEMMA RevokeTyped ==
  ASSUME IInv, NEW r \in Requests, Revoke(r)
  PROVE  IInv'
<1> DEFINE c == call[r]
<1>0. /\ c \in Call /\ Flowing(c) /\ Known(c)
      /\ c.op \in {"login", "logout", "challenge", "revokeOther"}
  BY CallKnown, PointKnows DEF Revoke
<1>1. row' \in [SessionIds -> Row]
  <2>1. (IF c.op = "revokeOther" THEN c.target ELSE c.s) \in SessionIds
    BY <1>0 DEF Flowing, Known
  <2>2. QED BY <2>1, RevokeRowType DEF Revoke, IInv
<1>2. CASE c.op \in {"login", "challenge"}
  <2>1. Become(r, Refusal(c))
    BY <1>2 DEF Revoke
  <2>2. QED BY <1>0, <1>1, <1>2, <2>1, RefusalType, RefusalFlow, CallAndRow DEF Revoke
<1>3. CASE c.op \in {"logout", "revokeOther"}
  <2>1. Become(r, Ok(c))
    BY <1>3 DEF Revoke
  <2>2. "ok" \in PointsOf(c.op)
    BY <1>3 DEF PointsOf, ByAdmin
  <2>3. QED BY <1>0, <1>1, <2>1, <2>2, OkType, OkFlow, CallAndRow DEF Revoke
<1>4. QED BY <1>0, <1>2, <1>3

\* An administrator's call is answered from any point.
LEMMA AdminOkFlow ==
  ASSUME NEW c \in Call, Flowing(c), c.op \in ByAdmin
  PROVE  Flowing(Ok(c))
<1>1. Ok(c).at = "ok" /\ Ok(c).op = c.op /\ Ok(c).who = c.who
        /\ Ok(c).target = c.target /\ Ok(c).s = c.s
  BY DEF Ok, Call
<1>2. "ok" \in PointsOf(c.op)
  BY DEF PointsOf, ByAdmin
<1>3. QED BY <1>1, <1>2 DEF Flowing

LEMMA RevokeAllTyped ==
  ASSUME IInv, NEW r \in Requests, RevokeAll(r)
  PROVE  IInv'
<1> DEFINE c == call[r]
<1>0. /\ c \in Call /\ Flowing(c)
      /\ \/ c.op \in {"logoutAll", "delete"} /\ Known(c)
         \/ c.op = "lock" \/ c.op = "unlock"
  BY CallKnown, PointKnows DEF RevokeAll
<1>1. row' \in [SessionIds -> Row]
  <2>1. \A x \in Row : [x EXCEPT !.revoked = TRUE] \in Row
    BY DEF Row
  <2>2. \/ row' = row
        \/ row' = [s \in SessionIds |-> IF s \in SessionsOf(c.who)
                                       THEN [row[s] EXCEPT !.revoked = TRUE] ELSE row[s]]
    BY DEF RevokeAll
  <2>3. QED BY <2>1, <2>2 DEF IInv, TypeOK
<1>2. CASE Become(r, [c EXCEPT !.at = "anonymize"]) /\ c.op = "delete"
  <2>1. [c EXCEPT !.at = "anonymize"] \in Call /\ Flowing([c EXCEPT !.at = "anonymize"])
    BY <1>0, <1>2, MoveOK DEF Points, PointsOf, ByAdmin
  <2>2. QED BY <1>1, <1>2, <2>1, CallAndRow DEF RevokeAll
<1>3. CASE Become(r, Refusal(c)) /\ c.op = "lock"
  BY <1>0, <1>1, <1>3, RefusalType, RefusalFlow, CallAndRow DEF RevokeAll
<1>4. CASE Become(r, Ok(c)) /\ c.op # "delete"
  <2>1. Flowing(Ok(c))
    <3>1. CASE c.op = "logoutAll"
      BY <1>0, <3>1, OkFlow DEF PointsOf, ByAdmin
    <3>2. CASE c.op \in ByAdmin
      BY <1>0, <3>2, AdminOkFlow
    <3>3. QED BY <1>0, <1>4, <3>1, <3>2 DEF ByAdmin
  <2>2. QED BY <1>0, <1>1, <1>4, <2>1, OkType, CallAndRow DEF RevokeAll
<1>5. QED BY <1>2, <1>3, <1>4 DEF RevokeAll

-----------------------------------------------------------------------------
\* Login and the MFA challenge.

LEMMA ValidateTyped ==
  ASSUME IInv, NEW r \in Requests, Validate(r)
  PROVE  IInv'
<1> DEFINE d == call[r]
<1>0. d \in Call /\ Flowing(d) /\ d.op = "login"
  BY CallKnown, PointKnows DEF Validate
<1>1. CASE Become(r, Refusal(d)) /\ UNCHANGED lastToken
  BY <1>0, <1>1, RefusalType, RefusalFlow, CallOnly DEF Validate
<1>2. ASSUME lastToken < MaxToken, lastToken' = lastToken + 1, NEW s \in SessionIds,
             Become(r, [d EXCEPT !.at = "insert", !.s = s, !.out = lastToken + 1])
      PROVE  IInv'
  <2> DEFINE c == [d EXCEPT !.at = "insert", !.s = s, !.out = lastToken + 1]
  <2>1. lastToken + 1 \in Tokens
    BY <1>2, BoundAssumption DEF IInv, TypeOK, Tokens
  <2>2. c \in Call /\ c.at = "insert" /\ c.op = "login" /\ c.s = s /\ c.who = d.who
    BY <1>0, <2>1 DEF Call, Points
  <2>3. Flowing(c)
    BY <1>0, <2>2 DEF Flowing, Known, PointsOf, ByAdmin
  <2>4. call' \in [Requests -> Call] /\ FlowOK'
    BY <1>2, <2>2, <2>3, BecomeOK DEF IInv, TypeOK
  <2>5. QED BY <1>2, <2>1, <2>4 DEF Validate, IInv, TypeOK, hvars
<1>3. QED BY <1>1, <1>2 DEF Validate

LEMMA InsertTyped ==
  ASSUME IInv, NEW r \in Requests, Insert(r)
  PROVE  IInv'
<1> DEFINE c == call[r]
<1>0. c \in Call /\ Flowing(c) /\ c.op = "login" /\ Known(c)
  BY CallKnown, PointKnows DEF Insert
<1>1. row' \in [SessionIds -> Row]
  <2>1. PICK staff \in StaffFlags :
          row' = [row EXCEPT ![c.s] =
                    [user |-> c.who, token |-> c.out, created |-> now,
                     expires |-> now + (IF c.remember THEN RememberMeTTL ELSE TTL),
                     active |-> now, revoked |-> FALSE,
                     mfaPending |-> FALSE, staff |-> staff]]
    BY DEF Insert
  <2>2. now \in Nat /\ now + (IF c.remember THEN RememberMeTTL ELSE TTL) \in Nat
    BY ConfigAssumption DEF IInv, TypeOK
  <2>3. [user |-> c.who, token |-> c.out, created |-> now,
         expires |-> now + (IF c.remember THEN RememberMeTTL ELSE TTL),
         active |-> now, revoked |-> FALSE,
         mfaPending |-> FALSE, staff |-> staff] \in Row
    BY <1>0, <2>2, StaffAssumption DEF Row, Call, Known
  <2>4. QED BY <1>0, <2>1, <2>3, RowWrites DEF Known
<1>2. call' \in [Requests -> Call] /\ FlowOK'
  <2>1. [c EXCEPT !.at = "factors"] \in Call /\ Flowing([c EXCEPT !.at = "factors"])
    BY <1>0, MoveOK DEF Points, PointsOf, ByAdmin
  <2>2. QED BY <2>1, BecomeOK DEF Insert, Goto, IInv, TypeOK
<1>3. remembered' \subseteq SessionIds
  BY <1>0 DEF Insert, IInv, TypeOK, Known
<1>4. QED BY <1>1, <1>2, <1>3 DEF Insert, IInv, TypeOK

LEMMA FactorsTyped ==
  ASSUME IInv, NEW r \in Requests, Factors(r)
  PROVE  IInv'
<1> DEFINE c == call[r]
<1>0. c \in Call /\ Flowing(c) /\ c.op = "login" /\ Known(c)
  BY CallKnown, PointKnows DEF Factors
<1>1. ASSUME NEW p \in {"pend", "hook"}, Goto(r, p) PROVE IInv'
  <2>1. [c EXCEPT !.at = p] \in Call /\ Flowing([c EXCEPT !.at = p])
    BY <1>0, MoveOK DEF Points, PointsOf, ByAdmin
  <2>2. QED BY <1>1, <2>1, CallOnly DEF Factors, Goto
<1>2. QED BY <1>1 DEF Factors

LEMMA PendTyped ==
  ASSUME IInv, NEW r \in Requests, Pend(r)
  PROVE  IInv'
<1>0. /\ call[r] \in Call /\ Flowing(call[r])
      /\ call[r].op = "login" /\ Known(call[r])
  BY CallKnown, PointKnows DEF Pend
<1>1. Flowing(Ok(call[r])) /\ Ok(call[r]) \in Call
  BY <1>0, OkFlow, OkType DEF PointsOf, ByAdmin
<1>2. Flowing(Refusal(call[r])) /\ Refusal(call[r]) \in Call
  BY <1>0, RefusalType, RefusalFlow
<1>3. row' \in [SessionIds -> Row]
  BY <1>0, RowWrites DEF Pend, Known, IInv, TypeOK
<1>4. QED BY <1>1, <1>2, <1>3, CallAndRow DEF Pend

LEMMA VerifyTyped ==
  ASSUME IInv, NEW r \in Requests, Verify(r)
  PROVE  IInv'
<1> DEFINE c == call[r]
<1>0. c \in Call /\ Flowing(c) /\ c.op = "challenge" /\ Known(c)
  BY CallKnown, PointKnows DEF Verify
<1>1. [c EXCEPT !.at = "clear"] \in Call /\ Flowing([c EXCEPT !.at = "clear"])
  BY <1>0, MoveOK DEF Points, PointsOf, ByAdmin
<1>2. Refusal(c) \in Call /\ Flowing(Refusal(c))
  BY <1>0, RefusalType, RefusalFlow
<1>3. call' \in [Requests -> Call] /\ FlowOK'
  BY <1>1, <1>2, BecomeOK DEF Verify, Goto, IInv, TypeOK
<1>4. proved' \subseteq SessionIds
  BY <1>0 DEF Verify, Known, IInv, TypeOK
<1>5. QED BY <1>3, <1>4 DEF Verify, IInv, TypeOK

LEMMA ClearTyped ==
  ASSUME IInv, NEW r \in Requests, Clear(r)
  PROVE  IInv'
<1> DEFINE c == call[r]
<1>0. c \in Call /\ Flowing(c) /\ c.op = "challenge" /\ Known(c)
  BY CallKnown, PointKnows DEF Clear
<1>1. [c EXCEPT !.at = "hook"] \in Call /\ Flowing([c EXCEPT !.at = "hook"])
  BY <1>0, MoveOK DEF Points, PointsOf, ByAdmin
<1>2. Refusal(c) \in Call /\ Flowing(Refusal(c))
  BY <1>0, RefusalType, RefusalFlow
<1>3. row' \in [SessionIds -> Row]
  BY <1>0, RowWrites DEF Clear, Known, IInv, TypeOK
<1>4. QED BY <1>1, <1>2, <1>3, CallAndRow DEF Clear

LEMMA HookTyped ==
  ASSUME IInv, NEW r \in Requests, Hook(r)
  PROVE  IInv'
<1> DEFINE c == call[r]
<1>0. /\ c \in Call /\ Flowing(c) /\ Known(c)
      /\ c.op \in {"login", "challenge", "delete"}
  BY CallKnown, PointKnows DEF Hook
<1>1. CASE Become(r, Refusal(c))
  BY <1>0, <1>1, RefusalType, RefusalFlow, CallOnly DEF Hook
<1>2. ASSUME NEW p \in {"revoke", "revokeAll"}, p \in PointsOf(c.op),
             Become(r, [c EXCEPT !.at = p])
      PROVE  IInv'
  <2>1. [c EXCEPT !.at = p] \in Call /\ Flowing([c EXCEPT !.at = p])
    BY <1>0, <1>2, MoveOK DEF Points
  <2>2. QED BY <1>2, <2>1, CallOnly DEF Hook
<1>3. CASE Become(r, Ok(c))
  BY <1>0, <1>3, OkType, OkFlow, CallOnly DEF Hook, PointsOf, ByAdmin
<1>4. \/ Become(r, Refusal(c))
      \/ c.op = "delete" /\ Become(r, [c EXCEPT !.at = "revokeAll"])
      \/ c.op # "delete" /\ Become(r, [c EXCEPT !.at = "revoke"])
      \/ Become(r, Ok(c))
  BY DEF Hook
<1>5. /\ c.op = "delete" => "revokeAll" \in PointsOf(c.op)
      /\ c.op # "delete" => "revoke" \in PointsOf(c.op)
  BY <1>0 DEF PointsOf, ByAdmin
<1>6. QED BY <1>1, <1>2, <1>3, <1>4, <1>5

-----------------------------------------------------------------------------
\* Account operations.

LEMMA ReadUserTyped ==
  ASSUME IInv, NEW r \in Requests, ReadUser(r)
  PROVE  IInv'
<1> DEFINE c == call[r]
<1>0. c \in Call /\ Flowing(c) /\ c.op \in ByAdmin
  BY CallKnown, PointKnows DEF ReadUser
<1>1. CASE Goto(r, "write")
  <2>1. [c EXCEPT !.at = "write"] \in Call /\ Flowing([c EXCEPT !.at = "write"])
    BY <1>0, MoveOK DEF Points, PointsOf, ByAdmin
  <2>2. QED BY <1>1, <2>1, CallOnly DEF ReadUser, Goto
<1>2. CASE Become(r, Refusal(c))
  BY <1>0, <1>2, RefusalType, RefusalFlow, CallOnly DEF ReadUser, ByAdmin
<1>3. QED BY <1>1, <1>2 DEF ReadUser

LEMMA WriteStatusTyped ==
  ASSUME IInv, NEW r \in Requests, WriteStatus(r)
  PROVE  IInv'
<1> DEFINE c == call[r]
<1>0. c \in Call /\ Flowing(c) /\ c.op \in ByAdmin
  BY CallKnown, PointKnows DEF WriteStatus
<1>1. [c EXCEPT !.at = "revokeAll"] \in Call /\ Flowing([c EXCEPT !.at = "revokeAll"])
  BY <1>0, MoveOK DEF Points, PointsOf, ByAdmin
<1>2. Ok(c) \in Call /\ Flowing(Ok(c))
  BY <1>0, OkType, AdminOkFlow
<1>3. call' \in [Requests -> Call] /\ FlowOK'
  BY <1>1, <1>2, BecomeOK DEF WriteStatus, IInv, TypeOK
<1>4. account' \in [Users -> AccountStates] /\ arrival' \in [Requests -> Arrival]
  BY <1>0, UpdateStatusType DEF WriteStatus, IInv, AccountStates, Statuses, Call
<1>5. QED BY <1>3, <1>4 DEF WriteStatus, IInv, TypeOK, hvars

LEMMA AnonymizeTyped ==
  ASSUME IInv, NEW r \in Requests, Anonymize(r)
  PROVE  IInv'
<1> DEFINE c == call[r]
<1>0. c \in Call /\ Flowing(c) /\ c.op = "delete" /\ Known(c)
  BY CallKnown, PointKnows DEF Anonymize
<1>1. call' \in [Requests -> Call] /\ FlowOK'
  <2>1. Ok(c) \in Call /\ Flowing(Ok(c))
    BY <1>0, OkType, OkFlow DEF PointsOf, ByAdmin
  <2>2. QED BY <2>1, BecomeOK DEF Anonymize, IInv, TypeOK
<1>2. account' \in [Users -> AccountStates] /\ arrival' \in [Requests -> Arrival]
  BY <1>0, UpdateStatusType DEF Anonymize, IInv, AccountStates, Known
<1>3. erased' \subseteq Users
  BY <1>0 DEF Anonymize, IInv, TypeOK, Known
<1>4. QED BY <1>1, <1>2, <1>3 DEF Anonymize, IInv, TypeOK, hvars

LEMMA HostSetStatusTyped ==
  ASSUME IInv, NEW u \in Users, NEW status \in Statuses, HostSetStatus(u, status)
  PROVE  IInv'
<1>1. account' \in [Users -> AccountStates] /\ arrival' \in [Requests -> Arrival]
  BY UpdateStatusType DEF HostSetStatus, IInv, AccountStates
<1>2. QED BY <1>1 DEF HostSetStatus, IInv, TypeOK, FlowOK, hvars

-----------------------------------------------------------------------------
\* Every step keeps the types.
LEMMA NextTyped == IInv /\ [Next]_vars => IInv'
<1> SUFFICES ASSUME IInv, [Next]_vars PROVE IInv'
  OBVIOUS
<1>1. CASE UNCHANGED vars
  BY <1>1 DEF vars, IInv, TypeOK, FlowOK
<1>2. CASE Tick
  BY <1>2 DEF Tick, IInv, TypeOK, FlowOK, hvars
<1>3. CASE \E u \in Users, status \in Statuses : HostSetStatus(u, status)
  BY <1>3, HostSetStatusTyped
<1>4. ASSUME NEW r \in Requests, Serve(r) PROVE IInv'
  BY <1>4, LookupTyped, GateTyped, EvictTyped, TouchTyped, RotateTyped, ListTyped,
     RevokeTyped, RevokeAllTyped, ValidateTyped, InsertTyped, FactorsTyped, PendTyped,
     VerifyTyped, ClearTyped, HookTyped, ReadUserTyped, WriteStatusTyped, AnonymizeTyped
     DEF Serve
<1>5. QED BY <1>1, <1>2, <1>3, <1>4, ArriveTyped, ReceiveTyped DEF Next

\* Every variable keeps its type, in every instance: in particular no handler
\* ever writes a status SetStatus does not allow, or acts on a session it has
\* not looked up.
THEOREM TypeCorrect == Spec => []TypeOK
<1>1. Spec => []IInv
  BY InitTyped, NextTyped, PTL DEF Spec
<1>2. IInv => TypeOK
  BY DEF IInv
<1>3. QED BY <1>1, <1>2, PTL
=============================================================================
