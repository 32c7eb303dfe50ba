-------------------------- MODULE LinkRequestsProofs --------------------------
(***************************************************************************)
(* What LinkRequests guarantees of the pool, of Close and of the limiter,  *)
(* for every number of requests and places, every limit and every window.  *)
(*                                                                         *)
(* The invariant Inv says that `sem` is the number of jobs that hold a     *)
(* place and `wg` the number of jobs that run, which needs that a slot is  *)
(* at a point of its own kind of call.                                     *)
(*                                                                         *)
(* LimitsInv relates a counter to the history: there is a moment, b units  *)
(* ago, when it began to count, such that it has let through as many hits  *)
(* since as it says, up to its limit, and no more than the limit in the    *)
(* rest of a window before. Turn lists what a step can do to one counter.  *)
(***************************************************************************)
EXTENDS LinkRequests, FiniteSetTheorems, TLAPS

Running == {"allow", "expire", "next", "judge", "tenant", "store", "send", "release"}
Points == Running \cup {"idle", "submit", "add", "done", "end"}
LinkKinds == {"ip", "email"}

Record == [at: Points, email: Emails, ip: Addresses, kind: Kinds, refused: SUBSET Kinds]

\* Where a slot can be, by the counter it asks or has asked last.
AtHome(v) ==
    \/ v.kind = "ip" /\ v.at \in {"idle", "submit", "add", "allow", "expire", "next"}
    \/ v.kind = "email" /\ v.at \in (Running \ {"next"}) \cup {"done"}
    \/ v.kind \in {"exchange", "http"} /\ v.at \in {"allow", "expire", "end"}

HoldsPlace(v) == v.at \in Running \cup {"add"} /\ v.kind \in LinkKinds
Runs(v) == v.at \in Running \cup {"done"} /\ v.kind \in LinkKinds
Jobs == {s \in Slots : Runs(slot[s])}

SlotsOK == slot \in [Slots -> Record] /\ \A s \in Slots : AtHome(slot[s])
CountsOK == sem = Cardinality(Places) /\ wg = Cardinality(Jobs)
StopsOK ==
    /\ server \in {"stopping", "waiting", "closed"} => \A s \in Slots : ~InHandler(s)
    /\ server \in {"waiting", "closed"} => purge = "ended"
    /\ server = "closed" => \A s \in Slots : slot[s].at = "idle"

Inv == config \in Configs /\ SlotsOK /\ CountsOK /\ StopsOK

-----------------------------------------------------------------------------
\* Sets that one element enters or leaves.
LEMMA CardStep ==
    ASSUME NEW S, IsFiniteSet(S), NEW s
    PROVE  /\ Cardinality(S \cup {s}) = IF s \in S THEN Cardinality(S) ELSE Cardinality(S) + 1
           /\ Cardinality(S \ {s}) = IF s \in S THEN Cardinality(S) - 1 ELSE Cardinality(S)
           /\ Cardinality(S) \in Nat
BY FS_AddElement, FS_RemoveElement, FS_CardinalityType

\* A free slot.
LEMMA IdleOK ==
    Idle \in Record /\ AtHome(Idle) /\ ~HoldsPlace(Idle) /\ ~Runs(Idle) /\ Idle.at = "idle"
BY SizeAssumption DEF Idle, Record, AtHome, HoldsPlace, Runs, Points, Running, LinkKinds, Kinds

LEMMA FiniteSlots == SlotsOK => IsFiniteSet(Places) /\ IsFiniteSet(Jobs)
BY SizeAssumption, FS_Subset DEF Places, Jobs

\* One slot moves to v: places and jobs change by that slot at most.
LEMMA Move ==
    ASSUME SlotsOK, NEW s \in Slots, NEW v \in Record, AtHome(v), slot' = [slot EXCEPT ![s] = v]
    PROVE  /\ SlotsOK'
           /\ Places' = IF HoldsPlace(v) THEN Places \cup {s} ELSE Places \ {s}
           /\ Jobs' = IF Runs(v) THEN Jobs \cup {s} ELSE Jobs \ {s}
           /\ s \in Places <=> HoldsPlace(slot[s])
           /\ s \in Jobs <=> Runs(slot[s])
<1>1. SlotsOK' BY DEF SlotsOK
<1>2. \A t \in Slots : slot'[t] = IF t = s THEN v ELSE slot[t] BY DEF SlotsOK
<1>3. Places = {t \in Slots : HoldsPlace(slot[t])} /\ Places' = {t \in Slots : HoldsPlace(slot'[t])}
  BY DEF Places, HoldsPlace, Running, LinkKinds
<1>4. Jobs' = {t \in Slots : Runs(slot'[t])} BY DEF Jobs
<1> HIDE DEF HoldsPlace, Runs
<1>5. Places' = IF HoldsPlace(v) THEN Places \cup {s} ELSE Places \ {s} BY <1>2, <1>3
<1>6. Jobs' = IF Runs(v) THEN Jobs \cup {s} ELSE Jobs \ {s} BY <1>2, <1>4 DEF Jobs
<1> QED BY <1>1, <1>3, <1>5, <1>6 DEF Jobs

\* A slot that is within a handler, as a record.
Handling(v) == v.at \in {"submit", "add"} \/ (v.at # "idle" /\ v.kind \in {"exchange", "http"})

\* One slot moves to v and the counters follow it.
LEMMA SlotStep ==
    ASSUME Inv, NEW s \in Slots, NEW v \in Record, AtHome(v), slot' = [slot EXCEPT ![s] = v],
           sem' = IF HoldsPlace(v) THEN IF HoldsPlace(slot[s]) THEN sem ELSE sem + 1
                  ELSE IF HoldsPlace(slot[s]) THEN sem - 1 ELSE sem,
           wg' = IF Runs(v) THEN IF Runs(slot[s]) THEN wg ELSE wg + 1
                 ELSE IF Runs(slot[s]) THEN wg - 1 ELSE wg,
           server = "serving" \/ (slot[s].at # "idle" /\ (Handling(v) => Handling(slot[s]))),
           UNCHANGED <<config, server, purge>>
    PROVE  Inv'
<1>1. SlotsOK BY DEF Inv
<1>2. SlotsOK' /\ config' \in Configs BY <1>1, Move DEF Inv
<1>3. /\ Places' = IF HoldsPlace(v) THEN Places \cup {s} ELSE Places \ {s}
      /\ Jobs' = IF Runs(v) THEN Jobs \cup {s} ELSE Jobs \ {s}
      /\ s \in Places <=> HoldsPlace(slot[s])
      /\ s \in Jobs <=> Runs(slot[s])
  BY <1>1, Move
<1>4. CountsOK'
  <2>1. IsFiniteSet(Places) /\ IsFiniteSet(Jobs) BY <1>1, FiniteSlots
  <2>2. sem = Cardinality(Places) /\ wg = Cardinality(Jobs) BY DEF Inv, CountsOK
  <2>3. sem' = Cardinality(Places') BY <1>3, <2>1, <2>2, CardStep
  <2>4. wg' = Cardinality(Jobs') BY <1>3, <2>1, <2>2, CardStep
  <2> QED BY <2>3, <2>4 DEF CountsOK
<1>5. StopsOK'
  <2>1. \A t \in Slots : slot'[t] = IF t = s THEN v ELSE slot[t] BY <1>1 DEF SlotsOK
  <2>2. CASE server = "serving" BY <2>2 DEF StopsOK
  <2>3. CASE slot[s].at # "idle" /\ (Handling(v) => Handling(slot[s]))
    BY <2>1, <2>3 DEF StopsOK, Inv, InHandler, Handling
  <2> QED BY <2>2, <2>3
<1> QED BY <1>2, <1>4, <1>5 DEF Inv

\* A slot that goes on to another point of its call.
LEMMA MoveOn ==
    ASSUME Inv, NEW s \in Slots, NEW v \in Record, AtHome(v), slot' = [slot EXCEPT ![s] = v],
           v.kind \in LinkKinds <=> slot[s].kind \in LinkKinds,
           slot[s].at \notin {"idle", "submit", "done"}, v.at \notin {"idle", "submit", "add"},
           slot[s].at = "release" <=> v.at = "done",
           sem' = IF slot[s].at = "release" THEN sem - 1 ELSE sem,
           wg' = IF slot[s].at = "add" THEN wg + 1 ELSE wg,
           UNCHANGED <<config, server, purge>>
    PROVE  Inv'
<1>1. slot[s] \in Record /\ AtHome(slot[s]) BY DEF Inv, SlotsOK
<1>2. slot[s].kind \in Kinds /\ v.kind \in Kinds BY <1>1 DEF Record
<1>3. HoldsPlace(slot[s]) <=> slot[s].kind \in LinkKinds BY <1>1 DEF AtHome, HoldsPlace, LinkKinds, Running
<1>4. Runs(slot[s]) <=> slot[s].kind \in LinkKinds /\ slot[s].at # "add"
  BY <1>1 DEF AtHome, Runs, LinkKinds, Running
<1>5. HoldsPlace(v) <=> v.kind \in LinkKinds /\ v.at # "done"
  BY DEF AtHome, HoldsPlace, LinkKinds, Running
<1>6. Runs(v) <=> v.kind \in LinkKinds BY DEF AtHome, Runs, LinkKinds, Running
<1>7. slot[s].at # "idle" /\ (Handling(v) => Handling(slot[s]))
  BY <1>2 DEF Handling, LinkKinds, Kinds
<1>8. slot[s].at = "add" \/ slot[s].at = "release" => slot[s].kind \in LinkKinds
  BY <1>1 DEF AtHome, LinkKinds, Running
<1> QED BY <1>3, <1>4, <1>5, <1>6, <1>7, <1>8, SlotStep

\* The same by Goto, or by an answer of the limiter, without a change of kind.
LEMMA GoOn ==
    ASSUME Inv, NEW s \in Slots, NEW at \in Points, NEW refused \in SUBSET Kinds,
           slot' = [slot EXCEPT ![s].at = at, ![s].refused = refused],
           \A v \in Record : v.at = at /\ v.kind = slot[s].kind => AtHome(v),
           slot[s].at \notin {"idle", "submit", "done"}, at \notin {"idle", "submit", "add"},
           slot[s].at = "release" <=> at = "done",
           sem' = IF slot[s].at = "release" THEN sem - 1 ELSE sem,
           wg' = IF slot[s].at = "add" THEN wg + 1 ELSE wg,
           UNCHANGED <<config, server, purge>>
    PROVE  Inv'
<1> DEFINE v == [slot[s] EXCEPT !.at = at, !.refused = refused]
<1>1. slot \in [Slots -> Record] /\ slot[s] \in Record BY DEF Inv, SlotsOK
<1>2. v \in Record /\ v.at = at /\ v.kind = slot[s].kind BY <1>1 DEF Record
<1>3. slot' = [slot EXCEPT ![s] = v] BY <1>1 DEF Record
<1> HIDE DEF v
<1>4. AtHome(v) BY <1>2
<1> QED BY <1>2, <1>3, <1>4, MoveOn

LEMMA GotoOn ==
    ASSUME Inv, NEW s \in Slots, NEW at \in Points, Goto(s, at),
           \A v \in Record : v.at = at /\ v.kind = slot[s].kind => AtHome(v),
           slot[s].at \notin {"idle", "submit", "done"}, at \notin {"idle", "submit", "add"},
           slot[s].at = "release" <=> at = "done",
           sem' = IF slot[s].at = "release" THEN sem - 1 ELSE sem,
           wg' = IF slot[s].at = "add" THEN wg + 1 ELSE wg,
           UNCHANGED <<config, server, purge>>
    PROVE  Inv'
<1>1. slot \in [Slots -> Record] /\ slot[s] \in Record BY DEF Inv, SlotsOK
<1>2. slot[s].refused \in SUBSET Kinds BY <1>1 DEF Record
<1>3. slot' = [slot EXCEPT ![s].at = at, ![s].refused = slot[s].refused]
  BY <1>1 DEF Goto, Record
<1> QED BY <1>2, <1>3, GoOn

-----------------------------------------------------------------------------
\* The steps of a slot.

LEMMA ArriveInv == ASSUME Inv, NEW s \in Slots, Arrive(s) PROVE Inv'
<1>1. PICK kind \in config.kinds, e \in config.emails, i \in Addresses :
        slot' = [slot EXCEPT ![s] = [Idle EXCEPT !.at = IF kind = "ip" THEN "submit" ELSE "allow",
                                                 !.kind = kind, !.email = e, !.ip = i]]
  BY DEF Arrive
<1> DEFINE v == [Idle EXCEPT !.at = IF kind = "ip" THEN "submit" ELSE "allow",
                             !.kind = kind, !.email = e, !.ip = i]
<1>2. kind \in Kinds \ {"email"} /\ e \in Emails BY SizeAssumption DEF Inv
<1>3. v \in Record /\ v.kind = kind /\ v.at = IF kind = "ip" THEN "submit" ELSE "allow"
  BY <1>2, IdleOK DEF Record, Points, Running
<1>4. slot' = [slot EXCEPT ![s] = v] BY <1>1
<1> HIDE DEF v
<1>5. AtHome(v) /\ ~HoldsPlace(v) /\ ~Runs(v)
  BY <1>2, <1>3 DEF AtHome, HoldsPlace, Runs, LinkKinds, Running, Kinds
<1>6. slot[s].at = "idle" /\ ~HoldsPlace(slot[s]) /\ ~Runs(slot[s])
  BY DEF Arrive, HoldsPlace, Runs, Running
<1> QED BY <1>3, <1>4, <1>5, <1>6, SlotStep DEF Arrive

LEMMA SubmitInv == ASSUME Inv, NEW s \in Slots, Submit(s) PROVE Inv'
<1>1. slot \in [Slots -> Record] /\ slot[s] \in Record /\ AtHome(slot[s]) BY DEF Inv, SlotsOK
<1>2. slot[s].at = "submit" /\ UNCHANGED <<config, wg, server, purge>> BY DEF Submit
<1>3. slot[s].kind = "ip" /\ ~HoldsPlace(slot[s]) /\ ~Runs(slot[s]) /\ Handling(slot[s])
  BY <1>1, <1>2 DEF AtHome, HoldsPlace, Runs, Running, Handling
<1>4. CASE sem < Capacity
  <2> DEFINE v == [slot[s] EXCEPT !.at = "add"]
  <2>1. v \in Record /\ v.at = "add" /\ v.kind = "ip" BY <1>1, <1>3 DEF Record, Points
  <2>2. slot' = [slot EXCEPT ![s] = v] /\ sem' = sem + 1 BY <1>4 DEF Submit, Goto
  <2> HIDE DEF v
  <2>3. AtHome(v) /\ HoldsPlace(v) /\ ~Runs(v)
    BY <2>1 DEF AtHome, HoldsPlace, Runs, Running, LinkKinds
  <2> QED BY <1>2, <1>3, <2>1, <2>2, <2>3, SlotStep
<1>5. CASE ~(sem < Capacity)
  <2>1. slot' = [slot EXCEPT ![s] = Idle] /\ sem' = sem BY <1>5 DEF Submit
  <2> QED BY <1>2, <1>3, <2>1, IdleOK, SlotStep
<1> QED BY <1>4, <1>5

LEMMA BeginInv == ASSUME Inv, NEW s \in Slots, Begin(s) PROVE Inv'
<1>1. AtHome(slot[s]) BY DEF Inv, SlotsOK
<1>2. slot[s].at = "add" /\ slot[s].kind = "ip" BY <1>1 DEF Begin, AtHome, Running
<1>3. \A v \in Record : v.at = "allow" /\ v.kind = slot[s].kind => AtHome(v) BY <1>2 DEF AtHome
<1> QED BY <1>2, <1>3, GotoOn DEF Begin, Points, Running

\* Where a slot goes after Allow suits its kind.
LEMMA AfterOK ==
    ASSUME Inv, NEW s \in Slots
    PROVE  /\ After(s) \in Points \ {"idle", "submit", "add", "release", "done"}
           /\ \A v \in Record : v.kind = slot[s].kind /\ v.at = After(s) => AtHome(v)
<1>1. slot[s].kind \in Kinds BY DEF Inv, SlotsOK, Record
<1>2. CASE slot[s].kind = "ip" BY <1>2 DEF After, AtHome, Points, Running
<1>3. CASE slot[s].kind = "email" BY <1>3 DEF After, AtHome, Points, Running
<1>4. CASE slot[s].kind \in {"exchange", "http"} BY <1>4 DEF After, AtHome, Points, Running
<1> QED BY <1>1, <1>2, <1>3, <1>4 DEF Kinds

LEMMA AllowInv == ASSUME Inv, NEW s \in Slots, Allow(s) PROVE Inv'
<1> DEFINE at == After(s)
<1>1. slot[s] \in Record /\ slot[s].at = "allow" BY DEF Inv, SlotsOK, Allow
<1>2. UNCHANGED <<config, sem, wg, server, purge>> BY DEF Allow
<1>3. at \in Points \ {"idle", "submit", "add", "release", "done"}
  BY AfterOK
<1>4. \A v \in Record : v.kind = slot[s].kind /\ v.at = at => AtHome(v) BY AfterOK
<1>5. \A v \in Record : v.kind = slot[s].kind /\ v.at = "expire" => AtHome(v)
  BY <1>1 DEF Record, AtHome, Kinds, Running
<1> HIDE DEF at
<1>6. ASSUME NEW to \in {at, "expire"}, NEW refused \in SUBSET Kinds,
             slot' = [slot EXCEPT ![s].at = to, ![s].refused = refused]
      PROVE  Inv'
  <2>1. to \in Points \ {"idle", "submit", "add", "release", "done"} BY <1>3 DEF Points, Running
  <2>2. \A v \in Record : v.at = to /\ v.kind = slot[s].kind => AtHome(v) BY <1>4, <1>5
  <2>3. to \in Points /\ to \notin {"idle", "submit", "add"} /\ to # "release" /\ to # "done" BY <2>1
  <2> QED BY <1>1, <1>2, <1>6, <2>2, <2>3, GoOn
<1>7. CASE NoLimit(s, at) BY <1>1, <1>2, <1>3, <1>4, <1>7, GotoOn DEF NoLimit
<1>8. slot[s].refused \in SUBSET Kinds /\ slot[s].refused \cup {slot[s].kind} \in SUBSET Kinds
  BY <1>1 DEF Record
<1>9. CASE Unanswered(s, at)
  <2>1. slot' = [slot EXCEPT ![s].at = at, ![s].refused = slot[s].refused]
    BY <1>1, <1>9 DEF Unanswered, Answer, Inv, SlotsOK, Record
  <2> QED BY <1>6, <1>8, <2>1
<1>10. CASE InMemory(s, at)
  <2>1. \E refused \in SUBSET Kinds : slot' = [slot EXCEPT ![s].at = at, ![s].refused = refused]
    BY <1>1, <1>8, <1>10 DEF InMemory, Answer, Inv, SlotsOK, Record
  <2> QED BY <1>6, <2>1
<1>11. CASE InRedis(s, at)
  <2>1. \E to \in {at, "expire"}, refused \in SUBSET Kinds :
          slot' = [slot EXCEPT ![s].at = to, ![s].refused = refused]
    BY <1>1, <1>8, <1>11 DEF InRedis, Answer, Inv, SlotsOK, Record
  <2> QED BY <1>6, <2>1
<1> QED BY <1>7, <1>9, <1>10, <1>11 DEF Allow, at

LEMMA ExpireInv == ASSUME Inv, NEW s \in Slots, Expire(s) PROVE Inv'
<1>1. slot[s].at = "expire" /\ Goto(s, After(s)) /\ UNCHANGED <<config, sem, wg, server, purge>>
  BY DEF Expire
<1> QED BY <1>1, AfterOK, GotoOn

LEMMA AskEmailInv == ASSUME Inv, NEW s \in Slots, AskEmail(s) PROVE Inv'
<1> DEFINE v == [slot[s] EXCEPT !.at = "allow", !.kind = "email"]
<1>1. slot \in [Slots -> Record] /\ slot[s] \in Record /\ AtHome(slot[s]) BY DEF Inv, SlotsOK
<1>2. slot[s].at = "next" /\ UNCHANGED <<config, sem, wg, server, purge>> BY DEF AskEmail
<1>3. slot[s].kind = "ip" BY <1>1, <1>2 DEF AtHome, Running
<1>4. v \in Record /\ v.at = "allow" /\ v.kind = "email" BY <1>1 DEF Record, Points, Running, Kinds
<1>5. slot' = [slot EXCEPT ![s] = v] BY <1>1 DEF AskEmail, Record
<1> HIDE DEF v
<1>6. AtHome(v) BY <1>4 DEF AtHome, Running
<1> QED BY <1>2, <1>3, <1>4, <1>5, <1>6, MoveOn DEF LinkKinds

\* A job past both limiters has asked for its email.
LEMMA WorkInv == ASSUME Inv, NEW s \in Slots, Judge(s) \/ Work(s) \/ Panic(s) PROVE Inv'
<1>1. slot[s] \in Record /\ AtHome(slot[s]) BY DEF Inv, SlotsOK
<1>2. slot[s].at \in {"judge", "tenant", "store", "send"} /\ UNCHANGED <<config, sem, wg, server, purge>>
  BY DEF Judge, Work, Panic
<1>3. slot[s].kind = "email" BY <1>1, <1>2 DEF AtHome, Running
<1>4. PICK at \in {"release", "tenant", "store", "send"} : Goto(s, at) BY DEF Judge, Work, Panic
<1>5. \A v \in Record : v.at = at /\ v.kind = slot[s].kind => AtHome(v) BY <1>3 DEF AtHome, Running
<1>6. at \in Points BY DEF Points, Running
<1> QED BY <1>2, <1>4, <1>5, <1>6, GotoOn

LEMMA ReleaseInv == ASSUME Inv, NEW s \in Slots, Release(s) PROVE Inv'
<1>1. AtHome(slot[s]) /\ slot[s].at = "release" BY DEF Inv, SlotsOK, Release
<1>2. \A v \in Record : v.at = "done" /\ v.kind = slot[s].kind => AtHome(v)
  BY <1>1 DEF AtHome, Running
<1> QED BY <1>1, <1>2, GotoOn DEF Release, Points

LEMMA LeaveInv == ASSUME Inv, NEW s \in Slots, Done(s) \/ End(s) PROVE Inv'
<1>1. slot[s] \in Record /\ AtHome(slot[s]) BY DEF Inv, SlotsOK
<1>2. slot' = [slot EXCEPT ![s] = Idle] /\ UNCHANGED <<config, sem, server, purge>> BY DEF Done, End
<1>3. ~Handling(Idle) BY IdleOK DEF Handling, Idle
<1>4. CASE Done(s)
  <2>1. slot[s].at = "done" /\ ~HoldsPlace(slot[s]) /\ Runs(slot[s]) /\ wg' = wg - 1
    BY <1>1, <1>4 DEF Done, AtHome, HoldsPlace, Runs, Running, LinkKinds
  <2> QED BY <1>2, <1>3, <2>1, IdleOK, SlotStep
<1>5. CASE End(s)
  <2>1. slot[s].at = "end" /\ ~HoldsPlace(slot[s]) /\ ~Runs(slot[s]) /\ wg' = wg
    BY <1>1, <1>5 DEF End, AtHome, HoldsPlace, Runs, Running, LinkKinds
  <2> QED BY <1>2, <1>3, <2>1, IdleOK, SlotStep
<1> QED BY <1>4, <1>5

-----------------------------------------------------------------------------
\* The clock, the purge and Close.

\* Whatever leaves slots and counts alone has only the order of Close to keep.
LEMMA Elsewhere ==
    ASSUME Inv, UNCHANGED <<config, slot, sem, wg>>, StopsOK' PROVE Inv'
<1>1. SlotsOK' /\ CountsOK' BY DEF Inv, SlotsOK, CountsOK, Places, Jobs, Runs, AtHome
<1> QED BY <1>1 DEF Inv

LEMMA PurgeInv == ASSUME Inv, Tick \/ Purged \/ PurgeAgain \/ PurgeEnds PROVE Inv'
<1>1. UNCHANGED <<config, slot, sem, wg, server>> BY DEF Tick, Purged, PurgeAgain, PurgeEnds
<1>2. purge' = purge \/ purge' = "ended" \/ purge # "ended" BY DEF Tick, Purged, PurgeAgain, PurgeEnds
<1>3. StopsOK' BY <1>1, <1>2 DEF Inv, StopsOK, InHandler
<1> QED BY <1>1, <1>3, Elsewhere

\* Nothing is in flight when no job runs and no handler is left.
LEMMA Drained ==
    ASSUME Inv, wg = 0, \A s \in Slots : ~InHandler(s)
    PROVE  \A s \in Slots : slot[s].at = "idle"
<1>1. Jobs = {}
  <2>1. IsFiniteSet(Jobs) BY FiniteSlots DEF Inv
  <2> QED BY <2>1, FS_EmptySet DEF Inv, CountsOK
<1>2. SUFFICES ASSUME NEW s \in Slots PROVE slot[s].at = "idle" OBVIOUS
<1>3. ~Runs(slot[s]) BY <1>1 DEF Jobs
<1>4. slot[s].kind \in Kinds /\ slot[s].at \in Points /\ AtHome(slot[s]) BY DEF Inv, SlotsOK, Record
<1> QED BY <1>3, <1>4 DEF Runs, AtHome, InHandler, Points, Running, LinkKinds, Kinds

LEMMA CloseInv == ASSUME Inv, Shutdown \/ Stopping PROVE Inv'
<1>1. UNCHANGED <<config, slot, sem, wg, purge>>
  BY DEF Shutdown, Stopping, StopCleanup, AwaitCleanup, Close
<1>2. CASE Shutdown BY <1>1, <1>2, Elsewhere DEF Shutdown, StopsOK
<1>3. CASE StopCleanup BY <1>1, <1>3, Elsewhere DEF StopCleanup, StopsOK, InHandler
<1>4. CASE AwaitCleanup
  BY <1>1, <1>4, Elsewhere DEF AwaitCleanup, StopsOK, InHandler, Inv
<1>5. CASE Close
  <2>1. \A s \in Slots : slot[s].at = "idle" BY <1>5, Drained DEF Close, Inv, StopsOK
  <2> QED BY <1>1, <1>5, <2>1, Elsewhere DEF Close, StopsOK, InHandler, Inv
<1> QED BY <1>2, <1>3, <1>4, <1>5 DEF Stopping

-----------------------------------------------------------------------------
LEMMA InitInv == Init => Inv
<1> SUFFICES ASSUME Init PROVE Inv OBVIOUS
<1>1. SlotsOK BY IdleOK DEF Init, SlotsOK
<1>2. Places = {} /\ Jobs = {}
  BY IdleOK DEF Init, Places, Jobs, Idle
<1>3. CountsOK BY <1>2, FS_EmptySet DEF Init, CountsOK
<1> QED BY <1>1, <1>3 DEF Init, Inv, StopsOK

LEMMA NextInv == ASSUME Inv, [Next]_vars PROVE Inv'
<1>1. CASE Next
  <2>1. ASSUME NEW s \in Slots, Arrive(s) \/ Progress(s) PROVE Inv'
    BY <2>1, ArriveInv, SubmitInv, BeginInv, AllowInv, ExpireInv, AskEmailInv, WorkInv, ReleaseInv,
       LeaveInv DEF Progress
  <2> QED BY <1>1, <2>1, PurgeInv, CloseInv DEF Next
<1>2. CASE UNCHANGED vars BY <1>2, Elsewhere DEF vars, Inv, StopsOK, InHandler
<1> QED BY <1>1, <1>2

LEMMA Invariance == Spec => []Inv
BY InitInv, NextInv, PTL DEF Spec

-----------------------------------------------------------------------------
\* A request is dropped only while as many jobs hold places as the pool has: the
\* only drop is that of Submit, and `sem` counts the places exactly.
THEOREM PlacesComeBack == Spec => DroppedOnlyWhenFull
<1>1. ASSUME Inv, Next, NEW s \in Slots, slot[s].at = "submit", slot'[s].at = "idle"
      PROVE  Cardinality(Places) >= Capacity
  <2>1. slot \in [Slots -> Record] BY <1>1 DEF Inv, SlotsOK
  <2>2. sem = Cardinality(Places) /\ Cardinality(Places) \in Nat
    BY <1>1, FiniteSlots, FS_CardinalityType DEF Inv, CountsOK
  <2>3. ASSUME NEW t \in Slots, t # s, Arrive(t) \/ Progress(t) PROVE FALSE
    <3>1. \E v : slot' = [slot EXCEPT ![t] = v]
      BY <2>3 DEF Progress, Arrive, Submit, Begin, Allow, Expire, AskEmail, Judge, Work, Panic,
         Release, Done, End, Goto, NoLimit, Unanswered, InMemory, InRedis, Answer
    <3>2. slot'[s] = slot[s] BY <2>1, <2>3, <3>1
    <3> QED BY <1>1, <3>2
  <2>4. Submit(s)
    <3>1. slot # slot' BY <1>1
    <3>2. PICK t \in Slots : Arrive(t) \/ Progress(t)
      BY <1>1, <3>1 DEF Next, Tick, Purged, PurgeAgain, PurgeEnds, Shutdown, Stopping, StopCleanup,
         AwaitCleanup, Close
    <3>3. Arrive(s) \/ Progress(s) BY <2>3, <3>2
    <3> QED BY <1>1, <3>3 DEF Progress, Arrive, Begin, Allow, Expire, AskEmail, Judge, Work, Panic,
               Release, Done, End
  <2>5. ~(sem < Capacity)
    <3>1. SUFFICES ASSUME sem < Capacity PROVE slot'[s].at = "add" BY <1>1
    <3>2. slot' = [slot EXCEPT ![s].at = "add"] BY <2>4, <3>1 DEF Submit, Goto
    <3> QED BY <2>1, <3>2 DEF Record
  <2> QED BY <2>2, <2>5, SizeAssumption
<1>2. Inv /\ [Next]_vars =>
        [\A s \in Slots : slot[s].at = "submit" /\ slot'[s].at = "idle"
            => Cardinality(Places) >= Capacity]_vars
  BY <1>1
<1> QED BY <1>2, Invariance, PTL DEF Spec, DroppedOnlyWhenFull

\* The databases are closed only when no job and no purge is left that could use
\* them, however many requests are in flight when Close is called.
ClosedIdle == server = "closed" => ~AtWork

THEOREM NothingAfterClose == Spec => []ClosedIdle
<1>1. Inv => ClosedIdle BY DEF Inv, StopsOK, ClosedIdle, AtWork
<1> QED BY <1>1, Invariance, PTL

-----------------------------------------------------------------------------
\* Sets of hits: those that f counts, up to n of each age, of the ages in A.

Spent(f, n, A) == {h \in A \X (1..n) : h[2] <= f[h[1]]}

\* Finitely many ages, and up to n hits of each.
LEMMA SpentFinite ==
    ASSUME NEW n \in Nat, NEW A, IsFiniteSet(A), NEW f
    PROVE  IsFiniteSet(Spent(f, n, A)) /\ Cardinality(Spent(f, n, A)) \in Nat
<1>0. IsFiniteSet(1..n)
  <2>1. 1 \in Int /\ n \in Int OBVIOUS
  <2> QED BY <2>1, FS_Interval
<1>1. IsFiniteSet(A \X (1..n)) BY <1>0, FS_Product
<1>2. Spent(f, n, A) \in SUBSET (A \X (1..n)) BY DEF Spent
<1> QED BY <1>1, <1>2, FS_Subset, FS_CardinalityType

\* The hits of disjoint ages add up.
LEMMA SpentSum ==
    ASSUME NEW n \in Nat, NEW A, IsFiniteSet(A), NEW B, IsFiniteSet(B), NEW f
    PROVE  Cardinality(Spent(f, n, A \cup B))
             <= Cardinality(Spent(f, n, A)) + Cardinality(Spent(f, n, B))
<1> DEFINE S == Spent(f, n, A)
           T == Spent(f, n, B)
<1>1. IsFiniteSet(S) /\ IsFiniteSet(T) BY SpentFinite
<1>2. Spent(f, n, A \cup B) = S \cup T BY DEF Spent
<1>3. IsFiniteSet(S \cap T) BY <1>1, FS_Intersection
<1> HIDE DEF S, T
<1>4. /\ Cardinality(S \cup T) = Cardinality(S) + Cardinality(T) - Cardinality(S \cap T)
      /\ Cardinality(S) \in Nat /\ Cardinality(T) \in Nat /\ Cardinality(S \cap T) \in Nat
  BY <1>1, <1>3, FS_Union, FS_CardinalityType
<1>5. Cardinality(S \cup T) <= Cardinality(S) + Cardinality(T) BY <1>4
<1> QED BY <1>2, <1>5 DEF S, T

\* Fewer ages have no more hits.
LEMMA SpentWithin ==
    ASSUME NEW n \in Nat, NEW A, IsFiniteSet(A), NEW B \in SUBSET A, NEW f
    PROVE  Cardinality(Spent(f, n, B)) <= Cardinality(Spent(f, n, A))
<1>1. Spent(f, n, B) \in SUBSET Spent(f, n, A) BY DEF Spent
<1> QED BY <1>1, SpentFinite, FS_Subset

\* Time passes: the hits that g counts at an age f counted d units earlier, or later.
LEMMA SpentShift ==
    ASSUME NEW n \in Nat, NEW f, NEW g, NEW d \in Int, NEW A, IsFiniteSet(A), NEW B \in SUBSET Int,
           \A b \in B : g[b] \in Nat /\ (g[b] > 0 => b + d \in A /\ f[b + d] = g[b])
    PROVE  Cardinality(Spent(g, n, B)) <= Cardinality(Spent(f, n, A))
<1> DEFINE S == Spent(g, n, B)
           T == Spent(f, n, A)
           m == [h \in S |-> <<h[1] + d, h[2]>>]
<1>0. \A h \in S : h \in B \X (1..n) /\ h[2] <= g[h[1]] BY DEF Spent
<1>1. \A b \in A, i \in 1..n : i <= f[b] => <<b, i>> \in T BY DEF Spent
<1>2. DOMAIN m = S /\ \A h \in S : m[h] = <<h[1] + d, h[2]>> OBVIOUS
<1>3. IsFiniteSet(T) BY SpentFinite
<1> HIDE DEF S, T, m
<1>4. ASSUME NEW h \in S PROVE m[h] \in T
  <2>1. h[1] \in B /\ h[2] \in 1..n /\ h[2] <= g[h[1]] BY <1>0
  <2>0. g[h[1]] \in Nat BY <2>1
  <2>2. g[h[1]] > 0 BY <2>0, <2>1
  <2>3. h[1] + d \in A /\ f[h[1] + d] = g[h[1]] BY <2>1, <2>2
  <2>4. <<h[1] + d, h[2]>> \in T BY <1>1, <2>1, <2>3
  <2> QED BY <1>2, <2>4
<1>5. ASSUME NEW h \in S, NEW i \in S, m[h] = m[i] PROVE h = i
  <2>1. h \in B \X (1..n) /\ i \in B \X (1..n) BY <1>0
  <2>2. h[1] + d = i[1] + d /\ h[2] = i[2] BY <1>2, <1>5
  <2>3. h[1] \in Int /\ i[1] \in Int BY <2>1
  <2>4. h[1] = i[1] BY <2>2, <2>3
  <2> QED BY <2>1, <2>2, <2>4
<1>6. m \in [S -> T]
  <2>1. m = [h \in S |-> m[h]] BY <1>2 DEF m
  <2> QED BY <1>4, <2>1
<1>7. m \in Injection(S, T) BY <1>5, <1>6 DEF Injection, IsInjective
<1>8. Cardinality(S) <= Cardinality(T) BY <1>3, <1>7, FS_Injection
<1> QED BY <1>8 DEF S, T

\* One more hit now, if there were less than n.
OneMore(f, g, n) == g[0] = AtMost(f[0] + 1, n) /\ \A a \in DOMAIN f \ {0} : g[a] = f[a]

\* One more hit now adds one to the ages that include now, unless n are counted
\* already, and changes no others.
LEMMA SpentMore ==
    ASSUME NEW n \in Nat, NEW A \in SUBSET Nat, IsFiniteSet(A), NEW f, NEW g, OneMore(f, g, n),
           A \subseteq DOMAIN f, \A a \in A : f[a] \in Nat
    PROVE  /\ 0 \notin A => Spent(g, n, A) = Spent(f, n, A)
           /\ Cardinality(Spent(g, n, A)) <= Cardinality(Spent(f, n, A)) + 1
           /\ Cardinality(Spent(f, n, A)) <= Cardinality(Spent(g, n, A))
           /\ 0 \in A => \/ Cardinality(Spent(g, n, A)) >= Cardinality(Spent(f, n, A)) + 1
                         \/ Cardinality(Spent(g, n, A)) >= n
<1> DEFINE S == Spent(f, n, A)
           T == Spent(g, n, A)
           h == <<0, f[0] + 1>>
<1>0. /\ IsFiniteSet(S) /\ Cardinality(S) \in Nat
      /\ IsFiniteSet(T) /\ Cardinality(T) \in Nat
  BY SpentFinite
<1>1. 0 \notin A => T = S BY DEF Spent, OneMore
<1>2. CASE 0 \notin A BY <1>0, <1>1, <1>2
<1>3. CASE 0 \in A /\ f[0] < n
  <2>1. g[0] = f[0] + 1 /\ f[0] \in Nat BY <1>3 DEF OneMore, AtMost
  <2>2. h \in T /\ h \notin S BY <1>3, <2>1 DEF Spent
  <2>3. T = S \cup {h}
    <3>1. ASSUME NEW x \in A \X (1..n) PROVE x \in T <=> x \in S \/ x = h
      <4>1. x[1] \in A /\ x[2] \in 1..n /\ x = <<x[1], x[2]>> BY <3>1
      <4>2. CASE x[1] = 0
        <5>1. x[2] <= g[0] <=> x[2] <= f[0] \/ x[2] = f[0] + 1 BY <2>1, <4>1
        <5> QED BY <3>1, <4>1, <4>2, <5>1 DEF Spent
      <4>3. CASE x[1] # 0
        <5>1. g[x[1]] = f[x[1]] BY <4>1, <4>3 DEF OneMore
        <5> QED BY <4>1, <4>3, <5>1 DEF Spent
      <4> QED BY <4>2, <4>3
    <3>2. S \subseteq A \X (1..n) /\ T \subseteq A \X (1..n) BY DEF Spent
    <3> QED BY <2>2, <3>1, <3>2
  <2>4. Cardinality(S \cup {h}) = Cardinality(S) + 1 BY <1>0, <2>2, FS_AddElement
  <2> QED BY <1>0, <1>3, <2>3, <2>4
<1>4. CASE 0 \in A /\ ~(f[0] < n)
  <2>1. g[0] = n /\ f[0] \in Nat BY <1>4 DEF OneMore, AtMost
  <2>2. T = S
    <3>1. ASSUME NEW x \in A \X (1..n) PROVE x \in T <=> x \in S
      <4>1. x[1] \in A /\ x[2] \in 1..n BY <3>1
      <4>2. CASE x[1] = 0 BY <1>4, <2>1, <4>1, <4>2 DEF Spent
      <4>3. CASE x[1] # 0
        <5>1. g[x[1]] = f[x[1]] BY <4>1, <4>3 DEF OneMore
        <5> QED BY <4>1, <4>3, <5>1 DEF Spent
      <4> QED BY <4>2, <4>3
    <3> QED BY <3>1 DEF Spent
  <2>3. n <= Cardinality(T)
    <3> DEFINE m == [i \in 1..n |-> <<0, i>>]
    <3>a. \A i \in 1..n : <<0, i>> \in T BY <1>4, <2>1 DEF Spent
    <3>b. m \in [1..n -> T] BY <3>a
    <3>c. \A i, j \in 1..n : m[i] = m[j] => i = j OBVIOUS
    <3> HIDE DEF m, T
    <3>1. m \in Injection(1..n, T) BY <3>b, <3>c DEF Injection, IsInjective
    <3>2. Cardinality(1..n) <= Cardinality(T) BY <1>0, <3>1, FS_Injection
    <3>3. Cardinality(1..n) = n BY FS_Interval
    <3> QED BY <3>2, <3>3
  <2> QED BY <1>0, <1>4, <2>2, <2>3
<1> QED BY <1>2, <1>3, <1>4

-----------------------------------------------------------------------------
\* What a step does to one counter.

Limits == {k \in Keys : LimitOf(k) > 0}
Entry == [count: Nat, left: Int, expires: BOOLEAN]

\* A handler that has just opened a window, and has still to send the EXPIRE.
Pending(k) == \E s \in Slots : slot[s].at = "expire" /\ Key(s) = k

EntryOK(k) ==
    /\ entry[k].count = 0 => entry[k] = Absent
    /\ entry[k].count > 0 /\ ~Redis => entry[k].expires /\ entry[k].left \in 0..WindowOf(k)
    /\ entry[k].count > 0 /\ Redis /\ entry[k].expires => entry[k].left \in 1..WindowOf(k)
    /\ Pending(k) => Redis /\ entry[k].count > 0

TableOK ==
    /\ entry \in [Keys -> Entry] /\ admitted \in [Keys -> [Ages -> Nat]]
    /\ \A k \in Limits : EntryOK(k)

Cap(k) == 2 * LimitOf(k) + 1
NonePends(k) == Pending(k)' => Pending(k)
Admits(k) == OneMore(admitted[k], admitted'[k], Cap(k))

Rests(k) == entry'[k] = entry[k] /\ admitted'[k] = admitted[k] /\ NonePends(k)
Opens(k) ==
    /\ entry[k].count = 0 /\ entry'[k].count = 1 /\ Admits(k)
    /\ Redis => ~entry'[k].expires
    /\ ~Redis => entry'[k].expires /\ entry'[k].left = WindowOf(k) /\ NonePends(k)
Counts(k) ==
    /\ entry[k].count > 0 /\ entry'[k].count = AtMost(entry[k].count + 1, LimitOf(k) + 1)
    /\ entry'[k].left = entry[k].left /\ entry'[k].expires = entry[k].expires
    /\ NonePends(k)
    /\ IF entry'[k].count <= LimitOf(k) THEN Admits(k) ELSE admitted'[k] = admitted[k]
\* An INCR that was executed or not, and got no answer.
Slips(k) ==
    /\ Redis /\ "incr" \in config.faults /\ Admits(k) /\ NonePends(k)
    /\ \/ entry'[k] = entry[k]
       \/ /\ entry'[k].count = AtMost(entry[k].count + 1, LimitOf(k) + 1)
          /\ entry'[k].left = entry[k].left
          /\ entry'[k].expires <=> entry[k].expires /\ entry[k].count > 0
Dates(k) ==
    /\ Pending(k) /\ NonePends(k) /\ entry'[k].count = entry[k].count
    /\ entry'[k].left = WindowOf(k) /\ entry'[k].expires /\ admitted'[k] = admitted[k]
Ripens(k) ==
    /\ ~Pending(k) /\ NonePends(k) /\ entry'[k] = Older(entry[k])
    /\ admitted'[k] = [a \in Ages |-> IF a = 0 \/ a > WindowOf(k) THEN 0 ELSE admitted[k][a - 1]]

Turn(k) == Rests(k) \/ Opens(k) \/ Counts(k) \/ Slips(k) \/ Dates(k) \/ Ripens(k)

\* The longest of the four windows.
LEMMA Biggest ==
    ASSUME NEW a \in Nat, NEW b \in Nat, NEW c \in Nat, NEW d \in Nat
    PROVE  \E x \in {a, b, c, d} : \A y \in {a, b, c, d} : x >= y
<1>1. CASE a >= b /\ a >= c /\ a >= d BY <1>1
<1>2. CASE b >= a /\ b >= c /\ b >= d BY <1>2
<1>3. CASE c >= a /\ c >= b /\ c >= d BY <1>3
<1>4. CASE d >= a /\ d >= b /\ d >= c BY <1>4
<1> QED BY <1>1, <1>2, <1>3, <1>4

\* The ages of the history reach back as far as every window does.
LEMMA AgesOK ==
    ASSUME NEW k \in Keys
    PROVE  /\ WindowOf(k) \in Nat \ {0} /\ WindowOf(k) \in Ages
           /\ Ages \subseteq Nat /\ 0 \in Ages /\ 0..WindowOf(k) \subseteq Ages
           /\ \A a \in Ages : a # 0 => a - 1 \in Ages
<1> DEFINE S == {Window[kind] : kind \in Kinds}
<1>1. /\ Window["ip"] \in Nat /\ Window["email"] \in Nat
      /\ Window["exchange"] \in Nat /\ Window["http"] \in Nat
  BY SizeAssumption DEF Kinds
<1>2. S = {Window["ip"], Window["email"], Window["exchange"], Window["http"]} BY DEF Kinds
<1>3. \E x \in S : \A y \in S : x >= y
  <2> HIDE DEF S
  <2>1. \E a \in Nat, b \in Nat, c \in Nat, d \in Nat : S = {a, b, c, d}
    BY <1>1, <1>2
  <2> QED BY <2>1, Biggest
<1>4. Max(S) \in S /\ \A y \in S : Max(S) >= y
  <2> HIDE DEF S
  <2> QED BY <1>3 DEF Max
<1>5. k[1] \in Kinds BY DEF Keys, Kinds
<1>6. WindowOf(k) \in S /\ WindowOf(k) \in Nat \ {0} BY <1>5, SizeAssumption DEF WindowOf
<1>7. Max(S) \in Nat BY <1>1, <1>2, <1>4
<1>8. Max(S) >= WindowOf(k) BY <1>4, <1>6
<1> HIDE DEF S
<1>9. Ages = 0..Max(S) BY DEF Ages, S
<1> QED BY <1>6, <1>7, <1>8, <1>9

\* The limits of a configuration are numbers.
LEMMA LimitsOK ==
    ASSUME Inv, NEW k \in Keys
    PROVE  LimitOf(k) \in Nat /\ Cap(k) \in Nat
<1>1. k[1] \in Kinds BY DEF Keys, Kinds
<1> QED BY <1>1, SizeAssumption DEF Inv, LimitOf, Cap

\* A slot asks one of the counters.
LEMMA KeyIs ==
    ASSUME Inv, NEW s \in Slots
    PROVE  Key(s) \in Keys
<1>1. slot[s] \in Record BY DEF Inv, SlotsOK
<1>2. slot[s].kind \in Kinds /\ slot[s].email \in Emails /\ slot[s].ip \in Addresses
  BY <1>1 DEF Record
<1>3. CASE slot[s].kind = "email" BY <1>2, <1>3 DEF Key, Keys
<1>4. CASE slot[s].kind # "email" BY <1>2, <1>4 DEF Key, Keys
<1> QED BY <1>3, <1>4

\* One slot moves, and not to its EXPIRE.
LEMMA NoPending ==
    ASSUME Inv, NEW s \in Slots, NEW v, slot' = [slot EXCEPT ![s] = v], v.at # "expire",
           NEW k
    PROVE  NonePends(k)
<1>1. \A t \in Slots : slot'[t] = IF t = s THEN v ELSE slot[t] BY DEF Inv, SlotsOK
<1> QED BY <1>1 DEF NonePends, Pending, Key

\* The answer of the limiter sends a slot on, not to its EXPIRE.
LEMMA AnswerPends ==
    ASSUME Inv, NEW s \in Slots, NEW at, at # "expire", NEW refused,
           slot' = [slot EXCEPT ![s].at = at, ![s].refused = refused], NEW k
    PROVE  NonePends(k)
<1>1. slot \in [Slots -> Record] BY DEF Inv, SlotsOK
<1>2. \A t \in Slots \ {s} : slot'[t] = slot[t] BY <1>1
<1>3. slot'[s].at = at BY <1>1 DEF Record
<1> QED BY <1>2, <1>3 DEF NonePends, Pending, Key

\* An answer leaves the other counters' EXPIREs alone.
LEMMA OwnPends ==
    ASSUME Inv, NEW s \in Slots, NEW at, NEW refused,
           slot' = [slot EXCEPT ![s].at = at, ![s].refused = refused],
           NEW k, k # Key(s)
    PROVE  NonePends(k)
<1>1. slot \in [Slots -> Record] BY DEF Inv, SlotsOK
<1>2. \A t \in Slots \ {s} : slot'[t] = slot[t] BY <1>1
<1>3. slot'[s].kind = slot[s].kind /\ slot'[s].email = slot[s].email /\ slot'[s].ip = slot[s].ip
  BY <1>1 DEF Record
<1> QED BY <1>2, <1>3 DEF NonePends, Pending, Key

\* A step that moves one slot, not to its EXPIRE, and asks no counter.
LEMMA MovesRest ==
    ASSUME Inv, NEW s \in Slots, Arrive(s) \/ Submit(s) \/ Begin(s) \/ AskEmail(s) \/ Judge(s)
             \/ Work(s) \/ Panic(s) \/ Release(s) \/ Done(s) \/ End(s), NEW k
    PROVE  Rests(k)
<1>1. entry' = entry /\ admitted' = admitted
  BY DEF Arrive, Submit, Begin, AskEmail, Judge, Work, Panic, Release, Done, End
<1>2. slot \in [Slots -> Record] BY DEF Inv, SlotsOK
<1>3. Idle \in Record BY IdleOK
<1>4. slot'[s].at # "expire" /\ \A t \in Slots \ {s} : slot'[t] = slot[t]
  <2>1. CASE Arrive(s)
    <3>1. PICK kind \in config.kinds, e \in config.emails, i \in Addresses :
            slot' = [slot EXCEPT ![s] = [Idle EXCEPT !.at = IF kind = "ip" THEN "submit" ELSE "allow",
                                                     !.kind = kind, !.email = e, !.ip = i]]
      BY <2>1 DEF Arrive
    <3> QED BY <1>2, <1>3, <3>1 DEF Record
  <2>2. CASE Submit(s) \/ Done(s) \/ End(s)
    BY <1>2, <2>2 DEF Submit, Done, End, Goto, Idle, Record
  <2>3. CASE AskEmail(s) BY <1>2, <2>3 DEF AskEmail, Record
  <2>4. CASE Begin(s) \/ Judge(s) \/ Work(s) \/ Panic(s) \/ Release(s)
    BY <1>2, <2>4 DEF Begin, Judge, Work, Panic, Release, Goto, Record
  <2> QED BY <2>1, <2>2, <2>3, <2>4
<1>5. NonePends(k) BY <1>4 DEF NonePends, Pending, Key
<1> QED BY <1>1, <1>5 DEF Rests

\* A slot that has its answer has no EXPIRE to send.
LEMMA AfterAllow == ASSUME NEW s \in Slots PROVE After(s) # "expire"
BY DEF After

\* The counters of the limits: in memory no sweep removes one that counts.
LEMMA SweptOK ==
    ASSUME Inv, TableOK, ~Redis, NEW k \in Limits
    PROVE  Swept(k) = entry[k] /\ (Expired(entry[k]) <=> entry[k].count = 0)
<1>1. k \in Keys /\ entry[k] \in Entry /\ EntryOK(k) BY DEF TableOK, Limits
<1>2. CASE entry[k].count = 0 BY <1>1, <1>2 DEF EntryOK, Swept, Expired, Absent
<1>3. CASE entry[k].count > 0
  <2>1. WindowOf(k) \in Nat BY <1>1, AgesOK
  <2>2. entry[k].left \in 0..WindowOf(k) BY <1>1, <1>3 DEF EntryOK
  <2>3. ~(entry[k].left < 0) /\ entry[k].count # 0 BY <1>1, <1>3, <2>1, <2>2 DEF Entry
  <2> QED BY <2>3 DEF Swept, Expired
<1> QED BY <1>1, <1>2, <1>3 DEF Entry

\* What an answer does to the history.
LEMMA AnswerAdmits ==
    ASSUME Inv, TableOK, NEW s \in Slots, NEW at, NEW k \in Keys, NEW L, L = LimitOf(k), Key(s) = k
    PROVE  /\ Answer(s, at, TRUE) => Admits(k)
           /\ \A x \in Keys : x # k /\ Answer(s, at, TRUE) => admitted'[x] = admitted[x]
<1>1. admitted \in [Keys -> [Ages -> Nat]] /\ 0 \in Ages BY AgesOK DEF TableOK
<1>2. SUFFICES ASSUME Answer(s, at, TRUE)
               PROVE  Admits(k) /\ \A x \in Keys : x # k => admitted'[x] = admitted[x]
  OBVIOUS
<1>3. admitted' = [admitted EXCEPT ![k][0] = AtMost(@ + 1, 2 * LimitOf(k) + 1)] BY <1>2 DEF Answer
<1>4. admitted'[k] = [admitted[k] EXCEPT ![0] = AtMost(@ + 1, Cap(k))] BY <1>1, <1>3 DEF Cap
<1>5. \A x \in Keys : x # k => admitted'[x] = admitted[x] BY <1>1, <1>3
<1>6. /\ admitted[k] \in [Ages -> Nat] /\ admitted'[k][0] = AtMost(admitted[k][0] + 1, Cap(k))
      /\ \A a \in Ages \ {0} : admitted'[k][a] = admitted[k][a]
  BY <1>1, <1>4
<1> QED BY <1>5, <1>6 DEF Admits, OneMore

\* Allow of the limiter in memory, whose sweep removes no entry that counts.
LEMMA InMemoryTurns ==
    ASSUME Inv, TableOK, NEW s \in Slots, InMemory(s, After(s)), NEW x \in Limits
    PROVE  Turn(x)
<1> DEFINE k == Key(s)
           L == LimitOf(k)
<1>1. /\ ~Redis /\ L > 0
      /\ entry' = [y \in Keys |-> IF y = k THEN Counted(k, Swept(k)) ELSE Swept(y)]
      /\ Answer(s, After(s), entry'[k].count <= L)
  BY DEF InMemory
<1>2. x \in Keys /\ entry[x] \in Entry /\ EntryOK(x) BY DEF TableOK, Limits
<1>3. Swept(x) = entry[x] /\ (Expired(entry[x]) <=> entry[x].count = 0) BY <1>1, SweptOK
<1>4. k \in Keys /\ L \in Nat BY KeyIs, LimitsOK
<1>5. CASE x # k
  <2>1. entry'[x] = entry[x] BY <1>1, <1>2, <1>3, <1>5
  <2>2. admitted'[x] = admitted[x]
    BY <1>1, <1>2, <1>4, <1>5, AnswerAdmits DEF Answer
  <2>3. slot' = [slot EXCEPT ![s].at = After(s),
                   ![s].refused = IF entry'[k].count <= L THEN @ ELSE @ \cup {slot[s].kind}]
    BY <1>1 DEF Answer
  <2>4. slot' = [slot EXCEPT ![s].at = After(s), ![s].refused = slot'[s].refused]
    BY <2>3 DEF Inv, SlotsOK, Record
  <2>5. NonePends(x) BY <1>5, <2>4, OwnPends
  <2> QED BY <2>1, <2>2, <2>5 DEF Turn, Rests
<1>6. CASE x = k
  <2>1. entry'[k] = Counted(k, entry[k]) BY <1>1, <1>2, <1>3, <1>6
  <2>3. slot' = [slot EXCEPT ![s].at = After(s),
                   ![s].refused = IF entry'[k].count <= L THEN @ ELSE @ \cup {slot[s].kind}]
    BY <1>1 DEF Answer
  <2>4. slot' = [slot EXCEPT ![s].at = After(s), ![s].refused = slot'[s].refused]
    BY <2>3 DEF Inv, SlotsOK, Record
  <2>5. NonePends(k) BY <2>4, AnswerPends, AfterAllow
  <2>6. IF entry'[k].count <= L THEN Admits(k) ELSE admitted'[k] = admitted[k]
    BY <1>1, <1>4, AnswerAdmits DEF Answer
  <2>7. CASE entry[k].count = 0
    <3>1. entry'[k] = Fresh(k) BY <1>3, <1>6, <2>1, <2>7 DEF Counted
    <3>2. entry'[k].count = 1 /\ entry'[k].expires /\ entry'[k].left = WindowOf(k)
      BY <3>1 DEF Fresh
    <3>3. Admits(k) BY <1>1, <1>4, <2>6, <3>2
    <3> QED BY <1>1, <1>6, <2>5, <2>7, <3>2, <3>3 DEF Turn, Opens
  <2>8. CASE entry[k].count # 0
    <3>1. entry'[k] = [entry[k] EXCEPT !.count = AtMost(@ + 1, L + 1)]
      BY <1>3, <1>6, <2>1, <2>8 DEF Counted
    <3>2. /\ entry[k].count > 0 /\ entry'[k].count = AtMost(entry[k].count + 1, L + 1)
          /\ entry'[k].left = entry[k].left /\ entry'[k].expires = entry[k].expires
      BY <1>2, <1>6, <2>8, <3>1 DEF Entry
    <3> QED BY <1>6, <2>5, <2>6, <3>2 DEF Turn, Counts
  <2> QED BY <2>7, <2>8
<1> QED BY <1>5, <1>6

\* Allow of the limiter in Redis: the hit that opens a window owes an EXPIRE.
LEMMA InRedisTurns ==
    ASSUME Inv, TableOK, NEW s \in Slots, InRedis(s, After(s)), NEW x \in Limits
    PROVE  Turn(x)
<1> DEFINE k == Key(s)
           L == LimitOf(k)
           at == IF entry[k].count = 0 THEN "expire" ELSE After(s)
<1>1. /\ Redis /\ L > 0
      /\ entry' = [entry EXCEPT ![k] = Incremented(k)]
      /\ Answer(s, at, entry'[k].count <= L)
  BY DEF InRedis
<1>2. x \in Keys /\ entry[x] \in Entry /\ EntryOK(x) /\ entry \in [Keys -> Entry]
  BY DEF TableOK, Limits
<1>4. k \in Keys /\ L \in Nat BY KeyIs, LimitsOK
<1>7. slot' = [slot EXCEPT ![s].at = at, ![s].refused = slot'[s].refused]
  <2>1. slot' = [slot EXCEPT ![s].at = at,
                   ![s].refused = IF entry'[k].count <= L THEN @ ELSE @ \cup {slot[s].kind}]
    BY <1>1 DEF Answer
  <2> HIDE DEF at
  <2> QED BY <2>1 DEF Inv, SlotsOK, Record
<1>5. CASE x # k
  <2>1. entry'[x] = entry[x] BY <1>1, <1>2, <1>5
  <2>2. admitted'[x] = admitted[x]
    BY <1>1, <1>2, <1>4, <1>5, AnswerAdmits DEF Answer
  <2>5. NonePends(x) BY <1>5, <1>7, OwnPends
  <2> QED BY <2>1, <2>2, <2>5 DEF Turn, Rests
<1>6. CASE x = k
  <2>1. entry'[k] = [entry[k] EXCEPT !.count = AtMost(@ + 1, L + 1),
                                     !.expires = @ /\ entry[k].count > 0]
    BY <1>1, <1>2, <1>6 DEF Incremented
  <2>2. /\ entry'[k].count = AtMost(entry[k].count + 1, L + 1)
        /\ entry'[k].left = entry[k].left
        /\ entry'[k].expires = (entry[k].expires /\ entry[k].count > 0)
    BY <1>2, <1>6, <2>1 DEF Entry
  <2>6. IF entry'[k].count <= L THEN Admits(k) ELSE admitted'[k] = admitted[k]
    BY <1>1, <1>4, AnswerAdmits DEF Answer
  <2>7. CASE entry[k].count = 0
    <3>1. ~entry'[k].expires
      <4>1. ~(entry[k].count > 0) BY <2>7
      <4> QED BY <2>2, <4>1, Zenon
    <3>2. entry'[k].count = 1 /\ ~entry'[k].expires
      <4>1. entry'[k].count = AtMost(0 + 1, L + 1) BY <2>2, <2>7
      <4>2. AtMost(0 + 1, L + 1) = 1 BY <1>1, <1>4 DEF AtMost
      <4> QED BY <3>1, <4>1, <4>2
    <3>3. Admits(k) BY <1>1, <1>4, <2>6, <3>2
    <3> QED BY <1>1, <1>6, <2>7, <3>2, <3>3 DEF Turn, Opens
  <2>8. CASE entry[k].count # 0
    <3>1. entry[k].count > 0 /\ at = After(s) BY <1>2, <1>6, <2>8 DEF Entry
    <3>2. NonePends(k) BY <1>7, <3>1, AnswerPends, AfterAllow
    <3>3. entry[k].expires \in BOOLEAN BY <1>2, <1>6 DEF Entry
    <3>4. entry'[k].expires = entry[k].expires BY <2>2, <3>1, <3>3
    <3> QED BY <1>6, <2>2, <2>6, <3>1, <3>2, <3>4 DEF Turn, Counts
  <2> QED BY <2>7, <2>8
<1> QED BY <1>5, <1>6

\* Allow without an answer from Redis.
LEMMA UnansweredTurns ==
    ASSUME Inv, TableOK, NEW s \in Slots, Unanswered(s, After(s)), NEW x \in Limits
    PROVE  Turn(x)
<1> DEFINE k == Key(s)
           L == LimitOf(k)
<1>1. /\ Redis /\ "incr" \in config.faults
      /\ entry' = entry \/ entry' = [entry EXCEPT ![k] = Incremented(k)]
      /\ Answer(s, After(s), TRUE)
  BY DEF Unanswered
<1>2. x \in Keys /\ entry[x] \in Entry /\ entry \in [Keys -> Entry] BY DEF TableOK, Limits
<1>4. k \in Keys /\ L \in Nat BY KeyIs, LimitsOK
<1>7. slot' = [slot EXCEPT ![s].at = After(s), ![s].refused = slot[s].refused]
  <2>1. slot' = [slot EXCEPT ![s].at = After(s), ![s].refused = @] BY <1>1 DEF Answer
  <2> QED BY <2>1 DEF Inv, SlotsOK, Record
<1>5. CASE x # k
  <2>1. entry'[x] = entry[x] BY <1>1, <1>2, <1>5
  <2>2. admitted'[x] = admitted[x] BY <1>1, <1>2, <1>4, <1>5, AnswerAdmits
  <2>5. NonePends(x) BY <1>5, <1>7, OwnPends
  <2> QED BY <2>1, <2>2, <2>5 DEF Turn, Rests
<1>6. CASE x = k
  <2>1. NonePends(k) BY <1>7, AnswerPends, AfterAllow
  <2>2. Admits(k) BY <1>1, <1>4, AnswerAdmits
  <2>3. CASE entry' = entry BY <1>1, <1>6, <2>1, <2>2, <2>3 DEF Turn, Slips
  <2>4. CASE entry' = [entry EXCEPT ![k] = Incremented(k)]
    <3>1. entry'[k] = [entry[k] EXCEPT !.count = AtMost(@ + 1, L + 1),
                                       !.expires = @ /\ entry[k].count > 0]
      BY <1>2, <1>6, <2>4 DEF Incremented
    <3>2. /\ entry'[k].count = AtMost(entry[k].count + 1, L + 1)
          /\ entry'[k].left = entry[k].left
          /\ entry'[k].expires = (entry[k].expires /\ entry[k].count > 0)
      BY <1>2, <1>6, <3>1 DEF Entry
    <3> QED BY <1>1, <1>6, <2>1, <2>2, <3>2 DEF Turn, Slips
  <2> QED BY <1>1, <2>3, <2>4
<1> QED BY <1>5, <1>6

\* EXPIRE, sent or lost.
LEMMA ExpireTurns ==
    ASSUME Inv, TableOK, NEW s \in Slots, Expire(s), NEW x \in Limits
    PROVE  Turn(x)
<1> DEFINE k == Key(s)
<1>1. /\ slot[s].at = "expire" /\ Goto(s, After(s)) /\ admitted' = admitted
      /\ \/ entry' = [entry EXCEPT ![k].left = WindowOf(k), ![k].expires = TRUE]
         \/ entry' = entry
  BY DEF Expire
<1>2. x \in Keys /\ entry[x] \in Entry /\ entry \in [Keys -> Entry] BY DEF TableOK, Limits
<1>4. NonePends(x)
  <2>1. slot' = [slot EXCEPT ![s].at = After(s), ![s].refused = slot[s].refused]
    BY <1>1 DEF Goto, Inv, SlotsOK, Record
  <2> QED BY <2>1, AnswerPends, AfterAllow
<1>5. CASE entry'[x] = entry[x] BY <1>1, <1>4, <1>5 DEF Turn, Rests
<1>6. CASE x = k /\ entry' = [entry EXCEPT ![k].left = WindowOf(k), ![k].expires = TRUE]
  <2>1. entry'[k] = [entry[k] EXCEPT !.left = WindowOf(k), !.expires = TRUE] BY <1>2, <1>6
  <2>2. entry'[k].count = entry[k].count /\ entry'[k].left = WindowOf(k) /\ entry'[k].expires
    BY <1>2, <1>6, <2>1 DEF Entry
  <2>3. Pending(k) BY <1>1 DEF Pending
  <2> QED BY <1>1, <1>4, <1>6, <2>2, <2>3 DEF Turn, Dates
<1>7. CASE x # k /\ entry' = [entry EXCEPT ![k].left = WindowOf(k), ![k].expires = TRUE]
  BY <1>2, <1>5, <1>7
<1> QED BY <1>1, <1>5, <1>6, <1>7

\* The clock never ticks between an INCR and its EXPIRE.
LEMMA TickTurns ==
    ASSUME TableOK, Tick, NEW x \in Limits
    PROVE  Turn(x)
<1>1. x \in Keys BY DEF Limits
<1>2. entry'[x] = Older(entry[x]) BY <1>1 DEF Tick
<1>3. admitted'[x] = [a \in Ages |-> IF a = 0 \/ a > WindowOf(x) THEN 0 ELSE admitted[x][a - 1]]
  BY <1>1 DEF Tick
<1>4. ~Pending(x) /\ NonePends(x) BY DEF Tick, Pending, NonePends, Key
<1> QED BY <1>2, <1>3, <1>4 DEF Turn, Ripens

\* Whatever happens, one counter takes one of its turns.
LEMMA StepTurns ==
    ASSUME Inv, TableOK, [Next]_vars, NEW x \in Limits
    PROVE  Turn(x)
<1>1. ASSUME UNCHANGED <<entry, slot, admitted>> PROVE Turn(x)
  BY <1>1 DEF Turn, Rests, NonePends, Pending, Key
<1>2. CASE UNCHANGED vars BY <1>1, <1>2 DEF vars
<1>3. CASE Purged \/ PurgeAgain \/ PurgeEnds \/ Shutdown \/ Stopping
  BY <1>1, <1>3 DEF Purged, PurgeAgain, PurgeEnds, Shutdown, Stopping, StopCleanup, AwaitCleanup, Close
<1>4. ASSUME NEW s \in Slots, Arrive(s) \/ Progress(s) PROVE Turn(x)
  <2>1. CASE Allow(s)
    <3>1. ASSUME NoLimit(s, After(s)) PROVE Turn(x)
      <4>1. slot' = [slot EXCEPT ![s].at = After(s), ![s].refused = slot[s].refused]
        BY <3>1 DEF NoLimit, Goto, Inv, SlotsOK, Record
      <4>2. NonePends(x) BY <4>1, AnswerPends, AfterAllow
      <4> QED BY <3>1, <4>2 DEF NoLimit, Turn, Rests
    <3> QED BY <2>1, <3>1, InMemoryTurns, InRedisTurns, UnansweredTurns DEF Allow
  <2>2. CASE Expire(s) BY <2>2, ExpireTurns
  <2>3. CASE ~Allow(s) /\ ~Expire(s)
    <3>1. Rests(x) BY <1>4, <2>3, MovesRest DEF Progress
    <3> QED BY <3>1 DEF Turn
  <2> QED BY <2>1, <2>2, <2>3
<1> QED BY <1>2, <1>3, <1>4, TickTurns DEF Next

-----------------------------------------------------------------------------
\* The counters and the history keep their form.

\* An answer adds to the history one hit at most.
LEMMA AnswerTyped ==
    ASSUME Inv, admitted \in [Keys -> [Ages -> Nat]], NEW s \in Slots, NEW at, NEW allowed,
           Answer(s, at, allowed)
    PROVE  admitted' \in [Keys -> [Ages -> Nat]]
<1> DEFINE k == Key(s)
<1>1. k \in Keys /\ Cap(k) \in Nat BY KeyIs, LimitsOK
<1>2. 0 \in Ages BY <1>1, AgesOK
<1>3. CASE allowed
  <2>1. admitted' = [admitted EXCEPT ![k][0] = AtMost(@ + 1, Cap(k))]
    BY <1>3 DEF Answer, Cap
  <2>2. AtMost(admitted[k][0] + 1, Cap(k)) \in Nat BY <1>1, <1>2 DEF AtMost
  <2> HIDE DEF k
  <2>3. admitted' = [admitted EXCEPT ![k] = [admitted[k] EXCEPT ![0] = AtMost(admitted[k][0] + 1, Cap(k))]]
    BY <2>1
  <2>4. [admitted[k] EXCEPT ![0] = AtMost(admitted[k][0] + 1, Cap(k))] \in [Ages -> Nat]
    BY <1>1, <1>2, <2>2
  <2> QED BY <1>1, <2>3, <2>4
<1>4. CASE ~allowed BY <1>4 DEF Answer
<1> QED BY <1>3, <1>4

\* Every entry the limiter writes is one.
LEMMA EntriesAre ==
    ASSUME Inv, NEW k \in Keys, NEW e \in Entry
    PROVE  /\ Absent \in Entry /\ Fresh(k) \in Entry /\ Counted(k, e) \in Entry
           /\ [e EXCEPT !.count = AtMost(@ + 1, LimitOf(k) + 1), !.expires = @ /\ e.count > 0] \in Entry
           /\ [e EXCEPT !.left = WindowOf(k), !.expires = TRUE] \in Entry
           /\ Older(e) \in Entry
<1>1. WindowOf(k) \in Nat /\ LimitOf(k) \in Nat BY AgesOK, LimitsOK
<1>2. e.count \in Nat /\ e.left \in Int /\ e.expires \in BOOLEAN BY DEF Entry
<1>3. AtMost(e.count + 1, LimitOf(k) + 1) \in Nat BY <1>1, <1>2 DEF AtMost
<1>4. Absent \in Entry BY DEF Absent, Entry
<1>5. Fresh(k) \in Entry BY <1>1 DEF Fresh, Entry
<1>6. Counted(k, e) \in Entry BY <1>3, <1>5 DEF Counted, Entry
<1>7. [e EXCEPT !.count = AtMost(@ + 1, LimitOf(k) + 1), !.expires = @ /\ e.count > 0] \in Entry
  <2>1. (e.expires /\ e.count > 0) \in BOOLEAN OBVIOUS
  <2> QED BY <1>3, <2>1 DEF Entry
<1>8. [e EXCEPT !.left = WindowOf(k), !.expires = TRUE] \in Entry
  <2>1. ASSUME NEW w \in Int, NEW b \in BOOLEAN
        PROVE  [e EXCEPT !.left = w, !.expires = b] \in Entry
    BY DEF Entry
  <2>2. WindowOf(k) \in Int /\ TRUE \in BOOLEAN BY <1>1
  <2> QED BY <2>1, <2>2, Zenon
<1>9. Older(e) \in Entry
  <2>1. [e EXCEPT !.left = @ - 1] \in Entry BY <1>2 DEF Entry
  <2> QED BY <1>4, <2>1 DEF Older
<1> QED BY <1>4, <1>5, <1>6, <1>7, <1>8, <1>9

\* Every step leaves counters and a history.
LEMMA TableTyped ==
    ASSUME Inv, entry \in [Keys -> Entry], admitted \in [Keys -> [Ages -> Nat]], [Next]_vars
    PROVE  entry' \in [Keys -> Entry] /\ admitted' \in [Keys -> [Ages -> Nat]]
<1>1. CASE UNCHANGED <<entry, admitted>> BY <1>1
<1>2. CASE UNCHANGED vars BY <1>2 DEF vars
<1>3. CASE Purged \/ PurgeAgain \/ PurgeEnds \/ Shutdown \/ Stopping
  BY <1>1, <1>3 DEF Purged, PurgeAgain, PurgeEnds, Shutdown, Stopping, StopCleanup, AwaitCleanup, Close
<1>4. ASSUME NEW s \in Slots, Arrive(s) \/ Progress(s), ~Allow(s), ~Expire(s)
      PROVE  UNCHANGED <<entry, admitted>>
  BY <1>4 DEF Progress, Arrive, Submit, Begin, AskEmail, Judge, Work, Panic, Release, Done, End
<1>5. ASSUME NEW s \in Slots, Expire(s)
      PROVE  entry' \in [Keys -> Entry] /\ admitted' \in [Keys -> [Ages -> Nat]]
  <2> DEFINE k == Key(s)
  <2>1. k \in Keys BY KeyIs
  <2>2. \/ entry' = [entry EXCEPT ![k].left = WindowOf(k), ![k].expires = TRUE]
        \/ entry' = entry
    BY <1>5 DEF Expire
  <2>3. [entry[k] EXCEPT !.left = WindowOf(k), !.expires = TRUE] \in Entry BY <2>1, EntriesAre
  <2>4. entry' = [entry EXCEPT ![k] = [entry[k] EXCEPT !.left = WindowOf(k), !.expires = TRUE]]
        \/ entry' = entry
    BY <2>2 DEF Entry
  <2> HIDE DEF k
  <2> QED BY <1>5, <2>1, <2>3, <2>4 DEF Expire
<1>6. ASSUME NEW s \in Slots, Allow(s)
      PROVE  entry' \in [Keys -> Entry] /\ admitted' \in [Keys -> [Ages -> Nat]]
  <2> DEFINE k == Key(s)
  <2>1. k \in Keys BY KeyIs
  <2>2. Incremented(k) \in Entry BY <2>1, EntriesAre DEF Incremented
  <2>3. CASE NoLimit(s, After(s)) BY <2>3 DEF NoLimit
  <2>4. CASE Unanswered(s, After(s)) BY <2>1, <2>2, <2>4, AnswerTyped DEF Unanswered
  <2>5. CASE InRedis(s, After(s)) BY <2>1, <2>2, <2>5, AnswerTyped DEF InRedis
  <2>6. CASE InMemory(s, After(s))
    <3>1. \A x \in Keys : Swept(x) \in Entry BY <2>1, EntriesAre DEF Swept
    <3>2. Counted(k, Swept(k)) \in Entry BY <2>1, <3>1, EntriesAre
    <3>3. entry' = [x \in Keys |-> IF x = k THEN Counted(k, Swept(k)) ELSE Swept(x)]
      BY <2>6 DEF InMemory
    <3>4. entry' \in [Keys -> Entry] BY <3>1, <3>2, <3>3
    <3> QED BY <2>6, <3>4, AnswerTyped DEF InMemory
  <2> QED BY <1>6, <2>3, <2>4, <2>5, <2>6 DEF Allow
<1>7. CASE Tick
  <2>1. \A k \in Keys : Older(entry[k]) \in Entry BY EntriesAre
  <2>2. entry' \in [Keys -> Entry] BY <1>7, <2>1 DEF Tick
  <2>3. ASSUME NEW k \in Keys, NEW a \in Ages
        PROVE  (IF a = 0 \/ a > WindowOf(k) THEN 0 ELSE admitted[k][a - 1]) \in Nat
    BY AgesOK
  <2>4. admitted' \in [Keys -> [Ages -> Nat]] BY <1>7, <2>3 DEF Tick
  <2> QED BY <2>2, <2>4
<1> QED BY <1>1, <1>2, <1>3, <1>4, <1>5, <1>6, <1>7 DEF Next

\* A counter that counts has a lifetime within its window, or has lost its EXPIRE.
LEMMA EntryStep ==
    ASSUME Inv, TableOK, NEW k \in Limits, Turn(k), UNCHANGED config
    PROVE  EntryOK(k)'
<1> DEFINE W == WindowOf(k)
           L == LimitOf(k)
<1>1. k \in Keys /\ entry[k] \in Entry /\ EntryOK(k) BY DEF TableOK, Limits
<1>2. W \in Nat \ {0} /\ L \in Nat /\ L > 0 BY <1>1, AgesOK, LimitsOK DEF Limits
<1>3. /\ entry[k].count \in Nat /\ entry[k].left \in Int
      /\ entry[k].count = 0 => entry[k] = Absent
      /\ entry[k].count > 0 /\ ~Redis => entry[k].expires /\ entry[k].left \in 0..W
      /\ entry[k].count > 0 /\ Redis /\ entry[k].expires => entry[k].left \in 1..W
      /\ Pending(k) => Redis /\ entry[k].count > 0
  BY <1>1 DEF EntryOK, Entry
<1>4. SUFFICES
        /\ entry'[k].count = 0 => entry'[k] = Absent
        /\ entry'[k].count > 0 /\ ~Redis => entry'[k].expires /\ entry'[k].left \in 0..W
        /\ entry'[k].count > 0 /\ Redis /\ entry'[k].expires => entry'[k].left \in 1..W
        /\ Pending(k)' => Redis /\ entry'[k].count > 0
  BY DEF EntryOK, Redis, WindowOf, Absent
<1> HIDE DEF W, L
<1>5. CASE Rests(k) BY <1>3, <1>5 DEF Rests, NonePends
<1>6. CASE Opens(k) BY <1>2, <1>3, <1>6 DEF Opens, W, NonePends
<1>7. AtMost(entry[k].count + 1, L + 1) > 0 BY <1>2, <1>3 DEF AtMost
<1>8. CASE Counts(k) BY <1>3, <1>7, <1>8 DEF Counts, NonePends, L
<1>9. CASE Slips(k)
  <2>1. Redis /\ NonePends(k) BY <1>9 DEF Slips
  <2>2. CASE entry'[k] = entry[k] BY <1>3, <2>1, <2>2 DEF NonePends
  <2>3. CASE /\ entry'[k].count = AtMost(entry[k].count + 1, L + 1)
             /\ entry'[k].left = entry[k].left
             /\ entry'[k].expires <=> entry[k].expires /\ entry[k].count > 0
    BY <1>3, <1>7, <2>1, <2>3 DEF NonePends
  <2> QED BY <1>9, <2>2, <2>3 DEF Slips, L
<1>10. CASE Dates(k) BY <1>2, <1>3, <1>10 DEF Dates, W
<1>11. CASE Ripens(k)
  <2>1. ~Pending(k)' /\ entry'[k] = Older(entry[k]) BY <1>11 DEF Ripens, NonePends
  <2>2. CASE ~entry[k].expires \/ Expired(entry[k]) BY <1>3, <2>1, <2>2 DEF Older
  <2>3. CASE entry'[k] = Absent BY <2>1, <2>3 DEF Absent
  <2>4. CASE /\ ~(~entry[k].expires \/ Expired(entry[k]))
             /\ entry[k].left # IF Redis THEN 1 ELSE 0
    <3>1. entry'[k] = [entry[k] EXCEPT !.left = @ - 1] BY <2>1, <2>4 DEF Older
    <3>2. /\ entry'[k].count = entry[k].count /\ entry'[k].left = entry[k].left - 1
          /\ entry'[k].expires = entry[k].expires
      BY <1>1, <3>1 DEF Entry
    <3>3. entry[k].count > 0 BY <1>3, <2>4 DEF Absent, Expired
    <3> QED BY <1>2, <1>3, <2>1, <2>4, <3>2, <3>3
  <2> QED BY <2>1, <2>2, <2>3, <2>4 DEF Older
<1> QED BY <1>5, <1>6, <1>8, <1>9, <1>10, <1>11 DEF Turn

-----------------------------------------------------------------------------
\* How many hits a counter has let through since it began to count, b units ago,
\* and before that, within a window.

Past(k, b) == {a \in 0..WindowOf(k) : a <= b}
Earlier(k, b) == {a \in 0..WindowOf(k) : a > b}
Young(k, b) == Cardinality(Spent(admitted[k], Cap(k), Past(k, b)))
Old(k, b) == Cardinality(Spent(admitted[k], Cap(k), Earlier(k, b)))

Since(k, b) ==
    /\ entry[k].count = 0 \/ Pending(k) => b = 0
    /\ entry[k].count > 0 /\ entry[k].expires => b + entry[k].left = WindowOf(k)
UpperAt(k, b) ==
    /\ Since(k, b)
    /\ Young(k, b) <= AtMost(entry[k].count, LimitOf(k)) /\ Old(k, b) <= LimitOf(k)
LowerAt(k, b) == Since(k, b) /\ Young(k, b) >= AtMost(entry[k].count, LimitOf(k))

\* No more than the limit in this window and in those before it.
Upper == "incr" \notin config.faults => \A k \in Limits : \E b \in Nat : UpperAt(k, b)
\* No less than the counter says, unless it has lost its EXPIRE.
Lower == \A k \in Limits : entry[k].count > 0 /\ ~Stuck(k) => \E b \in Nat : LowerAt(k, b)

\* The ages on either side of b are finitely many of the history's.
LEMMA AgesIn ==
    ASSUME NEW k \in Keys, NEW b
    PROVE  /\ Past(k, b) \in SUBSET Ages /\ IsFiniteSet(Past(k, b))
           /\ Earlier(k, b) \in SUBSET Ages /\ IsFiniteSet(Earlier(k, b))
           /\ IsFiniteSet(0..WindowOf(k))
<1>1. WindowOf(k) \in Int /\ 0 \in Int /\ 0..WindowOf(k) \subseteq Ages BY AgesOK
<1>2. IsFiniteSet(0..WindowOf(k)) BY <1>1, FS_Interval
<1>3. Past(k, b) \in SUBSET (0..WindowOf(k)) /\ Earlier(k, b) \in SUBSET (0..WindowOf(k))
  BY DEF Past, Earlier
<1> QED BY <1>1, <1>2, <1>3, FS_Subset

\* A unit of time later every hit of the window is a unit older.
LEMMA Aged ==
    ASSUME TableOK, NEW k \in Keys, NEW n \in Nat,
           admitted'[k] = [a \in Ages |-> IF a = 0 \/ a > WindowOf(k) THEN 0 ELSE admitted[k][a - 1]],
           NEW A \in SUBSET Ages, IsFiniteSet(A), NEW B \in SUBSET (0..WindowOf(k))
    PROVE  /\ (\A b \in B : b > 0 => b - 1 \in A)
                => Cardinality(Spent(admitted'[k], n, B)) <= Cardinality(Spent(admitted[k], n, A))
           /\ (\A b \in B : b + 1 \in A /\ b + 1 <= WindowOf(k))
                => Cardinality(Spent(admitted[k], n, B)) <= Cardinality(Spent(admitted'[k], n, A))
<1> DEFINE F == admitted[k]
           G == admitted'[k]
           W == WindowOf(k)
<1>1. W \in Nat /\ Ages \subseteq Nat /\ 0..W \subseteq Ages /\ F \in [Ages -> Nat]
  BY AgesOK DEF TableOK
<1>2. \A a \in Ages : G[a] = IF a = 0 \/ a > W THEN 0 ELSE F[a - 1] OBVIOUS
<1> HIDE DEF F, G, W
<1>3. B \subseteq Int /\ B \subseteq 0..W BY <1>1 DEF W
<1>4. ASSUME \A b \in B : b > 0 => b - 1 \in A
      PROVE  Cardinality(Spent(G, n, B)) <= Cardinality(Spent(F, n, A))
  <2>1. ASSUME NEW b \in B
        PROVE  G[b] \in Nat /\ (G[b] > 0 => b + (-1) \in A /\ F[b + (-1)] = G[b])
    <3>1. b \in Ages /\ b <= W /\ b \in Nat BY <1>1, <1>3
    <3>2. CASE b = 0 BY <1>2, <3>1, <3>2
    <3>3. CASE b > 0
      <4>1. b - 1 \in A /\ b - 1 \in Ages BY <1>4, <3>3
      <4>2. G[b] = F[b - 1] /\ F[b - 1] \in Nat BY <1>1, <1>2, <3>1, <3>3, <4>1
      <4>3. b + (-1) = b - 1 BY <3>1
      <4> QED BY <4>1, <4>2, <4>3
    <3> QED BY <3>1, <3>2, <3>3
  <2>2. -1 \in Int OBVIOUS
  <2> QED BY <1>3, <2>1, <2>2, SpentShift
<1>5. ASSUME \A b \in B : b + 1 \in A /\ b + 1 <= W
      PROVE  Cardinality(Spent(F, n, B)) <= Cardinality(Spent(G, n, A))
  <2>1. ASSUME NEW b \in B
        PROVE  F[b] \in Nat /\ (F[b] > 0 => b + 1 \in A /\ G[b + 1] = F[b])
    <3>1. b \in Ages /\ b <= W /\ b \in Nat BY <1>1, <1>3
    <3>2. b + 1 \in A /\ b + 1 <= W /\ b + 1 \in Ages BY <1>5
    <3>3. (b + 1) - 1 = b /\ b + 1 # 0 /\ ~(b + 1 > W) BY <1>1, <3>1, <3>2
    <3>4. G[b + 1] = F[b] BY <1>2, <3>2, <3>3
    <3> QED BY <1>1, <3>1, <3>2, <3>4
  <2>2. 1 \in Int OBVIOUS
  <2> QED BY <1>3, <2>1, <2>2, SpentShift
<1> QED BY <1>4, <1>5 DEF F, G, W

\* One more hit is one of this window's.
LEMMA Admitted ==
    ASSUME Inv, TableOK, NEW k \in Keys, NEW b \in Nat, Admits(k), UNCHANGED config
    PROVE  /\ Young(k, b) \in Nat /\ Old(k, b) \in Nat /\ Young(k, b)' \in Nat
           /\ Young(k, b)' <= Young(k, b) + 1 /\ Young(k, b) <= Young(k, b)'
           /\ Young(k, b)' >= Young(k, b) + 1 \/ Young(k, b)' >= Cap(k)
           /\ Old(k, b)' = Old(k, b)
<1> DEFINE A == Past(k, b)
           E == Earlier(k, b)
           n == Cap(k)
<1>1. n \in Nat /\ Cap(k)' = n BY LimitsOK DEF Cap, LimitOf
<1>2. A \in SUBSET Nat /\ IsFiniteSet(A) /\ A \subseteq Ages /\ IsFiniteSet(E) /\ E \subseteq Ages
      /\ E \in SUBSET Nat
  BY AgesIn, AgesOK
<1>3. 0 \in A /\ 0 \notin E
  <2>1. WindowOf(k) \in Nat BY AgesOK
  <2> QED BY <2>1 DEF Past, Earlier
<1>4. admitted[k] \in [Ages -> Nat] BY DEF TableOK
<1>5. OneMore(admitted[k], admitted'[k], n) BY DEF Admits
<1>6. DOMAIN admitted[k] = Ages /\ \A a \in Ages : admitted[k][a] \in Nat BY <1>4
<1>7. /\ Young(k, b) = Cardinality(Spent(admitted[k], n, A))
      /\ Young(k, b)' = Cardinality(Spent(admitted'[k], n, A))
      /\ Old(k, b) = Cardinality(Spent(admitted[k], n, E))
      /\ Old(k, b)' = Cardinality(Spent(admitted'[k], n, E))
  BY <1>1 DEF Young, Old, Past, Earlier, WindowOf
<1> HIDE DEF A, E, n
<1>8. /\ Young(k, b) \in Nat /\ Old(k, b) \in Nat /\ Young(k, b)' \in Nat
  BY <1>1, <1>2, <1>7, SpentFinite
<1>9. \A a \in A : admitted[k][a] \in Nat BY <1>2, <1>6
<1>10. A \subseteq DOMAIN admitted[k] /\ E \subseteq DOMAIN admitted[k] BY <1>2, <1>6
<1>11. \A a \in E : admitted[k][a] \in Nat BY <1>2, <1>6
<1>12. Spent(admitted'[k], n, E) = Spent(admitted[k], n, E)
  BY <1>1, <1>2, <1>3, <1>5, <1>10, <1>11, SpentMore
<1>13. /\ Cardinality(Spent(admitted'[k], n, A)) <= Cardinality(Spent(admitted[k], n, A)) + 1
       /\ Cardinality(Spent(admitted[k], n, A)) <= Cardinality(Spent(admitted'[k], n, A))
       /\ \/ Cardinality(Spent(admitted'[k], n, A)) >= Cardinality(Spent(admitted[k], n, A)) + 1
          \/ Cardinality(Spent(admitted'[k], n, A)) >= n
  BY <1>1, <1>2, <1>3, <1>5, <1>9, <1>10, SpentMore
<1> QED BY <1>7, <1>8, <1>12, <1>13 DEF n

\* Hits are numbers, and change only with the history.
LEMMA HitsNat ==
    ASSUME Inv, NEW k \in Keys, NEW b
    PROVE  /\ Young(k, b) \in Nat /\ Old(k, b) \in Nat
           /\ UNCHANGED config /\ admitted'[k] = admitted[k]
                => Young(k, b)' = Young(k, b) /\ Old(k, b)' = Old(k, b)
<1>1. Cap(k) \in Nat /\ IsFiniteSet(Past(k, b)) /\ IsFiniteSet(Earlier(k, b)) BY LimitsOK, AgesIn
<1>2. Young(k, b) \in Nat /\ Old(k, b) \in Nat BY <1>1, SpentFinite DEF Young, Old
<1>3. ASSUME UNCHANGED config, admitted'[k] = admitted[k]
      PROVE  Young(k, b)' = Young(k, b) /\ Old(k, b)' = Old(k, b)
  BY <1>3 DEF Young, Old, Past, Earlier, WindowOf, Cap, LimitOf
<1> QED BY <1>2, <1>3

\* A unit of time later what was young is, and what was old is or is forgotten.
LEMMA AgedHits ==
    ASSUME Inv, TableOK, NEW k \in Keys, NEW b \in Nat, Ripens(k), UNCHANGED config
    PROVE  /\ Young(k, b + 1)' <= Young(k, b) /\ Old(k, b + 1)' <= Old(k, b)
           /\ b + 1 <= WindowOf(k) => Young(k, b) <= Young(k, b + 1)'
           /\ Young(k, 0)' = 0
           /\ b >= WindowOf(k) - 1 => Old(k, 0)' <= Young(k, b)
           /\ Old(k, 0)' <= Young(k, b) + Old(k, b)
<1> DEFINE n == Cap(k)
           W == WindowOf(k)
           F == admitted[k]
           G == admitted'[k]
<1>1. n \in Nat /\ Cap(k)' = n /\ W \in Nat BY LimitsOK, AgesOK DEF Cap, LimitOf
<1>2. G = [a \in Ages |-> IF a = 0 \/ a > W THEN 0 ELSE F[a - 1]] BY DEF Ripens
<1>3. /\ Young(k, b + 1)' = Cardinality(Spent(G, n, Past(k, b + 1)))
      /\ Young(k, 0)' = Cardinality(Spent(G, n, Past(k, 0)))
      /\ Old(k, b + 1)' = Cardinality(Spent(G, n, Earlier(k, b + 1)))
      /\ Old(k, 0)' = Cardinality(Spent(G, n, Earlier(k, 0)))
      /\ Young(k, b) = Cardinality(Spent(F, n, Past(k, b)))
      /\ Old(k, b) = Cardinality(Spent(F, n, Earlier(k, b)))
  BY <1>1 DEF Young, Old, Past, Earlier, WindowOf
<1>4. /\ \A c : Past(k, c) \in SUBSET Ages /\ IsFiniteSet(Past(k, c))
      /\ \A c : Earlier(k, c) \in SUBSET Ages /\ IsFiniteSet(Earlier(k, c))
      /\ IsFiniteSet(0..W) /\ 0..W \in SUBSET Ages
  BY AgesIn, AgesOK
<1>5. /\ \A c : Past(k, c) \in SUBSET (0..W) /\ Earlier(k, c) \in SUBSET (0..W)
      /\ \A c : \A a \in 0..W : (a \in Past(k, c) <=> a <= c) /\ (a \in Earlier(k, c) <=> a > c)
  BY DEF Past, Earlier
<1>6. ASSUME NEW A \in SUBSET Ages, IsFiniteSet(A), NEW B \in SUBSET (0..W)
      PROVE  /\ (\A c \in B : c > 0 => c - 1 \in A)
                   => Cardinality(Spent(G, n, B)) <= Cardinality(Spent(F, n, A))
             /\ (\A c \in B : c + 1 \in A /\ c + 1 <= W)
                   => Cardinality(Spent(F, n, B)) <= Cardinality(Spent(G, n, A))
  BY <1>1, <1>2, <1>6, Aged
<1> HIDE DEF n, W, F, G
<1>7. \A a \in 0..W : a > 0 => a - 1 \in 0..W BY <1>1
<1>8. Young(k, b + 1)' <= Young(k, b)
  <2>1. \A c \in Past(k, b + 1) : c > 0 => c - 1 \in Past(k, b)
    <3>1. ASSUME NEW c \in Past(k, b + 1), c > 0 PROVE c - 1 \in Past(k, b)
      <4>1. c \in 0..W /\ c <= b + 1 BY <1>5
      <4>2. c - 1 \in 0..W /\ c - 1 <= b BY <1>1, <1>7, <3>1, <4>1
      <4> QED BY <1>5, <4>2
    <3> QED BY <3>1
  <2> QED BY <1>3, <1>4, <1>5, <1>6, <2>1
<1>9. Old(k, b + 1)' <= Old(k, b)
  <2>1. \A c \in Earlier(k, b + 1) : c > 0 => c - 1 \in Earlier(k, b)
    <3>1. ASSUME NEW c \in Earlier(k, b + 1), c > 0 PROVE c - 1 \in Earlier(k, b)
      <4>1. c \in 0..W /\ c > b + 1 BY <1>5
      <4>2. c - 1 \in 0..W /\ c - 1 > b BY <1>1, <1>7, <3>1, <4>1
      <4> QED BY <1>5, <4>2
    <3> QED BY <3>1
  <2> QED BY <1>3, <1>4, <1>5, <1>6, <2>1
<1>10. ASSUME b + 1 <= W PROVE Young(k, b) <= Young(k, b + 1)'
  <2>1. \A c \in Past(k, b) : c + 1 \in Past(k, b + 1) /\ c + 1 <= W
    <3>1. ASSUME NEW c \in Past(k, b) PROVE c + 1 \in Past(k, b + 1) /\ c + 1 <= W
      <4>1. c \in 0..W /\ c <= b BY <1>5
      <4>2. c + 1 \in 0..W /\ c + 1 <= b + 1 BY <1>1, <1>10, <4>1
      <4> QED BY <1>1, <1>5, <4>2
    <3> QED BY <3>1
  <2> QED BY <1>3, <1>4, <1>5, <1>6, <2>1
<1>11. Young(k, 0)' = 0
  <2>1. \A c \in Past(k, 0) : c = 0
    <3>1. ASSUME NEW c \in Past(k, 0) PROVE c = 0
      <4>1. c \in 0..W /\ c <= 0 BY <1>5
      <4> QED BY <1>1, <4>1
    <3> QED BY <3>1
  <2>2. 0 \in Ages /\ G[0] = 0 BY <1>2, AgesOK
  <2>3. Spent(G, n, Past(k, 0)) = {}
    <3>1. ASSUME NEW h \in Spent(G, n, Past(k, 0)) PROVE FALSE
      <4>1. h[1] \in Past(k, 0) /\ h[2] \in 1..n /\ h[2] <= G[h[1]] BY DEF Spent
      <4> QED BY <1>1, <2>1, <2>2, <4>1
    <3> QED BY <3>1
  <2> QED BY <1>3, <2>3, FS_EmptySet
<1>12. ASSUME b >= W - 1 PROVE Old(k, 0)' <= Young(k, b)
  <2>1. \A c \in Earlier(k, 0) : c > 0 => c - 1 \in Past(k, b)
    <3>1. ASSUME NEW c \in Earlier(k, 0), c > 0 PROVE c - 1 \in Past(k, b)
      <4>1. c \in 0..W BY <1>5
      <4>2. c - 1 \in 0..W /\ c - 1 <= b BY <1>1, <1>7, <1>12, <3>1, <4>1
      <4> QED BY <1>5, <4>2
    <3> QED BY <3>1
  <2> QED BY <1>3, <1>4, <1>5, <1>6, <2>1
<1>13. Old(k, 0)' <= Young(k, b) + Old(k, b)
  <2>1. \A c \in Earlier(k, 0) : c > 0 => c - 1 \in 0..W BY <1>5, <1>7
  <2>2. Old(k, 0)' <= Cardinality(Spent(F, n, 0..W)) BY <1>3, <1>4, <1>5, <1>6, <2>1
  <2>3. 0..W = Past(k, b) \cup Earlier(k, b) BY <1>1 DEF Past, Earlier, W
  <2>4. Cardinality(Spent(F, n, 0..W)) <= Young(k, b) + Old(k, b)
    BY <1>1, <1>3, <1>4, <2>3, SpentSum
  <2>5. Cardinality(Spent(F, n, 0..W)) \in Nat /\ Young(k, b) \in Nat /\ Old(k, b) \in Nat
        /\ Old(k, 0)' \in Nat
    BY <1>1, <1>3, <1>4, SpentFinite
  <2> QED BY <2>2, <2>4, <2>5
<1> QED BY <1>8, <1>9, <1>10, <1>11, <1>12, <1>13 DEF W

\* What the proofs about one counter know of it.
LEMMA OfCounter ==
    ASSUME Inv, TableOK, NEW k \in Limits
    PROVE  /\ k \in Keys /\ WindowOf(k) \in Nat /\ WindowOf(k) > 0
           /\ LimitOf(k) \in Nat /\ LimitOf(k) > 0 /\ Cap(k) = 2 * LimitOf(k) + 1
           /\ entry[k] \in Entry /\ entry[k].count \in Nat /\ entry[k].left \in Int
           /\ entry[k].count = 0 => entry[k] = Absent
           /\ entry[k].count > 0 /\ entry[k].expires =>
                /\ entry[k].left \in Nat /\ entry[k].left <= WindowOf(k)
                /\ Redis => entry[k].left > 0
           /\ Pending(k) => entry[k].count > 0
<1>1. k \in Keys /\ LimitOf(k) > 0 /\ entry[k] \in Entry /\ EntryOK(k) BY DEF Limits, TableOK
<1>2. WindowOf(k) \in Nat \ {0} /\ LimitOf(k) \in Nat BY <1>1, AgesOK, LimitsOK
<1> QED BY <1>1, <1>2 DEF EntryOK, Entry, Cap

\* What becomes of an entry as time passes.
LEMMA Ageing ==
    ASSUME Inv, TableOK, NEW k \in Limits, Ripens(k)
    PROVE  \/ entry[k].count = 0 /\ entry'[k] = Absent
           \/ entry[k].count > 0 /\ ~entry[k].expires /\ entry'[k] = entry[k]
           \/ entry[k].count > 0 /\ entry[k].expires /\ entry[k].left <= 1 /\ entry'[k] = Absent
           \/ /\ entry[k].count > 0 /\ entry[k].expires /\ entry[k].left >= 1
              /\ entry'[k].count = entry[k].count /\ entry'[k].expires
              /\ entry'[k].left = entry[k].left - 1
<1> DEFINE e == entry[k]
<1>1. /\ e \in Entry /\ e.count \in Nat /\ e.left \in Int
      /\ e.count = 0 => e = Absent
      /\ e.count > 0 /\ e.expires => e.left \in Nat /\ (Redis => e.left > 0)
  BY OfCounter
<1>2. entry'[k] = Older(e) BY DEF Ripens
<1>3. CASE e.count = 0 BY <1>1, <1>2, <1>3 DEF Older, Absent, Expired
<1>4. CASE e.count > 0 /\ ~e.expires BY <1>2, <1>4 DEF Older
<1>5. CASE e.count > 0 /\ e.expires
  <2>1. ~Expired(e) BY <1>1, <1>5 DEF Expired
  <2>2. CASE e.left = IF Redis THEN 1 ELSE 0
    <3>1. entry'[k] = Absent BY <1>2, <1>5, <2>1, <2>2 DEF Older
    <3>2. e.left <= 1 BY <2>2
    <3> QED BY <1>5, <3>1, <3>2
  <2>3. CASE e.left # IF Redis THEN 1 ELSE 0
    <3>1. entry'[k] = [e EXCEPT !.left = @ - 1] BY <1>2, <1>5, <2>1, <2>3 DEF Older
    <3>2. entry'[k].count = e.count /\ entry'[k].left = e.left - 1 /\ entry'[k].expires = e.expires
      BY <1>1, <3>1 DEF Entry
    <3>3. e.left >= 1 BY <1>1, <1>5, <2>3
    <3> QED BY <1>5, <3>2, <3>3
  <2> QED BY <2>2, <2>3
<1> QED BY <1>1, <1>3, <1>4, <1>5

\* No turn lets a counter through more than its limit since it began to count,
\* or leaves more than the limit behind it.
LEMMA UpperStep ==
    ASSUME Inv, TableOK, NEW k \in Limits, Turn(k), UNCHANGED config, "incr" \notin config.faults,
           NEW b \in Nat, UpperAt(k, b)
    PROVE  \E c \in Nat : UpperAt(k, c)'
<1> DEFINE L == LimitOf(k)
           W == WindowOf(k)
           e == entry[k]
           f == entry'[k]
<1>1. /\ k \in Keys /\ W \in Nat /\ W > 0 /\ L \in Nat /\ L > 0 /\ Cap(k) = 2 * L + 1
      /\ e \in Entry /\ e.count \in Nat /\ e.left \in Int /\ (e.count = 0 => e = Absent)
      /\ e.count > 0 /\ e.expires => e.left \in Nat /\ e.left <= W
      /\ Pending(k) => e.count > 0
  BY OfCounter
<1>2. /\ Young(k, b) \in Nat /\ Old(k, b) \in Nat
      /\ admitted'[k] = admitted[k] => Young(k, b)' = Young(k, b) /\ Old(k, b)' = Old(k, b)
  BY <1>1, HitsNat
<1>3. /\ e.count = 0 \/ Pending(k) => b = 0
      /\ e.count > 0 /\ e.expires => b + e.left = W
      /\ Young(k, b) <= AtMost(e.count, L) /\ Old(k, b) <= L
  BY DEF UpperAt, Since
<1>4. ASSUME NEW c \in Nat,
             f.count = 0 \/ Pending(k)' => c = 0, f.count > 0 /\ f.expires => c + f.left = W,
             Young(k, c)' <= AtMost(f.count, L), Old(k, c)' <= L
      PROVE  \E d \in Nat : UpperAt(k, d)'
  <2>1. UpperAt(k, c)' BY <1>4 DEF UpperAt, Since, WindowOf, LimitOf
  <2> QED BY <2>1
<1> HIDE DEF L, W, e, f
<1>5. CASE Rests(k)
  <2>1. f = e /\ (Pending(k)' => Pending(k)) BY <1>5 DEF Rests, NonePends, e, f
  <2>2. Young(k, b)' = Young(k, b) /\ Old(k, b)' = Old(k, b) BY <1>2, <1>5 DEF Rests
  <2> QED BY <1>3, <1>4, <2>1, <2>2
<1>6. CASE Opens(k)
  <2>1. /\ e.count = 0 /\ f.count = 1 /\ Admits(k)
        /\ Redis => ~f.expires
        /\ ~Redis => f.expires /\ f.left = W
    BY <1>6 DEF Opens, e, f, W
  <2>2. b = 0 BY <1>3, <2>1
  <2>3. Young(k, b)' <= Young(k, b) + 1 /\ Young(k, b)' \in Nat /\ Old(k, b)' = Old(k, b)
    BY <1>1, <2>1, Admitted
  <2>4. Young(k, b) <= 0 BY <1>1, <1>2, <1>3, <2>1 DEF AtMost
  <2>5. Young(k, b)' <= AtMost(f.count, L) BY <1>1, <1>2, <2>1, <2>3, <2>4 DEF AtMost
  <2>6. f.count > 0 /\ f.expires => b + f.left = W BY <1>1, <2>1, <2>2
  <2> QED BY <1>3, <1>4, <2>2, <2>3, <2>5, <2>6
<1>7. CASE Counts(k)
  <2>1. /\ e.count > 0 /\ f.count = AtMost(e.count + 1, L + 1)
        /\ f.left = e.left /\ f.expires = e.expires /\ (Pending(k)' => Pending(k))
        /\ IF f.count <= L THEN Admits(k) ELSE admitted'[k] = admitted[k]
    BY <1>7 DEF Counts, NonePends, e, f, L
  <2>2. f.count > 0 /\ f.count \in Nat BY <1>1, <2>1 DEF AtMost
  <2>3. Young(k, b)' <= AtMost(f.count, L) /\ Old(k, b)' <= L
    <3>1. CASE f.count <= L
      <4>1. Young(k, b)' <= Young(k, b) + 1 /\ Young(k, b)' \in Nat /\ Old(k, b)' = Old(k, b)
        BY <1>1, <2>1, <3>1, Admitted
      <4>2. f.count = e.count + 1 BY <1>1, <2>1, <3>1 DEF AtMost
      <4>3. Young(k, b)' <= AtMost(f.count, L)
        BY <1>1, <1>2, <1>3, <3>1, <4>1, <4>2 DEF AtMost
      <4> QED BY <1>3, <4>1, <4>3
    <3>2. CASE ~(f.count <= L)
      <4>1. Young(k, b)' = Young(k, b) /\ Old(k, b)' = Old(k, b) BY <1>2, <2>1, <3>2
      <4>2. Young(k, b) <= L BY <1>1, <1>2, <1>3 DEF AtMost
      <4>3. AtMost(f.count, L) = L BY <1>1, <2>2, <3>2 DEF AtMost
      <4> QED BY <1>3, <4>1, <4>2, <4>3
    <3> QED BY <3>1, <3>2
  <2> QED BY <1>3, <1>4, <2>1, <2>2, <2>3
<1>8. ~Slips(k) BY DEF Slips
<1>9. CASE Dates(k)
  <2>1. /\ Pending(k) /\ f.count = e.count /\ f.left = W /\ f.expires
        /\ admitted'[k] = admitted[k]
    BY <1>9 DEF Dates, e, f, W
  <2>2. b = 0 BY <1>3, <2>1
  <2>3. Young(k, b)' = Young(k, b) /\ Old(k, b)' = Old(k, b) BY <1>2, <2>1
  <2>4. b + f.left = W BY <1>1, <2>1, <2>2
  <2> QED BY <1>3, <1>4, <2>1, <2>2, <2>3, <2>4
<1>10. CASE Ripens(k)
  <2>1. ~Pending(k)' BY <1>10 DEF Ripens, NonePends
  <2>2. /\ Young(k, b + 1)' <= Young(k, b) /\ Old(k, b + 1)' <= Old(k, b)
        /\ Young(k, 0)' = 0
        /\ b >= W - 1 => Old(k, 0)' <= Young(k, b)
        /\ Old(k, 0)' <= Young(k, b) + Old(k, b)
    BY <1>1, <1>10, AgedHits DEF W
  <2>3. /\ Cap(k)' \in Nat /\ Young(k, b + 1)' \in Nat /\ Old(k, b + 1)' \in Nat /\ Old(k, 0)' \in Nat
    <3>1. Cap(k) \in Nat /\ Cap(k)' = Cap(k) BY <1>1 DEF Cap, LimitOf
    <3>2. \A c : /\ IsFiniteSet(Past(k, c)) /\ IsFiniteSet(Earlier(k, c))
                 /\ Past(k, c)' = Past(k, c) /\ Earlier(k, c)' = Earlier(k, c)
      BY <1>1, AgesIn DEF Past, Earlier, WindowOf
    <3>3. \A c : Young(k, c)' = Cardinality(Spent(admitted'[k], Cap(k), Past(k, c)))
                 /\ Old(k, c)' = Cardinality(Spent(admitted'[k], Cap(k), Earlier(k, c)))
      BY <3>1 DEF Young, Old, Past, Earlier, WindowOf
    <3> QED BY <3>1, <3>2, <3>3, SpentFinite
  <2>4. ASSUME f = Absent, Old(k, 0)' <= L PROVE \E d \in Nat : UpperAt(k, d)'
    <3>1. f.count = 0 BY <2>4 DEF Absent
    <3>2. Young(k, 0)' <= AtMost(f.count, L) BY <1>1, <2>2, <3>1 DEF AtMost
    <3> QED BY <1>4, <2>4, <3>1, <3>2
  <2>5. CASE e.count = 0 /\ f = Absent
    <3>1. Young(k, b) <= 0 BY <1>1, <1>2, <1>3, <2>5 DEF AtMost
    <3>2. Old(k, 0)' <= L BY <1>1, <1>2, <1>3, <2>2, <2>3, <3>1
    <3> QED BY <2>4, <2>5, <3>2
  <2>6. CASE e.count > 0 /\ e.expires /\ e.left <= 1 /\ f = Absent
    <3>1. b >= W - 1 BY <1>1, <1>3, <2>6
    <3>2. Young(k, b) <= L BY <1>1, <1>2, <1>3 DEF AtMost
    <3>3. Old(k, 0)' <= L BY <1>1, <1>2, <2>2, <2>3, <3>1, <3>2
    <3> QED BY <2>4, <2>6, <3>3
  <2>7. Young(k, b + 1)' <= AtMost(e.count, L) /\ Old(k, b + 1)' <= L
    <3>1. AtMost(e.count, L) \in Nat BY <1>1 DEF AtMost
    <3> QED BY <1>1, <1>2, <1>3, <2>2, <2>3, <3>1
  <2>8. CASE e.count > 0 /\ ~e.expires /\ f = e BY <1>4, <2>1, <2>7, <2>8
  <2>9. CASE /\ e.count > 0 /\ e.expires /\ e.left >= 1
             /\ f.count = e.count /\ f.expires /\ f.left = e.left - 1
    <3>1. (b + 1) + f.left = W BY <1>1, <1>3, <2>9
    <3>2. f.count # 0 BY <2>9
    <3> QED BY <1>4, <2>1, <2>7, <2>9, <3>1, <3>2
  <2> QED BY <1>10, <2>5, <2>6, <2>8, <2>9, Ageing DEF e, f
<1> QED BY <1>5, <1>6, <1>7, <1>8, <1>9, <1>10 DEF Turn

\* Stuck, by what a slot has still to send.
LEMMA StuckIs ==
    ASSUME NEW k
    PROVE  Stuck(k) <=> entry[k].count > 0 /\ ~entry[k].expires /\ ~Pending(k)
BY DEF Stuck, Pending

\* Once it counts, an entry whose EXPIRE is lost stays so.
LEMMA StillStuck ==
    ASSUME Inv, TableOK, NEW k \in Limits, Turn(k), Stuck(k), entry'[k].count > 0
    PROVE  Stuck(k)'
<1>1. entry[k].count > 0 /\ ~entry[k].expires /\ ~Pending(k) BY StuckIs
<1>2. SUFFICES ~entry'[k].expires /\ ~Pending(k)' BY DEF Stuck, Pending
<1>3. CASE Rests(k) BY <1>1, <1>3 DEF Rests, NonePends
<1>4. CASE Counts(k) BY <1>1, <1>4 DEF Counts, NonePends
<1>5. CASE Slips(k) BY <1>1, <1>5 DEF Slips, NonePends
<1>6. CASE Ripens(k) BY <1>1, <1>6 DEF Ripens, NonePends, Older
<1>7. ~Opens(k) /\ ~Dates(k)
  <2>1. entry[k].count # 0 BY <1>1
  <2> QED BY <1>1, <2>1 DEF Opens, Dates
<1> QED BY <1>3, <1>4, <1>5, <1>6, <1>7 DEF Turn

\* No turn makes a counter say more than it has let through since it began.
LEMMA LowerStep ==
    ASSUME Inv, TableOK, NEW k \in Limits, Turn(k), UNCHANGED config,
           entry[k].count > 0 /\ ~Stuck(k) => \E b \in Nat : LowerAt(k, b),
           entry'[k].count > 0, ~Stuck(k)'
    PROVE  \E c \in Nat : LowerAt(k, c)'
<1> DEFINE L == LimitOf(k)
           W == WindowOf(k)
           e == entry[k]
           f == entry'[k]
<1>1. /\ k \in Keys /\ W \in Nat /\ W > 0 /\ L \in Nat /\ L > 0 /\ Cap(k) = 2 * L + 1
      /\ e \in Entry /\ e.count \in Nat /\ e.left \in Int /\ (e.count = 0 => e = Absent)
      /\ e.count > 0 /\ e.expires => e.left \in Nat /\ e.left <= W
      /\ Pending(k) => e.count > 0
  BY OfCounter
<1>2. ~Stuck(k) BY StillStuck
<1>3. ASSUME NEW c \in Nat,
             f.count = 0 \/ Pending(k)' => c = 0, f.count > 0 /\ f.expires => c + f.left = W,
             Young(k, c)' >= AtMost(f.count, L)
      PROVE  \E d \in Nat : LowerAt(k, d)'
  <2>1. LowerAt(k, c)' BY <1>3 DEF LowerAt, Since, WindowOf, LimitOf
  <2> QED BY <2>1
<1> HIDE DEF L, W, e, f
<1>4. CASE Opens(k)
  <2>1. /\ e.count = 0 /\ f.count = 1 /\ Admits(k)
        /\ Redis => ~f.expires
        /\ ~Redis => f.expires /\ f.left = W
    BY <1>4 DEF Opens, e, f, W
  <2>2. 0 \in Nat /\ Young(k, 0) \in Nat /\ Young(k, 0)' \in Nat
        /\ (Young(k, 0)' >= Young(k, 0) + 1 \/ Young(k, 0)' >= Cap(k))
    BY <1>1, <2>1, Admitted
  <2>3. Young(k, 0)' >= AtMost(f.count, L) BY <1>1, <2>1, <2>2 DEF AtMost
  <2>4. f.count > 0 /\ f.expires => 0 + f.left = W BY <1>1, <2>1
  <2>5. f.count # 0 BY <2>1
  <2> QED BY <1>3, <2>2, <2>3, <2>4, <2>5
<1>5. CASE e.count = 0 /\ ~Opens(k)
  <2>1. ~Pending(k) BY <1>1, <1>5
  <2>2. ~Rests(k) /\ ~Counts(k) /\ ~Dates(k) BY <1>1, <1>5, <2>1 DEF Rests, Counts, Dates, e
  <2>3. ~Slips(k)
    <3>1. SUFFICES ASSUME Slips(k) PROVE FALSE OBVIOUS
    <3>2. NonePends(k) /\ ~Pending(k)' BY <2>1, <3>1 DEF Slips, NonePends
    <3>3. ~entry'[k].expires BY <1>5, <3>1 DEF Slips, e
    <3> QED BY <3>2, <3>3 DEF Stuck, Pending
  <2>4. ~Ripens(k)
    <3>1. SUFFICES ASSUME Ripens(k) PROVE FALSE OBVIOUS
    <3>2. entry'[k] = Absent BY <1>5, <3>1, Ageing DEF e
    <3> QED BY <3>2 DEF Absent
  <2> QED BY <1>5, <2>2, <2>3, <2>4 DEF Turn
<1>6. CASE e.count > 0 /\ ~Opens(k)
  <2>1. PICK b \in Nat : LowerAt(k, b) BY <1>2, <1>6 DEF e
  <2>2. /\ Young(k, b) \in Nat
        /\ admitted'[k] = admitted[k] => Young(k, b)' = Young(k, b)
    BY <1>1, HitsNat
  <2>3. /\ Pending(k) => b = 0
        /\ e.expires => b + e.left = W
        /\ Young(k, b) >= AtMost(e.count, L)
    BY <1>6, <2>1 DEF LowerAt, Since, e, W, L
  <2>4. ASSUME Admits(k), f.count = AtMost(e.count + 1, L + 1) \/ f.count = e.count
        PROVE  Young(k, b)' >= AtMost(f.count, L)
    <3>1. /\ Young(k, b)' \in Nat /\ Young(k, b)' >= Young(k, b)
          /\ Young(k, b)' >= Young(k, b) + 1 \/ Young(k, b)' >= Cap(k)
      BY <1>1, <2>4, Admitted
    <3>2. CASE f.count = e.count BY <1>1, <2>2, <2>3, <3>1, <3>2 DEF AtMost
    <3>3. CASE f.count = AtMost(e.count + 1, L + 1)
      BY <1>1, <2>2, <2>3, <3>1, <3>3 DEF AtMost
    <3> QED BY <2>4, <3>2, <3>3
  <2>5. f.count # 0 BY DEF f
  <2>6. CASE Rests(k)
    <3>1. f = e /\ (Pending(k)' => Pending(k)) BY <2>6 DEF Rests, NonePends, e, f
    <3>2. Young(k, b)' = Young(k, b) BY <2>2, <2>6 DEF Rests
    <3> QED BY <1>3, <2>3, <2>5, <3>1, <3>2
  <2>7. CASE Counts(k)
    <3>1. /\ f.count = AtMost(e.count + 1, L + 1)
          /\ f.left = e.left /\ f.expires = e.expires /\ (Pending(k)' => Pending(k))
          /\ IF f.count <= L THEN Admits(k) ELSE admitted'[k] = admitted[k]
      BY <2>7 DEF Counts, NonePends, e, f, L
    <3>2. Young(k, b)' >= AtMost(f.count, L)
      <4>1. CASE f.count <= L BY <2>4, <3>1, <4>1
      <4>2. CASE ~(f.count <= L)
        <5>1. Young(k, b)' = Young(k, b) BY <2>2, <3>1, <4>2
        <5>2. AtMost(f.count, L) = AtMost(e.count, L) BY <1>1, <3>1, <4>2 DEF AtMost
        <5> QED BY <2>3, <5>1, <5>2
      <4> QED BY <4>1, <4>2
    <3> QED BY <1>3, <2>3, <2>5, <3>1, <3>2
  <2>8. CASE Slips(k)
    <3>1. Admits(k) /\ (Pending(k)' => Pending(k)) BY <2>8 DEF Slips, NonePends
    <3>2. \/ f = e
          \/ /\ f.count = AtMost(e.count + 1, L + 1) /\ f.left = e.left
             /\ f.expires <=> e.expires /\ e.count > 0
      BY <2>8 DEF Slips, e, f, L
    <3>3. f.count = AtMost(e.count + 1, L + 1) \/ f.count = e.count BY <3>2
    <3>4. Young(k, b)' >= AtMost(f.count, L) BY <2>4, <3>1, <3>3
    <3>5. f.expires => b + f.left = W BY <2>3, <3>2
    <3> QED BY <1>3, <2>3, <2>5, <3>1, <3>4, <3>5
  <2>9. CASE Dates(k)
    <3>1. /\ Pending(k) /\ f.count = e.count /\ f.left = W /\ admitted'[k] = admitted[k]
      BY <2>9 DEF Dates, e, f, W
    <3>2. b = 0 /\ Young(k, b)' = Young(k, b) BY <2>2, <2>3, <3>1
    <3>3. b + f.left = W BY <1>1, <3>1, <3>2
    <3> QED BY <1>3, <2>3, <3>1, <3>2, <3>3
  <2>10. CASE Ripens(k)
    <3>1. ~Pending(k) /\ ~Pending(k)' BY <2>10 DEF Ripens, NonePends
    <3>2. e.expires BY <1>2, <1>6, <3>1, StuckIs DEF e
    <3>3. f # Absent BY <2>5 DEF Absent
    <3>4. e.left >= 1 /\ f.count = e.count /\ f.left = e.left - 1
      BY <1>6, <2>10, <3>2, <3>3, Ageing DEF e, f
    <3>5. b + 1 <= W BY <1>1, <2>3, <3>2, <3>4
    <3>6. Young(k, b) <= Young(k, b + 1)' BY <1>1, <2>10, <3>5, AgedHits DEF W
    <3>7. Young(k, b + 1)' \in Nat
      <4>1. Cap(k) \in Nat /\ Cap(k)' = Cap(k) BY <1>1 DEF Cap, LimitOf
      <4>2. IsFiniteSet(Past(k, b + 1)) BY <1>1, AgesIn
      <4>3. Young(k, b + 1)' = Cardinality(Spent(admitted'[k], Cap(k), Past(k, b + 1)))
        BY <4>1 DEF Young, Past, WindowOf
      <4> QED BY <4>1, <4>2, <4>3, SpentFinite
    <3>8. Young(k, b + 1)' >= AtMost(f.count, L)
      <4>1. AtMost(f.count, L) \in Nat BY <1>1, <3>4 DEF AtMost
      <4> QED BY <2>2, <2>3, <3>4, <3>6, <3>7, <4>1
    <3>9. (b + 1) + f.left = W BY <1>1, <2>3, <3>2, <3>4
    <3> QED BY <1>3, <2>5, <3>1, <3>8, <3>9
  <2> QED BY <1>6, <2>6, <2>7, <2>8, <2>9, <2>10 DEF Turn
<1> QED BY <1>1, <1>4, <1>5, <1>6

-----------------------------------------------------------------------------
LimitsInv == TableOK /\ Upper /\ Lower

\* No counter counts at first.
LEMMA InitLimits == Init => LimitsInv
<1> SUFFICES ASSUME Init PROVE LimitsInv OBVIOUS
<1>1. Inv BY InitInv
<1>2. \A k \in Keys : entry[k] = Absent /\ ~Pending(k)
      /\ admitted[k] = [a \in Ages |-> 0]
  BY IdleOK DEF Init, Pending
<1>3. TableOK
  <2>1. entry \in [Keys -> Entry] /\ admitted \in [Keys -> [Ages -> Nat]]
    BY DEF Init, Absent, Entry
  <2>2. ASSUME NEW k \in Limits PROVE EntryOK(k)
    BY <1>2 DEF EntryOK, Absent, Limits
  <2> QED BY <2>1, <2>2 DEF TableOK
<1>4. ASSUME NEW k \in Limits PROVE UpperAt(k, 0)
  <2>1. k \in Keys /\ LimitOf(k) \in Nat /\ Cap(k) \in Nat BY <1>1, LimitsOK DEF Limits
  <2>2. ASSUME NEW A \in SUBSET Ages PROVE Cardinality(Spent(admitted[k], Cap(k), A)) = 0
    <3>1. ASSUME NEW h \in Spent(admitted[k], Cap(k), A) PROVE FALSE
      <4>1. h[1] \in A /\ h[2] \in 1..Cap(k) /\ h[2] <= admitted[k][h[1]] BY DEF Spent
      <4>2. h[1] \in Ages /\ admitted[k][h[1]] = 0 BY <1>2, <2>1, <4>1
      <4> QED BY <2>1, <4>1, <4>2
    <3>2. Spent(admitted[k], Cap(k), A) = {} BY <3>1
    <3> QED BY <3>2, FS_EmptySet
  <2>3. Young(k, 0) = 0 /\ Old(k, 0) = 0 BY <2>1, <2>2, AgesIn DEF Young, Old
  <2>4. entry[k].count = 0 BY <1>2, <2>1 DEF Absent
  <2> QED BY <2>1, <2>3, <2>4 DEF UpperAt, Since, AtMost
<1>5. ASSUME NEW k \in Limits PROVE ~(entry[k].count > 0) BY <1>2 DEF Absent, Limits
<1> QED BY <1>3, <1>4, <1>5 DEF LimitsInv, Upper, Lower

\* Every step keeps the counters and their history in agreement.
LEMMA NextLimits == ASSUME Inv, LimitsInv, [Next]_vars PROVE LimitsInv'
<1>1. TableOK BY DEF LimitsInv
<1>2. UNCHANGED config
  BY DEF Next, vars, Arrive, Progress, Submit, Begin, Allow, Expire, AskEmail, Judge, Work, Panic,
     Release, Done, End, Tick, Purged, PurgeAgain, PurgeEnds, Shutdown, Stopping, StopCleanup,
     AwaitCleanup, Close
<1>3. Limits' = Limits BY <1>2 DEF Limits, LimitOf
<1>4. \A k \in Limits : Turn(k) BY <1>1, StepTurns
<1>5. TableOK'
  <2>1. entry' \in [Keys -> Entry] /\ admitted' \in [Keys -> [Ages -> Nat]]
    BY <1>1, TableTyped DEF TableOK
  <2>2. \A k \in Limits : EntryOK(k)' BY <1>1, <1>2, <1>4, EntryStep
  <2> QED BY <1>3, <2>1, <2>2 DEF TableOK, Keys, Ages, Entry
<1>6. Upper'
  <2>1. SUFFICES ASSUME "incr" \notin config.faults, NEW k \in Limits
                 PROVE  \E c \in Nat : UpperAt(k, c)'
    BY <1>2, <1>3 DEF Upper
  <2>2. PICK b \in Nat : UpperAt(k, b) BY <2>1 DEF LimitsInv, Upper
  <2> QED BY <1>1, <1>2, <1>4, <2>1, <2>2, UpperStep
<1>7. Lower'
  <2>1. SUFFICES ASSUME NEW k \in Limits, entry'[k].count > 0, ~Stuck(k)'
                 PROVE  \E c \in Nat : LowerAt(k, c)'
    BY <1>3 DEF Lower
  <2>2. entry[k].count > 0 /\ ~Stuck(k) => \E b \in Nat : LowerAt(k, b) BY DEF LimitsInv, Lower
  <2> QED BY <1>1, <1>2, <1>4, <2>1, <2>2, LowerStep
<1> QED BY <1>5, <1>6, <1>7 DEF LimitsInv

\* LimitsInv is an invariant, from Inv and the turns.
LEMMA LimitsInvariance == Spec => [](Inv /\ LimitsInv)
<1>1. Init => LimitsInv BY InitLimits
<1>2. Inv /\ LimitsInv /\ [Next]_vars => LimitsInv' BY NextLimits
<1> QED BY <1>1, <1>2, Invariance, PTL DEF Spec

\* All the hits within a window are those since the counter began and those before.
LEMMA HitsAre ==
    ASSUME Inv, NEW k \in Keys, NEW b \in Nat
    PROVE  /\ Hits(k) \in Nat /\ Hits(k) <= Young(k, b) + Old(k, b)
           /\ Young(k, b) <= Hits(k)
<1>1. Hits(k) = Cardinality(Spent(admitted[k], Cap(k), 0..WindowOf(k)))
  BY DEF Hits, HitsOf, Spent, Cap
<1>2. Cap(k) \in Nat /\ WindowOf(k) \in Nat BY LimitsOK, AgesOK
<1>3. IsFiniteSet(0..WindowOf(k)) /\ IsFiniteSet(Past(k, b)) /\ IsFiniteSet(Earlier(k, b)) BY AgesIn
<1>4. 0..WindowOf(k) = Past(k, b) \cup Earlier(k, b) BY <1>2 DEF Past, Earlier
<1>5. Past(k, b) \in SUBSET (0..WindowOf(k)) BY DEF Past
<1>6. Hits(k) \in Nat BY <1>1, <1>2, <1>3, SpentFinite
<1>7. Hits(k) <= Young(k, b) + Old(k, b) BY <1>1, <1>2, <1>3, <1>4, SpentSum DEF Young, Old
<1>8. Young(k, b) <= Hits(k) BY <1>1, <1>2, <1>3, <1>5, SpentWithin DEF Young
<1> QED BY <1>6, <1>7, <1>8

\* In no stretch of time as long as its window does a counter let through more than
\* twice its limit, whatever the limits, the windows and the number of requests, and
\* whichever EXPIREs are lost, unless INCR goes unanswered.
THEOREM WindowsAreKept == Spec => []LimitKept
<1>1. ASSUME Inv, LimitsInv, "incr" \notin config.faults, NEW k \in Keys, LimitOf(k) > 0
      PROVE  Hits(k) <= 2 * LimitOf(k)
  <2>1. k \in Limits /\ TableOK BY <1>1 DEF Limits, LimitsInv
  <2>2. PICK b \in Nat : UpperAt(k, b) BY <1>1, <2>1 DEF LimitsInv, Upper
  <2>3. LimitOf(k) \in Nat /\ entry[k].count \in Nat BY <1>1, <2>1, OfCounter
  <2>4. Young(k, b) \in Nat /\ Old(k, b) \in Nat BY <1>1, HitsNat
  <2>5. Young(k, b) <= LimitOf(k) /\ Old(k, b) <= LimitOf(k)
    BY <2>2, <2>3, <2>4 DEF UpperAt, AtMost
  <2>6. Hits(k) \in Nat /\ Hits(k) <= Young(k, b) + Old(k, b) BY <1>1, HitsAre
  <2> QED BY <2>3, <2>4, <2>5, <2>6
<1>2. Inv /\ LimitsInv => LimitKept BY <1>1 DEF LimitKept
<1> QED BY <1>2, LimitsInvariance, PTL

\* Nobody is refused who has not had the limit within the last window, or whose
\* counter has lost its EXPIRE: a hit is refused only above the limit, and the
\* counter has let through at least as many since it began to count.
THEOREM RefusalsAreEarned == Spec => RefusedOnlyWhenSpent
<1>1. ASSUME Inv, LimitsInv, Next, NEW s \in Slots, slot'[s].refused \ slot[s].refused # {}
      PROVE  Hits(Key(s)) >= LimitOf(Key(s)) \/ Stuck(Key(s))
  <2> DEFINE k == Key(s)
             L == LimitOf(k)
  <2>1. slot \in [Slots -> Record] /\ Idle.refused = {} BY <1>1 DEF Inv, SlotsOK, Idle
  <2>2. PICK t \in Slots : Arrive(t) \/ Progress(t)
    BY <1>1 DEF Next, Tick, Purged, PurgeAgain, PurgeEnds, Shutdown, Stopping, StopCleanup,
       AwaitCleanup, Close
  <2>3. t = s
    <3>1. \E v : slot' = [slot EXCEPT ![t] = v]
      BY <2>2 DEF Progress, Arrive, Submit, Begin, Allow, Expire, AskEmail, Judge, Work, Panic,
         Release, Done, End, Goto, NoLimit, Unanswered, InMemory, InRedis, Answer
    <3> QED BY <1>1, <2>1, <3>1
  <2>4. Allow(s)
    <3>1. ASSUME Arrive(s) PROVE FALSE
      <4>1. PICK kind \in config.kinds, e \in config.emails, i \in Addresses :
              slot' = [slot EXCEPT ![s] = [Idle EXCEPT !.at = IF kind = "ip" THEN "submit" ELSE "allow",
                                                       !.kind = kind, !.email = e, !.ip = i]]
        BY <3>1 DEF Arrive
      <4>2. slot'[s].refused = {} BY <2>1, <4>1, IdleOK DEF Record
      <4> QED BY <1>1, <4>2
    <3>2. ASSUME Submit(s) \/ Done(s) \/ End(s) PROVE FALSE
      BY <1>1, <2>1, <3>2, IdleOK DEF Submit, Done, End, Goto, Record
    <3>3. ASSUME AskEmail(s) PROVE FALSE BY <1>1, <2>1, <3>3 DEF AskEmail, Record
    <3>4. ASSUME Begin(s) \/ Judge(s) \/ Work(s) \/ Panic(s) \/ Release(s) \/ Expire(s) PROVE FALSE
      BY <1>1, <2>1, <3>4 DEF Begin, Judge, Work, Panic, Release, Expire, Goto, Record
    <3> QED BY <2>2, <2>3, <3>1, <3>2, <3>3, <3>4 DEF Progress
  <2>5. k \in Keys /\ L \in Nat BY <1>1, KeyIs, LimitsOK
  <2>6. /\ L > 0 /\ ~(entry'[k].count <= L)
        /\ InMemory(s, After(s)) \/ InRedis(s, After(s))
    <3>1. ~NoLimit(s, After(s)) BY <1>1, <2>1 DEF NoLimit, Goto, Record
    <3>2. ~Unanswered(s, After(s)) BY <1>1, <2>1 DEF Unanswered, Answer, Record
    <3>3. ASSUME NEW at, Answer(s, at, entry'[k].count <= L) PROVE ~(entry'[k].count <= L)
      BY <1>1, <2>1, <3>3 DEF Answer, Record
    <3> QED BY <2>4, <3>1, <3>2, <3>3 DEF Allow, InMemory, InRedis
  <2>7. k \in Limits /\ TableOK BY <1>1, <2>5, <2>6 DEF Limits, LimitsInv
  <2>8. Turn(k) BY <1>1, <2>6, <2>7, InMemoryTurns, InRedisTurns
  <2>9. entry[k].count \in Nat BY <1>1, <2>7, OfCounter
  <2>10. entry[k].count >= L /\ entry[k].count > 0
    <3>1. entry'[k].count = 1 \/ entry'[k].count = AtMost(entry[k].count + 1, L + 1)
      <4>1. CASE InMemory(s, After(s))
        <5>1. entry'[k] = Counted(k, entry[k])
          BY <1>1, <2>5, <2>7, <4>1, SweptOK DEF InMemory
        <5>2. entry[k] \in Entry BY <2>5, <2>7 DEF TableOK
        <5> QED BY <5>1, <5>2 DEF Counted, Fresh, Entry
      <4>2. CASE InRedis(s, After(s))
        <5>1. entry'[k] = Incremented(k) BY <2>5, <2>7, <4>2 DEF InRedis, TableOK
        <5>2. entry[k] \in Entry BY <2>5, <2>7 DEF TableOK
        <5> QED BY <5>1, <5>2 DEF Incremented, Entry
      <4> QED BY <2>6, <4>1, <4>2
    <3> QED BY <2>5, <2>6, <2>9, <3>1 DEF AtMost
  <2>11. CASE Stuck(k) BY <2>11
  <2>12. CASE ~Stuck(k)
    <3>1. PICK b \in Nat : LowerAt(k, b) BY <1>1, <2>7, <2>10, <2>12 DEF LimitsInv, Lower
    <3>2. Young(k, b) \in Nat BY <1>1, <2>5, HitsNat
    <3>3. Hits(k) \in Nat /\ Young(k, b) <= Hits(k) BY <1>1, <2>5, HitsAre
    <3>4. Young(k, b) >= L BY <2>5, <2>9, <2>10, <3>1 DEF LowerAt, AtMost
    <3> QED BY <2>5, <3>2, <3>3, <3>4
  <2> QED BY <2>11, <2>12
<1>2. Inv /\ LimitsInv /\ [Next]_vars =>
        [\A s \in Slots : slot'[s].refused \ slot[s].refused # {} =>
            Hits(Key(s)) >= LimitOf(Key(s)) \/ Stuck(Key(s))]_vars
  BY <1>1
<1> QED BY <1>2, LimitsInvariance, PTL DEF Spec, RefusedOnlyWhenSpent
=============================================================================
