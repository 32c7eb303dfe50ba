----------------------------- MODULE LinkRequests -----------------------------
(***************************************************************************)
(* What stands between a request for a magic link and the mail: the pool   *)
(* of background jobs of MagicLinkService.Submit, the fixed-window         *)
(* counters of WindowLimiter in memory or in Redis, the hourly purge, and  *)
(* Server.Close, which must wait for all of them. The counters also limit  *)
(* the code exchange and, in Redis, every route behind                     *)
(* middleware.RateLimiter.                                                 *)
(*                                                                         *)
(* A slot is a request and then the job it started. Times are relative: an *)
(* entry knows how long it has left. The unit of time is much longer than  *)
(* a job (20 s against 15 minutes). Left out: what the link contains       *)
(* (MagicLink), and the token bucket that RateLimiter uses without Redis.  *)
(***************************************************************************)
EXTENDS Integers, FiniteSetsExt

CONSTANTS
    Slots,
    Emails, Addresses, \* of the requests; Addresses are of clients
    Capacity,          \* magicLinkMaxInFlight
    Window,            \* of each kind of counter
    Configs            \* the workloads: a configuration each

VARIABLES
    config,  \* never changes
    entry,   \* entry[k]: the counter
    sweep,   \* sweepAt, relative
    slot,    \* slot[s]: the request or job
    sem, wg, \* jobs that hold a place in the channel, and that Wait waits for
    server,  \* Shutdown and Close
    purge,   \* the goroutine of StartCleanup
    admitted \* history: admitted[k][a], the hits of age a that were let through

vars == <<config, entry, sweep, slot, sem, wg, server, purge, admitted>>

Kinds == {"ip", "email", "exchange", "http"}
Keys == ({"email"} \X Emails) \cup ((Kinds \ {"email"}) \X Addresses)
LimitOf(k) == config.limit[k[1]] \* 0 is off
WindowOf(k) == Window[k[1]]
Ages == 0..Max({Window[kind] : kind \in Kinds})

ASSUME SizeAssumption ==
    /\ Capacity \in Nat \ {0} /\ Window \in [Kinds -> Nat \ {0}]
    /\ IsFiniteSet(Slots) /\ Emails # {} /\ Addresses # {}
    /\ \A c \in Configs : /\ c.limit \in [Kinds -> Nat]
                          /\ c.kinds \subseteq Kinds \ {"email"}
                          /\ c.slots \subseteq Slots /\ c.emails \subseteq Emails

\* Beyond the limit only comparisons count: counters stop one past it.
AtMost(n, max) == IF n > max THEN max ELSE n

Redis == config.limiter = "redis"
Absent == [count |-> 0, left |-> -1, expires |-> TRUE]
Idle == [at |-> "idle", email |-> CHOOSE e \in Emails : TRUE,
         ip |-> CHOOSE i \in Addresses : TRUE, kind |-> "ip", refused |-> {}]

\* The counter a slot is about to ask, or has just asked.
Key(s) == <<slot[s].kind, IF slot[s].kind = "email" THEN slot[s].email ELSE slot[s].ip>>

Init ==
    /\ config \in Configs
    /\ entry = [k \in Keys |-> Absent]
    /\ sweep = -1
    /\ slot = [s \in Slots |-> Idle]
    /\ sem = 0 /\ wg = 0
    /\ server = "serving" /\ purge = "purging"
    /\ admitted = [k \in Keys |-> [a \in Ages |-> 0]]

Goto(s, at) == slot' = [slot EXCEPT ![s].at = at]

-----------------------------------------------------------------------------
\* The limiter.

Expired(e) == e.left < 0

\* Mutant: the sweep does not look at the entries.
SweptWhole(k) == IF sweep < 0 THEN Absent ELSE entry[k]
Swept(k) == IF sweep < 0 /\ Expired(entry[k]) THEN Absent ELSE entry[k]

Fresh(k) == [count |-> 1, left |-> WindowOf(k), expires |-> TRUE]

\* Mutant: every hit moves the end of the window.
CountedAfresh(k, e) ==
    IF Expired(e) THEN Fresh(k)
    ELSE [Fresh(k) EXCEPT !.count = AtMost(e.count + 1, LimitOf(k) + 1)]
Counted(k, e) ==
    IF Expired(e) THEN Fresh(k)
    ELSE [e EXCEPT !.count = AtMost(@ + 1, LimitOf(k) + 1)]

\* INCR leaves the lifetime alone; a key it creates has none.
Incremented(k) ==
    [entry[k] EXCEPT !.count = AtMost(@ + 1, LimitOf(k) + 1),
                     !.expires = @ /\ entry[k].count > 0]

\* Answers the slot, which goes on to `at`; refused hits are remembered in it.
Answer(s, at, allowed) ==
    /\ slot' = [slot EXCEPT ![s].at = at,
                            ![s].refused = IF allowed THEN @ ELSE @ \cup {slot[s].kind}]
    /\ admitted' = IF allowed
                   THEN [admitted EXCEPT ![Key(s)][0] = AtMost(@ + 1, 2 * LimitOf(Key(s)) + 1)]
                   ELSE admitted

NoLimit(s, at) ==
    /\ LimitOf(Key(s)) = 0
    /\ Goto(s, at) /\ UNCHANGED <<entry, sweep, admitted>>

\* INCR fails, executed or not: the limiter fails open and sets no EXPIRE.
Unanswered(s, at) ==
    /\ Redis /\ "incr" \in config.faults /\ LimitOf(Key(s)) > 0
    /\ \/ UNCHANGED entry
       \/ entry' = [entry EXCEPT ![Key(s)] = Incremented(Key(s))]
    /\ Answer(s, at, TRUE)
    /\ UNCHANGED sweep

InMemory(s, at) ==
    LET k == Key(s) IN
    /\ ~Redis /\ LimitOf(k) > 0
    /\ entry' = [x \in Keys |-> IF x = k THEN Counted(k, Swept(k)) ELSE Swept(x)]
    /\ sweep' = IF sweep < 0 THEN WindowOf(k) ELSE sweep
    /\ Answer(s, at, entry'[k].count <= LimitOf(k))

InRedis(s, at) ==
    LET k == Key(s) IN
    /\ Redis /\ LimitOf(k) > 0
    /\ entry' = [entry EXCEPT ![k] = Incremented(k)]
    /\ Answer(s, IF entry[k].count = 0 THEN "expire" ELSE at, entry'[k].count <= LimitOf(k))
    /\ UNCHANGED sweep

\* Where a slot is after Allow: the job asks for the email after the address.
After(s) == CASE slot[s].kind = "ip" -> "next"
              [] slot[s].kind = "email" -> "judge"
              [] OTHER -> "end"

Allow(s) ==
    /\ slot[s].at = "allow"
    /\ \/ NoLimit(s, After(s)) \/ Unanswered(s, After(s))
       \/ InMemory(s, After(s)) \/ InRedis(s, After(s))
    /\ UNCHANGED <<config, sem, wg, server, purge>>

\* EXPIRE, whose error is ignored; losing it stands for a crash in between too.
Expire(s) ==
    /\ slot[s].at = "expire"
    /\ \/ entry' = [entry EXCEPT ![Key(s)].left = WindowOf(Key(s)), ![Key(s)].expires = TRUE]
       \/ "expire" \in config.faults /\ UNCHANGED entry
    /\ Goto(s, After(s))
    /\ UNCHANGED <<config, sweep, sem, wg, server, purge, admitted>>

\* Redis removes a key as its time is over; in memory an entry lives one unit more,
\* and is as good as absent from then on, swept or not.
Older(e) ==
    IF ~e.expires \/ Expired(e) THEN e
    ELSE IF e.left = (IF Redis THEN 1 ELSE 0) THEN Absent
    ELSE [e EXCEPT !.left = @ - 1]

Tick ==
    /\ \A s \in Slots : slot[s].at # "expire"
    /\ entry' = [k \in Keys |-> Older(entry[k])]
    /\ sweep' = IF sweep < 0 THEN sweep ELSE sweep - 1
    /\ admitted' = [k \in Keys |-> [a \in Ages |->
                      IF a = 0 \/ a > WindowOf(k) THEN 0 ELSE admitted[k][a - 1]]]
    /\ UNCHANGED <<config, slot, sem, wg, server, purge>>

-----------------------------------------------------------------------------
\* The request and its job.

\* POST /magic-link, or a call of a limited route.
Arrive(s) ==
    /\ server = "serving" /\ s \in config.slots /\ slot[s].at = "idle"
    /\ \E kind \in config.kinds, e \in config.emails, i \in Addresses :
          slot' = [slot EXCEPT ![s] = [Idle EXCEPT !.at = IF kind = "ip" THEN "submit" ELSE "allow",
                                                   !.kind = kind, !.email = e, !.ip = i]]
    /\ UNCHANGED <<config, entry, sweep, sem, wg, server, purge, admitted>>

\* The select of Submit: a place in the channel, or the request is dropped.
Submit(s) ==
    /\ slot[s].at = "submit"
    /\ IF sem < Capacity THEN sem' = sem + 1 /\ Goto(s, "add")
                         ELSE slot' = [slot EXCEPT ![s] = Idle] /\ UNCHANGED sem
    /\ UNCHANGED <<config, entry, sweep, wg, server, purge, admitted>>

\* wg.Add(1), go func, and the 202.
Begin(s) ==
    /\ slot[s].at = "add"
    /\ wg' = wg + 1 /\ Goto(s, "allow")
    /\ UNCHANGED <<config, entry, sweep, sem, server, purge, admitted>>

\* Always evaluate both counters so one cannot mask the other.
AskEmail(s) ==
    /\ slot[s].at = "next"
    /\ slot' = [slot EXCEPT ![s].at = "allow", ![s].kind = "email"]
    /\ UNCHANGED <<config, entry, sweep, sem, wg, server, purge, admitted>>

\* A refused hit, an address or a challenge that is not well formed.
Judge(s) ==
    /\ slot[s].at = "judge"
    /\ \/ Goto(s, "release")
       \/ slot[s].refused = {} /\ Goto(s, "tenant")
    /\ UNCHANGED <<config, entry, sweep, sem, wg, server, purge, admitted>>

\* ResolveTenant, store.Create and SendMagicLink each fail or go on; the context
\* ends them after magicLinkJobTimeout.
Work(s) ==
    /\ slot[s].at \in {"tenant", "store", "send"}
    /\ \/ Goto(s, "release")
       \/ slot[s].at = "tenant" /\ Goto(s, "store")
       \/ slot[s].at = "store" /\ Goto(s, "send")
    /\ UNCHANGED <<config, entry, sweep, sem, wg, server, purge, admitted>>

\* The mailer, the host's own, panics; the deferred calls run as after a return.
\* Mutant: the place is given back at the end of the function, not by a defer.
PanicUnreleased(s) ==
    /\ slot[s].at = "send" /\ "panic" \in config.faults
    /\ Goto(s, "done")
    /\ UNCHANGED <<config, entry, sweep, sem, wg, server, purge, admitted>>
Panic(s) ==
    /\ slot[s].at = "send" /\ "panic" \in config.faults
    /\ Goto(s, "release")
    /\ UNCHANGED <<config, entry, sweep, sem, wg, server, purge, admitted>>

Release(s) ==
    /\ slot[s].at = "release"
    /\ sem' = sem - 1 /\ Goto(s, "done")
    /\ UNCHANGED <<config, entry, sweep, wg, server, purge, admitted>>

Done(s) ==
    /\ slot[s].at = "done"
    /\ wg' = wg - 1 /\ slot' = [slot EXCEPT ![s] = Idle]
    /\ UNCHANGED <<config, entry, sweep, sem, server, purge, admitted>>

\* 429, or on to the handler.
End(s) ==
    /\ slot[s].at = "end"
    /\ slot' = [slot EXCEPT ![s] = Idle]
    /\ UNCHANGED <<config, entry, sweep, sem, wg, server, purge, admitted>>

-----------------------------------------------------------------------------
\* The purge: at once, then at every tick until its context ends.

Purged ==
    /\ purge = "purging"
    /\ purge' \in IF "panic" \in config.faults THEN {"waiting", "ended"} ELSE {"waiting"}
    /\ UNCHANGED <<config, entry, sweep, slot, sem, wg, server, admitted>>

PurgeAgain ==
    /\ purge = "waiting" /\ config.stops
    /\ purge' = "purging"
    /\ UNCHANGED <<config, entry, sweep, slot, sem, wg, server, admitted>>

PurgeEnds ==
    /\ purge = "waiting" /\ server = "stopping"
    /\ purge' = "ended"
    /\ UNCHANGED <<config, entry, sweep, slot, sem, wg, server, admitted>>

-----------------------------------------------------------------------------
\* Shutdown and Close.

InHandler(s) ==
    \/ slot[s].at \in {"submit", "add"}
    \/ slot[s].at # "idle" /\ slot[s].kind \in {"exchange", "http"}

\* srv.Shutdown: no request arrives any more.
Shutdown ==
    /\ server = "serving" /\ config.stops
    /\ server' = "draining"
    /\ UNCHANGED <<config, entry, sweep, slot, sem, wg, purge, admitted>>

\* It returned, its 30 s being more than a handler needs: Close runs, cleanupStop.
StopCleanup ==
    /\ server = "draining" /\ \A s \in Slots : ~InHandler(s)
    /\ server' = "stopping"
    /\ UNCHANGED <<config, entry, sweep, slot, sem, wg, purge, admitted>>

AwaitCleanup ==
    /\ server = "stopping" /\ purge = "ended"
    /\ server' = "waiting"
    /\ UNCHANGED <<config, entry, sweep, slot, sem, wg, purge, admitted>>

\* Links.Wait, then both databases are closed.
\* Mutant: Close waits until no place is taken.
CloseWhenIdle ==
    /\ server = "waiting" /\ sem = 0
    /\ server' = "closed"
    /\ UNCHANGED <<config, entry, sweep, slot, sem, wg, purge, admitted>>
Close ==
    /\ server = "waiting" /\ wg = 0
    /\ server' = "closed"
    /\ UNCHANGED <<config, entry, sweep, slot, sem, wg, purge, admitted>>

Stopping == StopCleanup \/ AwaitCleanup \/ Close

Progress(s) ==
    \/ Submit(s) \/ Begin(s) \/ Allow(s) \/ Expire(s) \/ AskEmail(s) \/ Judge(s)
    \/ Work(s) \/ Panic(s) \/ Release(s) \/ Done(s) \/ End(s)

Next ==
    \/ \E s \in Slots : Arrive(s) \/ Progress(s)
    \/ Tick \/ Purged \/ PurgeAgain \/ PurgeEnds
    \/ Shutdown \/ Stopping

\* Goroutines run, contexts end what they wait for, and a select with two ready
\* cases takes each of them sooner or later; nobody has to send a request.
Fairness ==
    /\ \A s \in Slots : WF_vars(Progress(s))
    /\ WF_vars(Purged) /\ SF_vars(PurgeEnds) /\ WF_vars(Stopping)

Spec == Init /\ [][Next]_vars /\ Fairness

-----------------------------------------------------------------------------
\* Properties.

\* The admitted hits of these ages, as a set: the i-th of age a.
HitsOf(k, ages) == {h \in ages \X (1..2 * LimitOf(k) + 1) : h[2] <= admitted[k][h[1]]}
Hits(k) == Cardinality(HitsOf(k, 0..WindowOf(k)))

\* Windows are fixed, so a client may spend two of them back to back and no more:
\* in no stretch of time as long as its window does a counter let through more
\* than twice its limit, sweeps and lost EXPIREs included, unless Redis is down.
LimitKept ==
    "incr" \notin config.faults =>
        \A k \in Keys : LimitOf(k) > 0 => Hits(k) <= 2 * LimitOf(k)

\* A counter that lost its EXPIRE; docs/magic-link.md knows it as F9.
Stuck(k) ==
    /\ entry[k].count > 0 /\ ~entry[k].expires
    /\ \A s \in Slots : slot[s].at = "expire" => Key(s) # k

\* Nobody is refused who has not had the limit within the last window: being
\* refused does not prolong it, and whoever waits gets in again.
RefusedOnlyWhenSpent ==
    [][\A s \in Slots :
          slot'[s].refused \ slot[s].refused # {} =>
              Hits(Key(s)) >= LimitOf(Key(s)) \/ Stuck(Key(s))]_vars

Places == {s \in Slots : slot[s].at \in {"add", "allow", "expire", "next", "judge", "tenant",
                                         "store", "send", "release"}
                         /\ slot[s].kind \in {"ip", "email"}}

\* A request for a link is dropped only while as many jobs as the pool has places
\* are at work: no job that failed, panicked or timed out has kept its place.
DroppedOnlyWhenFull ==
    [][\A s \in Slots :
          slot[s].at = "submit" /\ slot'[s].at = "idle" => Cardinality(Places) >= Capacity]_vars

AtWork == purge = "purging" \/ \E s \in Slots : slot[s].at # "idle"

\* Close returns, whatever was in flight, and the databases are closed only when
\* no job and no purge is left that could use them.
ShutdownInOrder ==
    /\ (server = "draining") ~> (server = "closed")
    /\ [](server = "closed" => ~AtWork)
=============================================================================
