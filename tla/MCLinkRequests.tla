--------------------------- MODULE MCLinkRequests ---------------------------
\* Small instances of LinkRequests for TLC: each configuration is one workload.
EXTENDS LinkRequests, TLC

CONSTANTS j1, j2, j3, e1, e2, i1

Windows == "ip" :> 3 @@ "email" :> 3 @@ "exchange" :> 1 @@ "http" :> 1
Unlimited == [kind \in Kinds |-> 0]
ByEmail == [Unlimited EXCEPT !["email"] = 1, !["exchange"] = 1]
ByAddress == [Unlimited EXCEPT !["ip"] = 2, !["http"] = 1]
Both == [Unlimited EXCEPT !["ip"] = 2, !["email"] = 1]

Memory == [limiter |-> "memory", limit |-> ByEmail, kinds |-> {"ip"}, faults |-> {},
           slots |-> {j1}, emails |-> {e1}, stops |-> FALSE]
InRedisOf == [Memory EXCEPT !.limiter = "redis"]

\* Three requests for a pool of two, with failing and panicking jobs, and Close.
Flood == [Memory EXCEPT !.limit = Unlimited, !.faults = {"panic"}, !.slots = Slots, !.stops = TRUE]
\* Both counters in turn; and one of them beside exchanges, two slots at a time.
Turns == [Memory EXCEPT !.limit = Both]
Mixed == [Memory EXCEPT !.kinds = {"ip", "exchange"}, !.slots = {j1, j2}]
\* A Redis that is healthy, that loses an EXPIRE, and that does not answer.
Shared == [InRedisOf EXCEPT !.limit = ByAddress, !.slots = {j1, j2}]
Forgetful == [InRedisOf EXCEPT !.emails = Emails, !.faults = {"expire"}, !.stops = TRUE]
Absentee == [InRedisOf EXCEPT !.limit = [ByAddress EXCEPT !["ip"] = 0], !.kinds = {"ip", "http"},
                              !.faults = {"incr"}]

Workloads == {Flood, Turns, Mixed, Shared, Forgetful, Absentee}
=============================================================================
