----------------------------- MODULE SessionLife -----------------------------
(***************************************************************************)
(* What the sessions component promises its callers, with no tokens, no    *)
(* statements and no clock: a session is opened once and ends once, a      *)
(* request is admitted only by a session that is open at that moment, and  *)
(* it is answered as signed in only if it was admitted.  Sessions checks   *)
(* that it implements this specification when rotation is off.             *)
(***************************************************************************)
CONSTANTS SessionIds, NoSession, Requests

VARIABLES
    life,    \* life[s]: "unborn", "open" or "over"
    admitted \* admitted[r]: the session that admitted request r, or NoSession

vars == <<life, admitted>>

TypeOK ==
    /\ life \in [SessionIds -> {"unborn", "open", "over"}]
    /\ admitted \in [Requests -> SessionIds \cup {NoSession}]

Init ==
    /\ life = [s \in SessionIds |-> "unborn"]
    /\ admitted = [r \in Requests |-> NoSession]

Begin(s) ==
    /\ life[s] = "unborn"
    /\ life' = [life EXCEPT ![s] = "open"]
    /\ UNCHANGED admitted

\* One statement, or one tick of the clock, may end several sessions.
End(S) ==
    /\ \A s \in S : life[s] = "open"
    /\ life' = [s \in SessionIds |-> IF s \in S THEN "over" ELSE life[s]]
    /\ UNCHANGED admitted

Admit(r, s) ==
    /\ life[s] = "open" /\ admitted[r] = NoSession
    /\ admitted' = [admitted EXCEPT ![r] = s]
    /\ UNCHANGED life

\* The answer, or a second look of the same request at its session.
Leave(r) ==
    /\ admitted[r] # NoSession
    /\ admitted' = [admitted EXCEPT ![r] = NoSession]
    /\ UNCHANGED life

\* A refused request ends the session that no longer qualifies and leaves.
Expel(r, S) ==
    /\ admitted[r] # NoSession /\ \A s \in S : life[s] = "open"
    /\ admitted' = [admitted EXCEPT ![r] = NoSession]
    /\ life' = [s \in SessionIds |-> IF s \in S THEN "over" ELSE life[s]]

Next ==
    \/ \E s \in SessionIds : Begin(s)
    \/ \E S \in SUBSET SessionIds : End(S)
    \/ \E r \in Requests, s \in SessionIds : Admit(r, s)
    \/ \E r \in Requests : Leave(r)
    \/ \E r \in Requests, S \in SUBSET SessionIds : Expel(r, S)

Spec == Init /\ [][Next]_vars
=============================================================================
