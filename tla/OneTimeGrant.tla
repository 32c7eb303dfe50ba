---------------------------- MODULE OneTimeGrant ----------------------------
(***************************************************************************)
(* What every one-time token of authpad promises: it is issued, it is      *)
(* taken at most once and only while it is open, and only the one that     *)
(* took it may bring fruit (a session in a caller's hands), once.  A grant *)
(* that is dead (lapsed, refused, failed half-way) never brings any.       *)
(***************************************************************************)
EXTENDS Naturals

CONSTANT Grants

VARIABLES
    grant,  \* grant[g]: "none", "open", "held", "done" or "dead"
    fruits  \* fruits[g]: what g has brought so far

vars == <<grant, fruits>>

Init == grant = [g \in Grants |-> "none"] /\ fruits = [g \in Grants |-> 0]

Issue(g) ==
    /\ grant[g] = "none"
    /\ grant' = [grant EXCEPT ![g] = "open"]
    /\ UNCHANGED fruits

Take(g) ==
    /\ grant[g] = "open"
    /\ grant' = [grant EXCEPT ![g] = "held"]
    /\ UNCHANGED fruits

Bear(g) ==
    /\ grant[g] = "held"
    /\ grant' = [grant EXCEPT ![g] = "done"]
    /\ fruits' = [fruits EXCEPT ![g] = @ + 1]

\* One statement may kill several, as a deletion that cascades does.
Die(G) ==
    /\ \A g \in G : grant[g] \in {"open", "held"}
    /\ grant' = [g \in Grants |-> IF g \in G THEN "dead" ELSE grant[g]]
    /\ UNCHANGED fruits

Next ==
    \/ \E g \in Grants : Issue(g) \/ Take(g) \/ Bear(g)
    \/ \E G \in SUBSET Grants : Die(G)

Spec == Init /\ [][Next]_vars
=============================================================================
