----------------------------- MODULE MCSessions -----------------------------
\* Small instances of Sessions for TLC.
EXTENDS Sessions, TLC

CONSTANTS u1, u2, s1, s2, c1, c2, r1, r2

\* Each slot serves a client of its own, or both serve the same client.
OneSlotEach == r1 :> c1 @@ r2 :> c2
SharedSlots == [r \in Requests |-> c1]
OneSlot == r1 :> c1

NoMFA == {}
AllMFA == Users
NoStaff == {FALSE}
AnyStaff == BOOLEAN

\* Session ids are minted at random, users differ in nothing, and slots that serve
\* one client are alike: any permutation of them maps behaviours to behaviours.
\* So does swapping two devices together with their slots.
Symmetry == Permutations(SessionIds) \cup Permutations(Users) \cup Permutations(Requests)
Devices == r1 :> r2 @@ r2 :> r1 @@ c1 :> c2 @@ c2 :> c1
DeviceSymmetry == Permutations(SessionIds) \cup Permutations(Users) \cup {Devices}
=============================================================================
