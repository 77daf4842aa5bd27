------------------------------ MODULE MCMedia ------------------------------
(* Two peers with up to two tracks each, in up to two rooms.               *)
EXTENDS Media

CONSTANTS r1, r2

\* Tracks of the initiator and of the responder, in r1 and in r2.
Plan(renewals, i1, i2, j1, j2) ==
  [renewals |-> renewals,
   tracks |-> [e \in Ends |-> [r \in Rooms |->
     CASE e = Initiator /\ r = r1 -> i1 [] e = Initiator /\ r = r2 -> i2
       [] e = Responder /\ r = r1 -> j1 [] e = Responder /\ r = r2 -> j2]]]

SomePlans == {Plan(1, 1, 0, 0, 0), Plan(0, 2, 0, 2, 0),
              Plan(0, 1, 1, 1, 1), Plan(0, 2, 2, 0, 0)}
=============================================================================
