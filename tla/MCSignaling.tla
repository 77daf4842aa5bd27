---------------------------- MODULE MCSignaling ----------------------------
(* Two peers in a room or two.                                             *)
EXTENDS Signaling, TLC

CONSTANTS r1, r2, y1, y2

Symmetry == Permutations(Rooms) \union Permutations(Relays)

\* One room, two relays and a fault.
Redundant ==
  [rooms |-> {r1}, relays |-> {y1, y2}, handles |-> 1..5, ahead |-> 0,
   faults |-> {"loss", "repeat", "failure", "exit", "idle", "haste", "resend"},
   often |-> 1]

\* One room and a relay, and faults of the connection one after the other.
Unlucky ==
  [Redundant EXCEPT
     !.relays = {y1}, !.often = 3,
     !.faults = {"failure", "flicker", "error", "exit", "idle", "haste"}]

\* One room and a torrent tracker that is given an offer.
Tracked ==
  [Redundant EXCEPT !.relays = {y1}, !.ahead = 1,
                    !.faults = {"error", "resend"}]

\* Two rooms that lend each other their connection.
TwoRooms ==
  [rooms |-> {r1, r2}, relays |-> {y1}, handles |-> 1..4, ahead |-> 0,
   faults |-> {}, often |-> 0]

SafetySettings == {Redundant, Unlucky, Tracked, TwoRooms}
LivenessSettings == {[Redundant EXCEPT !.relays = {y1}]}
RoomsSettings == {TwoRooms}
=============================================================================
