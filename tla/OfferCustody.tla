---------------------------- MODULE OfferCustody ----------------------------
(***************************************************************************)
(* What the pool of offers promises its callers, whatever it does inside:  *)
(* the career of a connection that is made to be offered.  It is in the    *)
(* keep of the pool (ready), with the one party it was handed to (out), in *)
(* the hands of a room (room), and there perhaps used up by an answer      *)
(* (spent); none is where a connection is that is not made yet, or closed. *)
(*                                                                         *)
(* A connection that is out or a room's is offered to nobody else, unless  *)
(* it is returned first; one that is used up is never offered again; and a *)
(* pool that has ended keeps nothing and takes nothing back.               *)
(***************************************************************************)
CONSTANT Handles

VARIABLES
  over,   \* whether the pool has ended
  place   \* place[h]: where the connection is

custody == <<over, place>>

Places == {"none", "ready", "out", "room", "spent"}

Init == over = FALSE /\ place = [h \in Handles |-> "none"]

Becomes(h, to) == place' = [place EXCEPT ![h] = to]

HandOut(h) == place[h] \in {"none", "ready"} /\ Becomes(h, "out")

\* One that proves to be of no use is replaced by a new one.
Replace(h, g) ==
  /\ place[h] = "out" /\ place[g] = "none"
  /\ place' = [place EXCEPT ![h] = "none", ![g] = "out"]

Take(h) == place[h] = "out" /\ Becomes(h, "room")
Return(h) == ~over /\ place[h] \in {"out", "room"} /\ Becomes(h, "ready")
UseUp(h) == place[h] = "room" /\ Becomes(h, "spent")
Close(h) == Becomes(h, "none")

\* Some at a time: the pool is filled, or rid of those that were closed.
Some(from, to) ==
  /\ \A h \in Handles :
       place'[h] = place[h] \/ (place[h] \in from /\ place'[h] = to)
  /\ place' \in [Handles -> Places]

Fill == ~over /\ Some({"none"}, "ready")
Clean == Some({"ready"}, "none")

\* Some that are out are taken back, or closed, at a time.
TakeBack ==
  /\ \A h \in Handles :
       \/ place'[h] = place[h]
       \/ place[h] = "out" /\ place'[h] \in {"ready", "none"}
  /\ over => Some({"out"}, "none")
  /\ place' \in [Handles -> Places]

\* What the pool has not given away for good ends with it; what is being
\* handed out at that moment stays out.
End ==
  /\ over' = TRUE
  /\ \A h \in Handles : place'[h] # "ready"
  /\ Some({"ready", "out"}, "none")

Next ==
  \/ End
  \/ /\ UNCHANGED over
     /\ \/ Fill \/ Clean \/ TakeBack
        \/ \E h \in Handles :
             \/ HandOut(h) \/ Take(h) \/ Return(h) \/ UseUp(h) \/ Close(h)
             \/ \E g \in Handles : Replace(h, g)

Spec == Init /\ [][Next]_custody
=============================================================================
