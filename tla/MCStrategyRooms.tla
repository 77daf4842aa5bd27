-------------------------- MODULE MCStrategyRooms --------------------------
(* A room on two peers, which may be passive, with and without others.     *)
EXTENDS StrategyRooms

CONSTANTS p1, p2

Setting(passive, joined, leaves, other, fails, deaf) ==
  [passive |-> passive, joins |-> joined, leaves |-> leaves, other |-> other,
   failures |-> fails, deaf |-> deaf]

\* Presence alone, over a connection that fails; an active room that is left
\* and joined again; a passive one over a connection of others, over one that
\* idles when the other peer is gone, over its own; two that are passive.
MCSettings ==
  { Setting({}, 2, {}, TRUE, 1, TRUE),
    Setting({}, 3, Peers, TRUE, 0, FALSE),
    Setting({p2}, 2, {p1}, TRUE, 0, FALSE),
    Setting({p2}, 2, {p1}, FALSE, 0, FALSE),
    Setting({p2}, 2, {}, FALSE, 1, FALSE),
    Setting({p1, p2}, 2, Peers, TRUE, 1, FALSE) }

=============================================================================
