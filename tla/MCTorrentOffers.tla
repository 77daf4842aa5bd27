-------------------------- MODULE MCTorrentOffers --------------------------
(* The pool with a few peers, for a room at two trackers and for any other *)
(* caller that returns what it leases.                                     *)
EXTENDS TorrentOffers, TLC

CONSTANTS h1, h2, h3

=============================================================================
