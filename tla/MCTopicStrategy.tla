-------------------------- MODULE MCTopicStrategy --------------------------
(***************************************************************************)
(* Instances of TopicStrategy for TLC.                                     *)
(***************************************************************************)
EXTENDS TopicStrategy

JoinedTwice == [a \in Adapters |-> 2]
JoinedTwiceElsewhere == [a \in Adapters |-> IF a = "nostr" THEN 1 ELSE 2]
=============================================================================
