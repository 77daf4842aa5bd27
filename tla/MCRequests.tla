----------------------------- MODULE MCRequests -----------------------------
(* Requests between two peers, of which one or both ask.                   *)
EXTENDS Requests, TLC

TwoKinds == {"request", "@_response"}
ShortAnswers == [a \in TwoKinds |-> IF a = "request" THEN 2 ELSE 1]
=============================================================================
