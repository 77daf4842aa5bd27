----------------------------- MODULE MqttRelay -----------------------------
(***************************************************************************)
(* The MQTT strategy (mqtt/src/index.ts), which counts the subscriptions   *)
(* of a topic, and has one handler for it, the last.                       *)
(*                                                                         *)
(* External: the client of mqtt.js makes its own connections, whatever     *)
(* pauseRelayReconnection says, and subscribes again on a new one; the     *)
(* broker keeps the topics of each connection, as the self-hosted server.  *)
(***************************************************************************)
EXTENDS WsRelay

VARIABLE refs  \* refs[t]: the subscriptions of topic t

-----------------------------------------------------------------------------
MqttInit == refs = [t \in Topics |-> 0]

\* subscribeTopic.
mqttSubscribe(c, t, is) ==
  [c EXCEPT !.handlers[t] = is,
            !.refs[t] = @ + 1,
            !.out = IF c.refs[t] = 0
                      THEN Append(@, WsFrame("subscribe", t)) ELSE @]

\* The cleanup that subscribeTopic returned: the handler may be another's.
mqttUnsubscribe(c, t, i) ==
  [c EXCEPT !.handlers[t] = @ \ {i},
            !.refs[t] = @ - 1,
            !.out = IF c.refs[t] = 1
                      THEN Append(@, WsFrame("unsubscribe", t)) ELSE @]

\* What mqtt.js sends over a connection that is not its first.
Resubscriptions ==
  SetToSeq({WsFrame("subscribe", t) : t \in {u \in Topics : refs[u] > 0}})

\* Broker and client agree on the topics, over each connection, and those are
\* the ones that somebody is still to clean up.
MqttAgrees ==
  sock = "open" =>
    \A t \in Topics : WillHave(conn, t) <=> refs[t] > 0

=============================================================================
