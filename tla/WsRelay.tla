------------------------------ MODULE WsRelay ------------------------------
(***************************************************************************)
(* The self-hosted relay: the client of ws-relay/src/index.ts, which       *)
(* subscribes to a topic when the first handler for it comes and           *)
(* unsubscribes when the last one goes, and createWsRelayServer of         *)
(* ws-relay/src/server.ts, one server with all sockets of this client.     *)
(***************************************************************************)
EXTENDS RelaySocket

VARIABLES
  topics,       \* topics[t]: the sockets the server sends topic t to
  socketTopics  \* socketTopics[c]: the topics socket c subscribed to

-----------------------------------------------------------------------------
WsFrames == [op : {"subscribe", "unsubscribe"}, topic : Topics]

WsFrame(op, t) == [op |-> op, topic |-> t]

ServerInit ==
  /\ topics = [t \in Topics |-> {}]
  /\ socketTopics = [c \in Conns |-> {}]

\* subscribeTopic, of handlers is.
wsSubscribe(c, t, is) ==
  [c EXCEPT !.handlers[t] = @ \union is,
            !.out = IF c.handlers[t] = {}
                      THEN Append(@, WsFrame("subscribe", t)) ELSE @]

\* Mutant of wsUnsubscribe: the topic goes, whoever else has a handler for it.
UnsubscribeEverybody(c, t, i) ==
  [c EXCEPT !.handlers[t] = {}, !.out = Append(@, WsFrame("unsubscribe", t))]

\* The cleanup that subscribeTopic returned.
wsUnsubscribe(c, t, i) ==
  [c EXCEPT !.handlers[t] = @ \ {i},
            !.out = IF c.handlers[t] = {i}
                      THEN Append(@, WsFrame("unsubscribe", t)) ELSE @]

-----------------------------------------------------------------------------
\* subscribe and unsubscribe of the server.
subscribe(c, t) ==
  /\ topics' = [topics EXCEPT ![t] = @ \union {c}]
  /\ socketTopics' = [socketTopics EXCEPT ![c] = @ \union {t}]

unsubscribe(c, t) ==
  /\ topics' = [topics EXCEPT ![t] = @ \ {c}]
  /\ socketTopics' = [socketTopics EXCEPT ![c] = @ \ {t}]

\* The server's message listener.
wsReads(c) ==
  LET frame == Head(up[c])
  IN  /\ IF frame.op = "subscribe" THEN subscribe(c, frame.topic)
                                   ELSE unsubscribe(c, frame.topic)
      /\ up' = [up EXCEPT ![c] = Tail(@)]

\* Mutant of cleanup: the topics do not lose the socket.
CleanupOneTable(c) ==
  /\ socketTopics' = [socketTopics EXCEPT ![c] = {}]
  /\ UNCHANGED topics

cleanup(c) ==
  /\ topics' = [t \in Topics |-> IF t \in socketTopics[c] THEN topics[t] \ {c}
                                                          ELSE topics[t]]
  /\ socketTopics' = [socketTopics EXCEPT ![c] = {}]

\* publish of the server: the message for this client's open socket.
Published(t) ==
  IF conn \in topics[t] THEN <<[topic |-> t, sub |-> 0]>> ELSE <<>>

\* The two tables of the server are each other's inverse.
ServerTables ==
  \A c \in Conns : \A t \in Topics : c \in topics[t] <=> t \in socketTopics[c]

\* Whether the server will send topic t to socket c when it has read what is on
\* its way to it: as the last frame about t says, or as it does now.
WillHave(c, t) ==
  \/ t \in socketTopics[c] /\ \A n \in DOMAIN up[c] : up[c][n].topic # t
  \/ \E n \in DOMAIN up[c] :
       /\ up[c][n] = WsFrame("subscribe", t)
       /\ \A later \in n + 1..Len(up[c]) : up[c][later].topic # t

\* What server and socket will have in the end is what the client has handlers
\* for, as long as its first socket lasts: a reconnected client does not
\* subscribe again.
WsAgrees ==
  (sock = "open" /\ conn = 1) =>
    \A t \in Topics : WillHave(conn, t) <=> handlers[t] # {}

=============================================================================
