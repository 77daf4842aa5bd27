---------------------------- MODULE RelaySocket ----------------------------
(***************************************************************************)
(* The WebSocket of one relay (makeSocket and pauseRelayReconnection of    *)
(* core/src/utils.ts), with what is on its way over it and the handlers    *)
(* that the client keeps for the topics it subscribed to.                  *)
(*                                                                         *)
(* Every WebSocket object gets a number of its own.  A relay may still     *)
(* read what was sent over an old one; what it had sent itself is lost     *)
(* with it.  Retry periods are left out: a retry timer fires some time.    *)
(***************************************************************************)
EXTENDS Integers, Sequences, FiniteSets, SequencesExt

CONSTANTS
  Rooms,    \* the rooms of an app
  MaxJoins, \* MaxJoins[a]: times a room is joined over adapter a (bound)
  MaxConns  \* WebSockets in one behaviour (bound)

Adapters == {"nostr", "ws", "mqtt"}

ASSUME RoomsAssumption == IsFiniteSet(Rooms)
ASSUME JoinsAssumption == MaxJoins \in [Adapters -> Nat]
ASSUME ConnsAssumption == MaxConns \in Nat \ {0}

VARIABLES
  sock,     \* client.socket: "connecting", "open" or "closed"
  conn,     \* its number
  didOpen,  \* some socket has opened: client.ready is resolved
  retry,    \* "none", or what init waits for: "timer" or the "lock"
  lock,     \* reconnectionLockingPromise: "none", "held" or "resolved"
  up,       \* up[c]: frames from the client to the relay over socket c
  down,     \* messages from the relay to the client
  handlers  \* handlers[t]: the subscriptions topic t is dispatched to

socketVars == <<sock, conn, didOpen, retry, lock>>

-----------------------------------------------------------------------------
Conns == 1..MaxConns
Topics == [room : Rooms, kind : {"root", "self"}]
Root(r) == [room |-> r, kind |-> "root"]
Self(r) == [room |-> r, kind |-> "self"]

\* The subscriptions of the rooms: the n-th time that room r is joined.
Instances == Rooms \X (1..Max({MaxJoins[a] : a \in Adapters}))

SocketInit ==
  /\ sock = "connecting" /\ conn = 1
  /\ didOpen = FALSE
  /\ retry = "none" /\ lock = "none"
  /\ up = [c \in Conns |-> <<>>]
  /\ down = <<>>
  /\ handlers = [t \in Topics |-> {}]

\* client.send: what is sent while the socket is not open is lost.
Sent(frames) ==
  IF sock = "open" THEN [up EXCEPT ![conn] = @ \o frames] ELSE up

\* socket.onclose: the connection failed or was lost.
onclose ==
  /\ sock # "closed" /\ conn < MaxConns
  /\ sock' = "closed"
  /\ down' = <<>>
  /\ retry' = IF lock # "none" THEN "lock" ELSE "timer"
  /\ UNCHANGED <<conn, didOpen, lock, up>>

\* init of makeSocket, by its timer: another WebSocket.
init ==
  /\ retry = "timer"
  /\ retry' = "none"
  /\ sock' = "connecting" /\ conn' = conn + 1
  /\ UNCHANGED <<didOpen, lock, up, down>>

\* socket.onopen; the caller of makeSocket adds what onReconnect does.
onopen ==
  /\ sock = "connecting"
  /\ sock' = "open"
  /\ didOpen' = TRUE
  /\ UNCHANGED <<conn, retry, lock, down>>

pauseRelayReconnection ==
  /\ lock = "none"
  /\ lock' = "held"
  /\ UNCHANGED <<sock, conn, didOpen, retry, up, down>>

resumeRelayReconnection ==
  /\ lock = "held"
  /\ lock' = "resolved"
  /\ UNCHANGED <<sock, conn, didOpen, retry, up, down>>

\* The resolved promise's finally clears it, and then what waited for it runs.
\* To pause in between has no effect.
unlocked ==
  /\ lock = "resolved"
  /\ lock' = "none"
  /\ IF retry = "lock"
       THEN /\ retry' = "none"
            /\ sock' = "connecting" /\ conn' = conn + 1
       ELSE UNCHANGED <<retry, sock, conn>>
  /\ UNCHANGED <<didOpen, up, down>>

\* The relay will read nothing more over c after what it has read.
Over(c) == c < conn \/ (c = conn /\ sock = "closed")

=============================================================================
