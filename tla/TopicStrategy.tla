--------------------------- MODULE TopicStrategy ---------------------------
(***************************************************************************)
(* The rooms of an app on one relay of a topic strategy                    *)
(* (core/src/topic-strategy.ts, and what joinRoom and leave of             *)
(* core/src/strategy.ts do about subscriptions), over Nostr, MQTT or the   *)
(* self-hosted relay.                                                      *)
(*                                                                         *)
(* A room subscribes to its own topic and to the root topic once the relay *)
(* is ready; a passive one to its own only when the first announcement     *)
(* arrives.  Every await is a point where other steps may come in.  A room *)
(* that was left may be joined again: each join is a subscription of its   *)
(* own, numbered, and cleans up after itself.                              *)
(*                                                                         *)
(* Abstracted: the messages are announcements that wake a passive room;    *)
(* others change no state here.  Adapters' subscribeTopic never fails.     *)
(***************************************************************************)
EXTENDS NostrRelay, MqttRelay

CONSTANTS
  AdaptersUsed, \* the adapters there are
  MaxMessages   \* messages on their way to the client (bound)

ASSUME AdaptersAssumption == AdaptersUsed \subseteq Adapters

VARIABLES
  adapter,  \* the strategy that the app imports
  passive,  \* passive[r]: config.passive of room r
  sub       \* sub[i]: the state of a subscription, see SubStates

clientVars == <<handlers, batch, refs, up>>
relayVars == <<filters, topics, socketTopics>>
roomVars == <<adapter, passive, sub>>

vars == <<socketVars, clientVars, down, relayVars, roomVars>>

-----------------------------------------------------------------------------
\* phase: "out" before joinRoom; "waiting" for the relay and the hashed topics;
\* "self" awaits ensureSelfSubscription, "root" the root subscription; "done"
\* has a cleanup, which has run in "gone".
\* left: didLeaveRoom.  self: the own topic, "no" subscription, subscribed and
\* its cleanup "awaited" or "had", or "released".  held: a root message awaits
\* ensureSelfSubscription.  awake: one has been handed to onMessage.
SubStates ==
  [phase : {"out", "waiting", "self", "root", "done", "gone"}, left : BOOLEAN,
   self : {"no", "awaited", "had", "released"}, held : BOOLEAN,
   awake : BOOLEAN]

NewSub ==
  [phase |-> "out", left |-> FALSE, self |-> "no", held |-> FALSE,
   awake |-> FALSE]

Init ==
  /\ SocketInit /\ NostrInit /\ ServerInit /\ MqttInit
  /\ adapter \in AdaptersUsed
  /\ passive \in [Rooms -> BOOLEAN]
  /\ sub = [i \in Instances |-> NewSub]

\* The adapter's client, and what becomes of it.
Adapter ==
  [handlers |-> handlers, batch |-> batch, refs |-> refs, out |-> <<>>]
AdapterBecomes(c) == Becomes(c) /\ refs' = c.refs

\* is: the handlers, several only of the self-hosted relay.
subscribeTopic(c, t, is) ==
  CASE adapter = "nostr" -> batchAdd(c, t, is)
    [] adapter = "ws" -> wsSubscribe(c, t, is)
    [] adapter = "mqtt" -> mqttSubscribe(c, t, is)

unsubscribeTopic(c, t, i) ==
  CASE adapter = "nostr" -> batchRemove(c, t)
    [] adapter = "ws" -> wsUnsubscribe(c, t, i)
    [] adapter = "mqtt" -> mqttUnsubscribe(c, t, i)

\* What waits for the same promise goes on in the order in which it came.
InTurn(i) ==
  \A n \in 1..(i[2] - 1) : sub[<<i[1], n>>].phase # sub[i].phase

RootOf(i) == Root(i[1])
SelfOf(i) == Self(i[1])

-----------------------------------------------------------------------------
\* joinRoom: the room of a namespace that is not occupied.
joinRoom(i) ==
  /\ i[2] <= MaxJoins[adapter] /\ sub[i].phase = "out"
  /\ i[2] > 1 => sub[<<i[1], i[2] - 1>>].left
  /\ sub' = [sub EXCEPT ![i].phase = "waiting"]
  /\ UNCHANGED <<adapter, passive, socketVars, clientVars, down, relayVars>>

\* subscribe, once the relay is ready, up to its first await.
startSubscribe(i) ==
  /\ sub[i].phase = "waiting" /\ didOpen /\ InTurn(i)
  /\ IF passive[i[1]]
       THEN /\ sub' = [sub EXCEPT ![i].phase = "root"]
            /\ AdapterBecomes(subscribeTopic(Adapter, RootOf(i), {i}))
       ELSE /\ sub' = [sub EXCEPT ![i].phase = "self", ![i].self = "awaited"]
            /\ AdapterBecomes(subscribeTopic(Adapter, SelfOf(i), {i}))
  /\ UNCHANGED <<adapter, passive, socketVars, down, relayVars>>

\* Mutant of selfSubscribed: a cleanup that has run is not made up for.
SelfCleanupForgotten(i) ==
  /\ sub[i].self = "awaited"
  /\ sub' = [sub EXCEPT ![i].self = "had"]
  /\ UNCHANGED <<adapter, passive, clientVars, socketVars, down, relayVars>>

\* The then of ensureSelfSubscription: its cleanup has come.
selfSubscribed(i) ==
  /\ sub[i].self = "awaited"
  /\ IF sub[i].phase = "gone"
       THEN /\ sub' = [sub EXCEPT ![i].self = "released"]
            /\ AdapterBecomes(unsubscribeTopic(Adapter, SelfOf(i), i))
       ELSE /\ sub' = [sub EXCEPT ![i].self = "had"]
            /\ UNCHANGED clientVars
  /\ UNCHANGED <<adapter, passive, socketVars, down, relayVars>>

\* subscribe goes on to the root topic.
subscribeRoot(i) ==
  /\ sub[i].phase = "self" /\ sub[i].self = "had" /\ InTurn(i)
  /\ sub' = [sub EXCEPT ![i].phase = "root"]
  /\ AdapterBecomes(subscribeTopic(Adapter, RootOf(i), {i}))
  /\ UNCHANGED <<adapter, passive, socketVars, down, relayVars>>

\* subscribe returns its cleanup.
subscribed(i) ==
  /\ sub[i].phase = "root"
  /\ sub' = [sub EXCEPT ![i].phase = "done"]
  /\ UNCHANGED <<adapter, passive, socketVars, clientVars, down, relayVars>>

\* onSelfLeave: whatever has been subscribed is cleaned up when subscribe has
\* returned.
leave(i) ==
  /\ sub[i].phase # "out" /\ ~sub[i].left
  /\ sub' = [sub EXCEPT ![i].left = TRUE]
  /\ UNCHANGED <<adapter, passive, socketVars, clientVars, down, relayVars>>

\* The cleanup that subscribe returned, run by onSelfLeave.
cleanupSubscription(i) ==
  /\ sub[i].phase = "done" /\ sub[i].left
  /\ LET selfGone == unsubscribeTopic(Adapter, SelfOf(i), i)
     IN  IF sub[i].self = "had"
           THEN /\ sub' = [sub EXCEPT ![i].phase = "gone",
                                      ![i].self = "released"]
                /\ AdapterBecomes(unsubscribeTopic(selfGone, RootOf(i), i))
           ELSE /\ sub' = [sub EXCEPT ![i].phase = "gone"]
                /\ AdapterBecomes(unsubscribeTopic(Adapter, RootOf(i), i))
  /\ UNCHANGED <<adapter, passive, socketVars, down, relayVars>>

-----------------------------------------------------------------------------
\* Whom the client dispatches a message to.
Receivers(m) ==
  IF adapter = "nostr" THEN NostrReceivers(m) ELSE handlers[m.topic]

\* Mutant of Heard: a passive room wakes up without its own subscription.
HeardAtOnce(s, r) == [s EXCEPT !.awake = TRUE]

\* The root handler: what an announcement does to a subscription of room r.
\* A passive one awaits ensureSelfSubscription first.
Heard(s, r) ==
  IF s.phase = "gone" THEN s
  ELSE IF passive[r]
    THEN [s EXCEPT !.held = TRUE,
                   !.self = IF @ = "no" THEN "awaited" ELSE @]
    ELSE [s EXCEPT !.awake = TRUE]

\* A message comes in: every handler of its topic is called.
receive ==
  /\ sock = "open" /\ down # <<>>
  /\ LET heard == Receivers(Head(down))
         after == [i \in Instances |->
                     IF i \in heard THEN Heard(sub[i], i[1]) ELSE sub[i]]
         starting == {i \in heard : sub[i].self = "no"
                                      /\ after[i].self = "awaited"}
         topic == Self(Head(down).topic.room)
     IN  /\ sub' = after
         /\ IF starting = {}
              THEN UNCHANGED clientVars
              ELSE AdapterBecomes(subscribeTopic(Adapter, topic, starting))
  /\ down' = Tail(down)
  /\ UNCHANGED <<adapter, passive, socketVars, relayVars>>

\* A held message goes on when the own subscription is there.
wake(i) ==
  /\ sub[i].held /\ sub[i].self \in {"had", "released"}
  /\ sub' = [sub EXCEPT ![i].held = FALSE,
                        ![i].awake = @ \/ sub[i].phase # "gone"]
  /\ UNCHANGED <<adapter, passive, socketVars, clientVars, down, relayVars>>

-----------------------------------------------------------------------------
\* The socket of makeSocket, or the connection of mqtt.js; clients of Nostr
\* and MQTT subscribe again.
opens ==
  /\ onopen
  /\ \/ /\ adapter = "nostr" /\ didOpen
        /\ LET c == resubscribeOnReconnect
           IN  /\ handlers' = c.handlers /\ batch' = c.batch
               /\ up' = [up EXCEPT ![conn] = @ \o c.out]
     \/ /\ adapter = "mqtt" /\ didOpen
        /\ up' = [up EXCEPT ![conn] = Resubscriptions]
        /\ UNCHANGED <<handlers, batch>>
     \/ /\ adapter = "ws" \/ ~didOpen
        /\ UNCHANGED <<handlers, batch, up>>
  /\ UNCHANGED <<refs, relayVars, roomVars>>

closes == onclose /\ UNCHANGED <<handlers, batch, refs, relayVars, roomVars>>

reconnects == init /\ UNCHANGED <<handlers, batch, refs, relayVars, roomVars>>

pauses ==
  /\ adapter # "mqtt" /\ pauseRelayReconnection
  /\ UNCHANGED <<handlers, batch, refs, relayVars, roomVars>>

resumes ==
  /\ resumeRelayReconnection
  /\ UNCHANGED <<handlers, batch, refs, relayVars, roomVars>>

unlocks == unlocked /\ UNCHANGED <<handlers, batch, refs, relayVars, roomVars>>

flushes == flushTimer /\ UNCHANGED <<refs, topics, socketTopics, roomVars>>

\* The relay reads what socket c brought.
relayReads(c) ==
  /\ up[c] # <<>>
  /\ \/ adapter = "nostr" /\ nostrReads(c)
                          /\ UNCHANGED <<topics, socketTopics>>
     \/ adapter # "nostr" /\ wsReads(c) /\ UNCHANGED filters
  /\ UNCHANGED <<handlers, batch, refs, socketVars, down, roomVars>>

\* The relay notices that socket c is closed; unread frames are lost.
relayForgets(c) ==
  /\ Over(c)
  /\ up[c] # <<>> \/ filters[c] # NoFilters \/ socketTopics[c] # {}
  /\ up' = [up EXCEPT ![c] = <<>>]
  /\ \/ adapter = "nostr" /\ nostrForgets(c)
                          /\ UNCHANGED <<topics, socketTopics>>
     \/ adapter # "nostr" /\ cleanup(c) /\ UNCHANGED filters
  /\ UNCHANGED <<handlers, batch, refs, socketVars, down, roomVars>>

\* Another peer announces itself in a passive room r; an active one has made
\* its subscriptions already.
announce(r) ==
  /\ passive[r]
  /\ sock = "open" /\ Len(down) < MaxMessages
  /\ down' = down \o (IF adapter = "nostr" THEN Events(Root(r))
                                           ELSE Published(Root(r)))
  /\ down' # down
  /\ UNCHANGED <<socketVars, clientVars, relayVars, roomVars>>

-----------------------------------------------------------------------------
Work(i) ==
  \/ startSubscribe(i) \/ selfSubscribed(i) \/ subscribeRoot(i)
  \/ subscribed(i) \/ cleanupSubscription(i) \/ wake(i)

Next ==
  \/ \E i \in Instances : joinRoom(i) \/ leave(i) \/ Work(i)
  \/ receive
  \/ opens \/ closes \/ reconnects \/ pauses \/ resumes \/ unlocks
  \/ flushes
  \/ \E c \in Conns : relayReads(c) \/ relayForgets(c)
  \/ \E r \in Rooms : announce(r)

Spec == Init /\ [][Next]_vars

\* Promises settle, timers fire, messages are delivered both ways, and a
\* connection that is tried opens, or fails MaxConns - 1 times.
Fairness ==
  /\ \A i \in Instances :
       /\ WF_vars(startSubscribe(i)) /\ WF_vars(selfSubscribed(i))
       /\ WF_vars(subscribeRoot(i)) /\ WF_vars(subscribed(i))
       /\ WF_vars(cleanupSubscription(i)) /\ WF_vars(wake(i))
  /\ WF_vars(receive) /\ WF_vars(flushes)
  /\ WF_vars(opens) /\ WF_vars(reconnects) /\ WF_vars(unlocks)
  /\ \A c \in Conns : WF_vars(relayReads(c)) /\ WF_vars(relayForgets(c))

FairSpec == Spec /\ Fairness

-----------------------------------------------------------------------------
TypeOK ==
  /\ sock \in {"connecting", "open", "closed"} /\ conn \in Conns
  /\ didOpen \in BOOLEAN
  /\ retry \in {"none", "timer", "lock"}
  /\ lock \in {"none", "held", "resolved"}
  /\ handlers \in [Topics -> SUBSET Instances]
  /\ refs \in [Topics -> 0..Cardinality(Instances)]
  /\ \A c \in Conns : ToSet(up[c]) \subseteq NostrFrames \union WsFrames
  /\ ToSet(down) \subseteq [topic : Topics, sub : SubIds \union {0}]
  /\ ToSet(batch.topics) \subseteq Topics /\ IsInjective(batch.topics)
  /\ ToSet(batch.subIds) \subseteq SubIds /\ IsInjective(batch.subIds)
  /\ batch.timer \in BOOLEAN
  /\ filters \in [Conns -> [SubIds -> SUBSET Topics]]
  /\ topics \in [Topics -> SUBSET Conns]
  /\ socketTopics \in [Conns -> SUBSET Topics]
  /\ adapter \in AdaptersUsed
  /\ passive \in [Rooms -> BOOLEAN]
  /\ sub \in [Instances -> SubStates]

\* README 733: whoever has joined a room is reached by its other peers.  A
\* subscription that is there, and is not left, has its handlers in place,
\* whatever rooms, and earlier joins of the same room, clean up meanwhile.
Reached ==
  \A i \in Instances :
    (sub[i].phase = "done" /\ ~sub[i].left) =>
      /\ i \in handlers[RootOf(i)]
      /\ sub[i].self # "no" => i \in handlers[SelfOf(i)]

\* And so is a passive room that an announcement has woken: when it answers
\* with its presence, it can be answered to (topic-strategy.ts:163).
Listens ==
  /\ Reached
  /\ \A i \in Instances :
       (sub[i].awake /\ ~sub[i].left) => i \in handlers[SelfOf(i)]

\* What the relay has, once it has read what is on its way to it, is what the
\* client has handlers for; and the two tables of the self-hosted one agree, of
\* sockets that were closed with frames of theirs unread as well.
RelayAgrees ==
  CASE adapter = "nostr" -> NostrAgrees
    [] adapter = "ws" -> WsAgrees /\ ServerTables
    [] adapter = "mqtt" -> MqttAgrees

\* A room that is left is forgotten by client and relay, the subscription to
\* its own topic included that is still being made.
LeftIsReleased ==
  \A i \in Instances :
    [](sub[i].left /\ didOpen => <>(\A t \in Topics : i \notin handlers[t]))

\* However often the socket is lost, a room that stays on Nostr or MQTT is told
\* of new peers again, unless reconnection is paused for good.
HearsAgain ==
  adapter # "ws" =>
    \A i \in Instances :
      (<>[](sub[i].phase = "done" /\ ~sub[i].left) /\ []<>(lock = "none"))
        => <>[](\/ \E s \in SubIds : RootOf(i) \in filters[conn][s]
                \/ RootOf(i) \in socketTopics[conn])

=============================================================================
