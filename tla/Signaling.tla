----------------------------- MODULE Signaling -----------------------------
(***************************************************************************)
(* How two peers that are in the same rooms of an app get connected        *)
(* (core/src/signal-handler.ts, with connectPeer, disconnectPeer and       *)
(* attachSharedPeerToRoom of strategy.ts and the registry of               *)
(* shared-peer.ts).                                                        *)
(*                                                                         *)
(* A side <<r, p, q>> is p's view of q in room r, with a PeerState of its  *)
(* own.  Every room announces itself on its relays until it is connected.  *)
(* Of two peers, the one with the lower id leads: it answers an            *)
(* announcement with an offer, on each relay the announcement came over;   *)
(* with a tracker (torrent) both send offers, made ahead, with every       *)
(* announcement.  The offer is answered, the two RTCPeerConnections        *)
(* connect, and each peer registers its end as the one connection it       *)
(* shares among all its rooms with the other.                              *)
(*                                                                         *)
(* Handlers are cut where they wait: what is read before an await and used *)
(* after it is carried in tasks.  Relays deliver in any order, and lose    *)
(* and repeat messages when the setting says so; timers are slower than    *)
(* signalling unless it contains "haste", or "resend" for an offer that is *)
(* no longer waited for on a relay.                                        *)
(*                                                                         *)
(* Abstracted: a connection and the offer or answer it made are one        *)
(* handle, so that a recycled connection is a new handle; candidates and   *)
(* the encryption of descriptions are left out, and with them wrong        *)
(* passwords; a relay that is told of an announcement can tell it at any   *)
(* time.  Rooms are not passive, and stay joined.                          *)
(***************************************************************************)
EXTENDS Integers, FiniteSets

CONSTANTS
  Peers,       \* ids, ordered as selfId < peerId orders them
  Rooms,
  Relays,      \* redundant relays, each with its own announcements
  Handles,     \* RTCPeerConnections in use at a time (bound)
  Settings     \* which of the above there are, and what may go wrong

AllFaults ==
  {"loss", "repeat", "failure", "flicker", "exit", "idle", "haste", "error",
   "resend"}

ASSUME PeersAssumption == Peers \subseteq Nat
ASSUME RoomsAssumption == IsFiniteSet(Rooms)
ASSUME HandlesAssumption == Handles \subseteq Nat \ {0}

\* rooms, relays and handles are those in use; a torrent tracker is given
\* offers that are made ahead, as many as ahead says (0 for the other
\* strategies); each of the faults may happen, most of them at most often
\* times altogether (bound).
ASSUME SettingsAssumption ==
  Settings \subseteq
    [rooms : SUBSET Rooms, relays : SUBSET Relays, handles : SUBSET Handles,
     ahead : Nat, faults : SUBSET AllFaults, often : Nat]

VARIABLES
  pc,       \* pc[h]: the RTCPeerConnection behind a PeerHandle
  st,       \* st[s]: the PeerState of a side
  shared,   \* shared[p, q]: what p's SharedPeerManager has for q
  stale,    \* stale[p]: the sharedPeerMap of p's rooms is no longer in use
  offers,   \* offers[r, p]: p's outstanding offers at the tracker
  tasks,    \* handlers that wait for a promise
  net,      \* messages the relays have not delivered
  faults,   \* how many faults there were
  setting   \* the setting, the same all along

vars == <<pc, st, shared, stale, offers, tasks, net, faults, setting>>

-----------------------------------------------------------------------------
None == 0
Tracker == setting.ahead > 0
Pairs == {pq \in Peers \X Peers : pq[1] # pq[2]}
Sides == {<<r, pq[1], pq[2]>> : r \in Rooms, pq \in Pairs}
Joined == {s \in Sides : s[1] \in setting.rooms}

\* Two peers make one link at a time: for one room, and from one end.
OneLink == Cardinality(setting.rooms) = 1 /\ ~Tracker

Me(s) == s[2]
Them(s) == s[3]
Across(s) == <<s[1], s[3], s[2]>>
Pair(s) == <<s[2], s[3]>>
Home(s) == <<s[1], s[2]>>

\* use says which handlers are set on the connection.  One that has ended was
\* closed, or has failed or lost its channel and has told its handlers so
\* (isPeerUnderlyingStale): nothing tells these apart, and of the latter the
\* code closes those that a side still holds only.  One that is left has told
\* the registry that it closes, which it does once, and works again.
Uses == {"ended", "offer", "answer", "leased", "shared", "left"}
Connections ==
  [use : Uses, side : Sides \union {<<>>}, remote : Handles \union {None},
   open : BOOLEAN]
Ended == [use |-> "ended", side |-> <<>>, remote |-> None, open |-> FALSE]
New(use, s, remote) ==
  [use |-> use, side |-> s, remote |-> remote, open |-> FALSE]

Alive(h) == h \in Handles /\ pc[h].use # "ended"

\* The two ends have each other's description.
Linked(h) == Alive(h) /\ Alive(pc[h].remote) /\ pc[pc[h].remote].remote = h

PeerStates ==
  [offerPeer : Handles \union {None}, answered : BOOLEAN,
   init : Handles \union {None}, expiry : Handles \union {None},
   relays : [Relays -> {"free", "placeholder", "sent"}],
   answering : Handles \union {None}, connected : Handles \union {None},
   active : BOOLEAN]

NoRelays == [y \in Relays |-> "free"]
Idle ==
  [offerPeer |-> None, answered |-> FALSE, init |-> None, expiry |-> None,
   relays |-> NoRelays, answering |-> None, connected |-> None,
   active |-> FALSE]

Offer(s, o) == [type |-> "offer", to |-> Across(s), offer |-> o, by |-> None]
Answer(s, o, a) == [type |-> "answer", to |-> Across(s), offer |-> o, by |-> a]
Messages ==
  [type : {"offer", "answer"}, to : Sides, offer : Handles,
   by : Handles \union {None}]

\* A handler that waits: ensureOffer's promise ("init"), handleAnnouncement
\* ("announce"), handleOffer before and after the answer exists ("apply",
\* "publish") and handleAnswer ("answer").
Task(step, s, relay, o, a) ==
  [step |-> step, side |-> s, relay |-> relay, offer |-> o, by |-> a]
Tasks ==
  [step : {"init", "announce", "apply", "publish", "answer"}, side : Sides,
   relay : Relays \union {None}, offer : Handles,
   by : Handles \union {None}]

\* A handle that nothing mentions any more.
Mentioned ==
  (UNION {{m.offer, m.by} : m \in net \union tasks})
    \union (UNION {{st[s].offerPeer, st[s].init, st[s].expiry,
                    st[s].answering, st[s].connected} : s \in Sides})
    \union (UNION {{h, pc[h].remote} : h \in {g \in Handles : Alive(g)}})
    \union (UNION {offers[x] : x \in DOMAIN offers})
    \union {shared[x] : x \in Pairs}
Unused == setting.handles \ Mentioned
Fresh(h) == h \in Unused /\ \A g \in Unused : h <= g

\* Whether signalling may still connect h, so that no timer fires before.
Underway(h) ==
  \/ \E m \in net \union tasks : h \in {m.offer, m.by}
  \/ Linked(h)

Fault(kind) ==
  /\ kind \in setting.faults
  /\ faults < setting.often
  /\ faults' = faults + 1
  /\ UNCHANGED setting
NoFault == UNCHANGED <<faults, setting>>

-----------------------------------------------------------------------------
\* Mutant of resetOfferState: the offer stays answered.
resetKeepsAnswered(s) ==
  [st[s] EXCEPT !.offerPeer = None, !.expiry = None, !.init = None,
                !.relays = NoRelays]

\* resetOfferState.  The offer peer is destroyed or recycled (Dropped), its
\* close handler finding nothing left to do.
resetOfferState(s) ==
  [st[s] EXCEPT !.offerPeer = None, !.answered = FALSE, !.expiry = None,
                !.init = None, !.relays = NoRelays]
Dropped(s) == {st[s].offerPeer} \ {None}

\* The connections left when those in gone are destroyed.
Destroy(gone) == [h \in Handles |-> IF h \in gone THEN Ended ELSE pc[h]]

\* Mutant of exited: the handshake with the peer is not cleared.
exitedKeepsHandshake(s) == [st[s] EXCEPT !.connected = None]

\* The room exits a peer.
exited(s) == [st[s] EXCEPT !.connected = None, !.active = FALSE]

\* attachSharedPeerToRoom: a peer that is answering is forgotten, not
\* destroyed.
attached(s, h) ==
  [resetOfferState(s) EXCEPT !.answering = None, !.connected = h]

\* p's map of the app holds nothing but its connection with q.
Last(x) == \A y \in Pairs \ {x} : y[1] = x[1] => shared[y] = None

\* The sides of x when the rooms bound to its shared connection exit it.
unbound(x) ==
  [s \in Sides |-> IF Pair(s) = x /\ st[s].connected = shared[x] THEN exited(s)
                                                                ELSE st[s]]

\* Mutant of clearShared: the rooms are not told.
clearKeepsBindings(x) ==
  /\ shared[x] # None
  /\ shared' = [shared EXCEPT ![x] = None]
  /\ stale' = [stale EXCEPT ![x[1]] = @ \/ Last(x)]
  /\ UNCHANGED st

\* SharedPeerManager.clear: the rooms bound to p's connection with q exit it.
\* The last one to go takes the map of the app with it.  The connection is not
\* closed by this.
clearShared(x) ==
  /\ shared[x] # None
  /\ shared' = [shared EXCEPT ![x] = None]
  /\ st' = unbound(x)
  /\ stale' = [stale EXCEPT ![x[1]] = @ \/ Last(x)]

\* SharedPeerManager.register: a connection that is there already is cleared,
\* and if it was the last one, the map that h is added to is cleared away.
register(x, h) ==
  [shared EXCEPT ![x] = IF shared[x] # None /\ Last(x) THEN None ELSE h]

Init ==
  /\ setting \in Settings
  /\ pc = [h \in Handles |-> Ended]
  /\ st = [s \in Sides |-> Idle]
  /\ shared = [x \in Pairs |-> None]
  /\ stale = [p \in Peers |-> FALSE]
  /\ offers = [x \in Rooms \X Peers |-> {}]
  /\ tasks = {}
  /\ net = {}
  /\ faults = 0

-----------------------------------------------------------------------------
\* An announcement, a presence frame or any signal of a peer whose connection
\* is shared already, when the room is not bound to it.
attachShared(s) ==
  /\ st[s].connected = None
  /\ shared[Pair(s)] # None
  /\ st' = [st EXCEPT ![s] = attached(s, shared[Pair(s)])]
  /\ pc' = Destroy(Dropped(s) \ {shared[Pair(s)]})
  /\ UNCHANGED <<shared, stale, offers, tasks, net, faults, setting>>

\* handleAnnouncement, up to ensureOffer: an announcement of a peer that is
\* not being signalled with.  The higher id only announces itself in return.
handleAnnouncement(s, y) ==
  /\ ~Tracker
  /\ st[s].connected = None /\ shared[Pair(s)] = None
  /\ st[s].answering = None /\ ~st[s].answered
  /\ Me(s) < Them(s) \/ st[s].offerPeer # None
  /\ st[s].relays[y] = "free"
  /\ \/ \E h \in Handles :
          /\ \/ h = st[s].offerPeer
             \/ st[s].offerPeer = None /\ h = st[s].init
          /\ tasks' = tasks \union {Task("announce", s, y, h, None)}
          /\ st' = [st EXCEPT ![s].relays[y] = "placeholder"]
          /\ UNCHANGED pc
     \/ /\ st[s].offerPeer = None /\ st[s].init = None
        /\ \E h \in Handles :
             /\ Fresh(h)
             /\ pc' = [pc EXCEPT ![h] = New("offer", s, None)]
             /\ tasks' = tasks \union {Task("init", s, None, h, None),
                                       Task("announce", s, y, h, None)}
             /\ st' = [st EXCEPT ![s].relays[y] = "placeholder",
                                 ![s].init = h]
  /\ UNCHANGED <<shared, stale, offers, net, faults, setting>>

\* ensureOffer's promise resolves, whatever became of the state meanwhile.
ensureOffer(s) ==
  \E t \in tasks :
    /\ t.step = "init" /\ t.side = s
    /\ tasks' = tasks \ {t}
    /\ st' = [st EXCEPT ![s].offerPeer = t.offer, ![s].answered = FALSE,
                        ![s].expiry = t.offer, ![s].init = None]
    /\ UNCHANGED <<pc, shared, stale, offers, net, faults, setting>>

\* handleAnnouncement, with the offer.
sendOffer(s) ==
  \E t \in tasks :
    /\ t.step = "announce" /\ t.side = s
    /\ Task("init", s, None, t.offer, None) \notin tasks
    /\ tasks' = tasks \ {t}
    /\ \/ /\ \/ st[s].connected # None \/ st[s].answering # None
             \/ st[s].answered \/ st[s].relays[t.relay] # "placeholder"
          /\ st' = IF st[s].relays[t.relay] = "placeholder"
                     THEN [st EXCEPT ![s].relays[t.relay] = "free"]
                     ELSE st
          /\ UNCHANGED net
       \/ /\ st[s].connected = None /\ st[s].answering = None
          /\ ~st[s].answered /\ st[s].relays[t.relay] = "placeholder"
          /\ st' = [st EXCEPT ![s].relays[t.relay] = "sent"]
          /\ net' = net \union {Offer(s, t.offer)}
    /\ UNCHANGED <<pc, shared, stale, offers, faults, setting>>

\* announce of the torrent strategy: an outstanding offer goes to the peers
\* the tracker picks.
announceOffers(s) ==
  /\ Tracker
  /\ \E h \in Handles :
       /\ \/ h \in offers[Home(s)] /\ UNCHANGED <<pc, offers>>
          \/ /\ Cardinality(offers[Home(s)]) < setting.ahead /\ Fresh(h)
             /\ offers' = [offers EXCEPT ![Home(s)] = @ \union {h}]
             /\ pc' = [pc EXCEPT ![h] = New("leased", s, None)]
       /\ net' = net \union {Offer(s, h)}
  /\ UNCHANGED <<st, shared, stale, tasks, faults, setting>>

\* clearConnectedPeer: an announcement or a signal of a peer finds its
\* connection stale.
clearConnectedPeer(s) ==
  /\ st[s].connected # None /\ ~Alive(st[s].connected)
  /\ st' = [st EXCEPT ![s] = exited(s)]
  /\ UNCHANGED <<pc, shared, stale, offers, tasks, net, faults, setting>>

\* prunePendingOffer
prunePendingOffer(s, y) ==
  /\ st[s].relays[y] = "sent"
  /\ st[s].connected = None
  /\ "resend" \in setting.faults \/ ~Underway(st[s].offerPeer)
  /\ st' = [st EXCEPT ![s].relays[y] = "free"]
  /\ UNCHANGED <<pc, shared, stale, offers, tasks, net, faults, setting>>

-----------------------------------------------------------------------------
\* A relay delivers m, for the last time or not.  A room that finds itself
\* connected by a dead connection forgets it first (clearConnectedPeer).
Delivers(s, type, m) ==
  /\ m \in net /\ m.type = type /\ m.to = s
  /\ st[s].connected # None => Alive(st[s].connected)
  /\ \/ net' = net \ {m} /\ NoFault
     \/ UNCHANGED net /\ Fault("repeat")

\* Signals of a peer that is connected, or can be through another room.
Signalled(s) == st[s].connected # None \/ shared[Pair(s)] # None

\* Of two peers that make each other offers the lower id has its way.
outranks(s) == Me(s) < Them(s)

\* handleOffer, up to the decryption of the offer.
handleOffer(s) ==
  \E m \in net :
    /\ Delivers(s, "offer", m)
    /\ LET tracked == st[s].offerPeer # None \/ st[s].relays # NoRelays
           hinted  == Tracker /\ offers[Home(s)] # {}
           refused == \/ st[s].answering # None \/ st[s].answered
                      \/ (tracked \/ hinted) /\ outranks(s)
       IN  \/ /\ Signalled(s) \/ refused
              /\ UNCHANGED <<pc, st, tasks>>
           \/ /\ ~Signalled(s) /\ ~refused
              /\ \E a \in Handles :
                   /\ Fresh(a)
                   /\ pc' = [Destroy(IF tracked THEN Dropped(s) ELSE {})
                               EXCEPT ![a] = New("answer", s, None)]
                   /\ st' = [st EXCEPT ![s] =
                        [(IF tracked THEN resetOfferState(s) ELSE st[s])
                           EXCEPT !.answering = a]]
                   /\ tasks' = tasks
                        \union {Task("apply", s, None, m.offer, a)}
    /\ UNCHANGED <<shared, stale, offers>>

\* handleOffer, with the offer decrypted: the answer peer makes its answer.
applyOffer(s) ==
  \E t \in tasks :
    /\ t.step = "apply" /\ t.side = s
    /\ IF Alive(t.by)
         THEN /\ pc' = [pc EXCEPT ![t.by].remote = t.offer]
              /\ tasks' = (tasks \ {t})
                   \union {Task("publish", s, None, t.offer, t.by)}
              /\ UNCHANGED st
         ELSE /\ tasks' = tasks \ {t}
              /\ st' = IF st[s].answering = t.by
                         THEN [st EXCEPT ![s].answering = None]
                         ELSE st
              /\ UNCHANGED pc
    /\ UNCHANGED <<shared, stale, offers, net, faults, setting>>

\* handleOffer, with the answer encrypted: it is sent if it is still wanted.
publishAnswer(s) ==
  \E t \in tasks :
    /\ t.step = "publish" /\ t.side = s
    /\ tasks' = tasks \ {t}
    /\ net' = IF st[s].answering = t.by /\ Alive(t.by)
                THEN net \union {Answer(s, t.offer, t.by)}
                ELSE net
    /\ UNCHANGED <<pc, st, shared, stale, offers, faults, setting>>

\* handleAnswer, up to the decryption of the answer.  The torrent strategy
\* looks up the offer by the tracker's id for it, and uses it up, first.
handleAnswer(s) ==
  \E m \in net :
    /\ Delivers(s, "answer", m)
    /\ offers' = [offers EXCEPT ![Home(s)] = @ \ {m.offer}]
    /\ tasks' = IF Signalled(s) \/ (Tracker /\ m.offer \notin offers[Home(s)])
                  THEN tasks
                  ELSE tasks \union {Task("answer", s, None, m.offer, m.by)}
    /\ UNCHANGED <<pc, st, shared, stale>>

\* Mutant of applyAnswer: any answer will do for the current offer.
applyAnyAnswer(s) ==
  \E t \in tasks :
    /\ t.step = "answer" /\ t.side = s
    /\ tasks' = tasks \ {t}
    /\ IF st[s].offerPeer = None \/ st[s].answered
         THEN UNCHANGED <<pc, st>>
         ELSE /\ st' = [st EXCEPT ![s].answered = TRUE,
                                  ![s].expiry = st[s].offerPeer]
              /\ pc' = [pc EXCEPT ![st[s].offerPeer].remote = t.by]
    /\ UNCHANGED <<shared, stale, offers, net, faults, setting>>

\* handleAnswer, with the answer decrypted.
applyAnswer(s) ==
  \E t \in tasks :
    /\ t.step = "answer" /\ t.side = s
    /\ tasks' = tasks \ {t}
    /\ \/ /\ Tracker /\ Alive(t.offer)
          /\ pc' = [pc EXCEPT ![t.offer].remote = t.by, ![t.offer].side = s]
          /\ UNCHANGED st
       \/ /\ ~Tracker
          /\ IF \/ st[s].offerPeer = None \/ st[s].answered
                \/ t.offer # st[s].offerPeer \/ ~Alive(st[s].offerPeer)
               THEN UNCHANGED <<pc, st>>
               ELSE /\ st' = [st EXCEPT ![s].answered = TRUE,
                                        ![s].expiry = t.offer]
                    /\ pc' = [pc EXCEPT ![t.offer].remote = t.by]
    /\ UNCHANGED <<shared, stale, offers, net, faults, setting>>

-----------------------------------------------------------------------------
\* Mutant of connectPeer: the connection that opens last wins.
connectNewest(h) ==
  /\ Linked(h) /\ ~pc[h].open /\ pc[h].use \in {"offer", "answer", "leased"}
  /\ LET s == pc[h].side
         x == Pair(s)
     IN  /\ shared' = [shared EXCEPT ![x] = h]
         /\ st' = [unbound(x) EXCEPT ![s] = attached(s, h)]
         /\ pc' = [Destroy((Dropped(s) \union {shared[x]}) \ {h})
                     EXCEPT ![h] = [pc[h] EXCEPT !.use = "shared",
                                                 !.open = TRUE]]
  /\ UNCHANGED <<stale, offers, tasks, net, faults, setting>>

\* connectPeer: the data channel of h opens.  A room that is bound to the
\* shared connection has no use for h and leaves it as it is; one that can be
\* bound destroys h; otherwise h becomes the shared connection.
connectPeer(h) ==
  /\ Linked(h) /\ ~pc[h].open /\ pc[h].use \in {"offer", "answer", "leased"}
  /\ LET s == pc[h].side
         x == Pair(s)
         known == IF stale[Me(s)] THEN None ELSE shared[x]
         opened == [pc EXCEPT ![h].open = TRUE]
     IN  \/ /\ st[s].connected # None
            /\ pc' = IF known = st[s].connected THEN opened ELSE Destroy({h})
            /\ UNCHANGED <<st, shared, stale>>
         \/ /\ st[s].connected = None /\ known # None
            /\ st' = [st EXCEPT ![s] = attached(s, known)]
            /\ pc' = Destroy(Dropped(s) \union {h})
            /\ UNCHANGED <<shared, stale>>
         \/ /\ st[s].connected = None /\ known = None
            /\ shared' = register(x, h)
            /\ st' = [unbound(x) EXCEPT ![s] = attached(s, h)]
            /\ pc' = [Destroy((Dropped(s) \union {shared[x]}) \ {h})
                        EXCEPT ![h] = [pc[h] EXCEPT !.use = "shared",
                                                    !.open = TRUE]]
            /\ UNCHANGED stale
  /\ UNCHANGED <<offers, tasks, net, faults, setting>>

\* emitClose: h tells the handlers that are set on it that it closes.  They
\* close an offer that is given up, and nothing else: any other h is what it is
\* after, ended or left.  The registry's clears what is registered with the
\* peer, whether that is h or not.
emitClose(h, after) ==
  LET s == pc[h].side
      isShared    == pc[h].use = "shared" /\ shared[Pair(s)] # None
      isOffer     == /\ pc[h].use = "offer" /\ st[s].offerPeer = h
                     /\ st[s].connected = None
      isAnswering == pc[h].use = "answer" /\ st[s].answering = h
  IN  /\ \/ /\ isShared
            /\ clearShared(Pair(s))
            /\ pc' = [pc EXCEPT ![h] = after]
         \/ /\ isOffer
            /\ st' = [st EXCEPT ![s] = resetOfferState(s)]
            /\ pc' = Destroy({h})
            /\ UNCHANGED <<shared, stale>>
         \/ /\ isAnswering
            /\ st' = [st EXCEPT ![s].answering = None]
            /\ pc' = [pc EXCEPT ![h] = after]
            /\ UNCHANGED <<shared, stale>>
         \/ /\ ~isShared /\ ~isOffer /\ ~isAnswering
            /\ pc' = [pc EXCEPT ![h] = after]
            /\ UNCHANGED <<st, shared, stale>>
      /\ UNCHANGED <<offers, tasks, net>>

\* The other end of a connection is gone, or belongs to another offer, and the
\* connection fails or its channel closes.
notice(h) ==
  /\ Alive(h) /\ pc[h].remote # None
  /\ \/ ~Alive(pc[h].remote)
     \/ pc[pc[h].remote].remote \notin {None, h}
  /\ emitClose(h, Ended)
  /\ NoFault

\* The network between two peers fails, for one end first.
fail(h) ==
  /\ Linked(h)
  /\ Fault("failure")
  /\ emitClose(h, Ended)

\* A connection in use is disconnected for as long as one end waits, and works
\* again before the other end has given up too.
flicker(h) ==
  /\ Linked(h) /\ pc[h].use = "shared"
  /\ Fault("flicker")
  /\ emitClose(h, [pc[h] EXCEPT !.use = "left"])

\* An error of a connection that is or was in use, such as a renegotiation that
\* cannot be applied: the registry forgets what is registered with the peer,
\* and nobody closes it.
peerError(h) ==
  /\ Alive(h) /\ pc[h].use \in {"shared", "left"}
  /\ Fault("error")
  /\ clearShared(Pair(pc[h].side))
  /\ UNCHANGED <<pc, offers, tasks, net>>

\* The connection a side uses.
Using(s) == st[s].connected

\* p's room talks to q's over one end of a connection, and q's room to p's over
\* the other.
Meet(s) ==
  /\ Using(s) # None /\ Using(Across(s)) # None
  /\ pc[Using(s)].remote = Using(Across(s))

\* The other end is open, and its peer uses another connection or none.
Unread(h) ==
  LET end == pc[h].remote
      x   == Pair(Across(pc[h].side))
  IN  /\ Linked(h) /\ pc[end].open
      /\ shared[x] # end
      /\ \A s \in Sides : Pair(s) = x => st[s].connected # end

\* The two rooms shake hands over the connection they share.
activate(s) ==
  /\ Meet(s) /\ ~st[s].active
  /\ st' = [st EXCEPT ![s].active = TRUE]
  /\ UNCHANGED <<pc, shared, stale, offers, tasks, net, faults, setting>>

\* The room exits a peer: its handshake timed out, for nobody reads the other
\* end of the connection; or it failed, or was late, or the peer left the room.
exitPeer(s) ==
  /\ st[s].connected # None
  /\ \/ /\ ~st[s].active /\ Unread(Using(s))
        /\ NoFault
     \/ Fault("exit")
  /\ st' = [st EXCEPT ![s] = exited(s)]
  /\ UNCHANGED <<pc, shared, stale, offers, tasks, net>>

\* The idle timer of a connection that no room is bound to. It is not counted
\* as a fault: what unbound the rooms was.
idle(x) ==
  /\ "idle" \in setting.faults
  /\ shared[x] # None
  /\ \A s \in Sides : Pair(s) = x => st[s].connected = None
  /\ pc' = Destroy({shared[x]})
  /\ clearShared(x)
  /\ UNCHANGED <<offers, tasks, net, faults, setting>>

\* scheduleOfferExpiry
expireOffer(s) ==
  /\ st[s].expiry # None
  /\ IF st[s].connected # None \/ st[s].expiry # st[s].offerPeer
       THEN /\ st' = [st EXCEPT ![s].expiry = None]
            /\ UNCHANGED <<pc, faults, setting>>
       ELSE /\ \/ ~Underway(st[s].offerPeer) /\ NoFault
               \/ Fault("haste")
            /\ st' = [st EXCEPT ![s] = resetOfferState(s)]
            /\ pc' = Destroy(Dropped(s))
  /\ UNCHANGED <<shared, stale, offers, tasks, net>>

\* Mutant of expireAnswer: the answering peer is forgotten, not destroyed.
expireForgetsAnswer(s) ==
  /\ st[s].answering # None /\ st[s].connected = None
  /\ \/ ~Underway(st[s].answering) /\ NoFault
     \/ Fault("haste")
  /\ st' = [st EXCEPT ![s].answering = None]
  /\ UNCHANGED <<pc, shared, stale, offers, tasks, net>>

\* scheduleAnsweringExpiry
expireAnswer(s) ==
  /\ st[s].answering # None /\ st[s].connected = None
  /\ \/ ~Underway(st[s].answering) /\ NoFault
     \/ Fault("haste")
  /\ st' = [st EXCEPT ![s].answering = None]
  /\ pc' = Destroy({st[s].answering})
  /\ UNCHANGED <<shared, stale, offers, tasks, net>>

\* A relay loses a message.
lose(m) ==
  /\ Fault("loss")
  /\ net' = net \ {m}
  /\ UNCHANGED <<pc, st, shared, stale, offers, tasks>>

-----------------------------------------------------------------------------
Next ==
  \/ \E s \in Joined :
       \/ attachShared(s) \/ ensureOffer(s) \/ sendOffer(s)
       \/ announceOffers(s) \/ clearConnectedPeer(s)
       \/ handleOffer(s) \/ applyOffer(s) \/ publishAnswer(s)
       \/ handleAnswer(s) \/ applyAnswer(s)
       \/ expireOffer(s) \/ expireAnswer(s) \/ activate(s) \/ exitPeer(s)
       \/ \E y \in setting.relays :
            handleAnnouncement(s, y) \/ prunePendingOffer(s, y)
  \/ \E h \in Handles : 
       connectPeer(h) \/ notice(h) \/ fail(h) \/ flicker(h) \/ peerError(h)
  \/ \E x \in Pairs : idle(x)
  \/ \E m \in net : lose(m)

Spec == Init /\ [][Next]_vars

\* Rooms announce themselves until connected, relays deliver what they do not
\* lose, promises settle, links that can be made are made, and timers fire.  No
\* fault has to happen.
Fairness ==
  /\ \A s \in Sides :
       /\ WF_vars(attachShared(s)) /\ WF_vars(announceOffers(s))
       /\ WF_vars(clearConnectedPeer(s))
       /\ WF_vars(ensureOffer(s)) /\ WF_vars(sendOffer(s))
       /\ WF_vars(handleOffer(s)) /\ WF_vars(applyOffer(s))
       /\ WF_vars(publishAnswer(s))
       /\ WF_vars(handleAnswer(s)) /\ WF_vars(applyAnswer(s))
       /\ WF_vars(activate(s))
       /\ WF_vars(exitPeer(s) /\ NoFault)
       /\ WF_vars(expireOffer(s) /\ NoFault)
       /\ WF_vars(expireAnswer(s) /\ NoFault)
       /\ \A y \in Relays :
            /\ WF_vars(handleAnnouncement(s, y))
            /\ WF_vars(prunePendingOffer(s, y))
  /\ \A h \in Handles : WF_vars(connectPeer(h)) /\ WF_vars(notice(h))

FairSpec == Spec /\ Fairness

-----------------------------------------------------------------------------
TypeOK ==
  /\ pc \in [Handles -> Connections]
  /\ st \in [Sides -> PeerStates]
  /\ shared \in [Pairs -> Handles \union {None}]
  /\ stale \in [Peers -> BOOLEAN]
  /\ offers \in [Rooms \X Peers -> SUBSET Handles]
  /\ tasks \subseteq Tasks
  /\ net \subseteq Messages
  /\ faults \in 0..setting.often
  /\ setting \in Settings
  /\ \A s \in Sides : st[s].active => st[s].connected # None

\* A room never holds a connection that the registry has given up, closed or
\* replaced: its PeerState and its binding agree.  Once the map of the app is
\* stale, and a room makes links that others may be ahead of, the code does not
\* keep this up: a connection that opens while the registry holds another is
\* lost with the map (register), and the room keeps it.
ConnectedIsShared ==
  \A s \in Sides :
    (/\ st[s].connected # None
     /\ stale[Me(s)] => OneLink) =>
      st[s].connected = shared[Pair(s)] /\ Alive(shared[Pair(s)])

\* An answer is applied to the very offer it was made for, however late it is
\* and whatever offers there were since.
AnswerFitsOffer ==
  \A h \in Handles :
    (Alive(h) /\ pc[h].use # "answer" /\ Alive(pc[h].remote)) => Linked(h)

\* An RTCPeerConnection is not forgotten before it has said that it closes, as
\* long as one room makes one link at a time: of two links, from two rooms or
\* with a tracker from both ends, connectPeer leaves the second open (see
\* README), and so does the registry after an error of the connection
\* (peerError).  One that has said it closes is forgotten without being closed
\* (shared-peer.ts:256, signal-handler.ts:543-554), ended or left.
KnownUntilClosed ==
  \A h \in Handles :
    (/\ Alive(h) /\ pc[h].use # "left"
     /\ OneLink /\ "error" \notin setting.faults) =>
      \/ \E s \in Sides : h \in {st[s].offerPeer, st[s].init, st[s].answering}
      \/ \E x \in Pairs : h = shared[x]
      \/ \E x \in DOMAIN offers : h \in offers[x]
      \/ \E t \in tasks : h \in {t.offer, t.by}

\* An earlier connection of a pair that is not closed yet and will tell the
\* registry when it is.
LeftBehind(x) ==
  \E h \in Handles :
    /\ Alive(h) /\ pc[h].use = "shared" /\ Pair(pc[h].side) = x
    /\ h # shared[x]

\* A connection that both peers have, that works and that a room of theirs uses
\* is not taken from them: only what happens to it ends it, never another
\* connection that comes up.  An earlier one of theirs that the registry dropped
\* for an error, or lost with its map, does end it when it closes: the close
\* handler goes by the peer's id (shared-peer.ts:256).
WorkingKept ==
  [][\A x \in Pairs :
       (/\ Linked(shared[x]) /\ pc[shared[x]].remote = shared[<<x[2], x[1]>>]
        /\ \E s \in Joined : Pair(s) = x /\ st[s].connected = shared[x]
        /\ ~LeftBehind(x)
        /\ Cardinality(setting.rooms) = 1
        /\ faults' = faults) => shared'[x] = shared[x]]_vars

\* In spite of faults, as long as they end, peers meet in all their rooms.
EverybodyConnects == \A s \in Sides : <>[](s \in Joined => Meet(s))

=============================================================================
