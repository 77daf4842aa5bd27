# Verification of Trystero

Trystero lets browsers find each other over a public medium (a BitTorrent
tracker, Nostr and MQTT relays, Firebase, Supabase, IPFS or a WebSocket relay)
and then talk directly, over one WebRTC connection per pair of peers, which all
the rooms they are both in share. This directory holds TLA+ models of its
core, the TLC configurations that check them, and proofs of most of the safety
properties they check.

## The system

Sources are under `packages/*/src`; `core/src` is the engine, the others adapt
it to a medium.

| Component | State | Operations | Hard about it | Correct means |
|---|---|---|---|---|
| `strategy.ts` | rooms of each app, their tokens, `peerStates` of each room, announce timers | `joinRoom`, `leave`, `connectPeer`, `attachSharedPeerToRoom`, presence, `queueAnnounce`, `checkDeactivate` | rooms share connections, a pool and relays; leaving takes time; passive rooms sleep and wake while announces are awaited | one announce loop per relay; a room that was left is gone; duplicates of a connection are resolved alike on both sides |
| `signal-handler.ts` | a `PeerState` per room and peer | announcement, offer, answer, candidate; expiry of each | handlers await crypto and WebRTC, relays repeat and reorder, both sides time out | an answer meets its offer; nothing is forgotten open; peers end up connected |
| `shared-peer.ts` | the connections of each app and the rooms bound to them; frames that wait for a room | `register`, `clear`, `bind`, detach, idle timer, dispatch of data and tracks | rooms bind and unbind on their own; frames outlive a binding | a room is bound to a connection that is there; frames reach the room they were for |
| `handshake.ts` | a `PendingPeerState` per peer: stage, passed, remote ready, active | `start`, `receiveHandshakeData`, `receiveHandshakeReady`, timeout, password challenge | runs go on after their peer was replaced; each side decides for itself | no activation without the password; both sides or neither; nothing an active side sends is dropped |
| `room.ts` | peers of the room, pending and active | `onPeer`, `exitPeer`, `leave`, `ping` | the 99 ms of `leave()` | whoever left is not listed |
| `offer-pool.ts` | the pool, leases, recycling | `warmup`, `checkout`, `claimLeased`, `reclaimLeased`, `recycle`, `destroy` | each waits for WebRTC while the others go on | a connection has one owner and never none |
| `action-wire.ts` | nonce, partial transmissions | `send`, `handleData`, `clearPeer` | backpressure, aborts, nonce wrap | what is reassembled is what was sent |
| `actions.ts` | waiters of requests, messages queued before a handler exists | `send`, `request`, `respond`, `clearPeer` | response, timeout, abort and departure race | a request settles exactly once |
| `media.ts` | metadata waiting for tracks | `addStream`, `addTrack`, receive | metadata and media travel apart, over a connection shared by rooms | a track gets its own metadata |
| `peer.ts` | one `RTCPeerConnection`: negotiation and candidate queues | `getOffer`, `signal`, `sendData`, `destroy` | perfect negotiation, candidates that are early | no candidate lost, no negotiation stuck |
| `topic-strategy.ts`, `mqtt`, `nostr`, `ws-relay` | subscriptions per relay and topic | subscribe, publish, clean up, resubscribe | cleanup races the subscription it undoes | whoever is subscribed gets messages, after reconnections too |
| `torrent` | offers outstanding at trackers | announce, claim, reclaim, hand over | offers are shared by the subscriptions of a room | an offer is answered once, and taken back or claimed |
| `utils.ts` sockets | retry periods, a lock on reconnection | `makeSocket`, `pauseRelayReconnection`, `resumeRelayReconnection` | a scheduled retry races a pause | one socket per relay; a lost one is replaced once reconnection is not paused |
| `ws-relay/server.ts` | sockets of topics, topics of sockets | subscribe, publish, close | | both maps agree |
| `firebase`, `supabase`, `ipfs` | subscriptions kept by a library | adapters | | |

How they interact: a strategy gives `createStrategy` its `subscribe` and
`announce`; what arrives on a topic goes to the room's signal handler, which
takes offers from the pool and, when a data channel opens, calls
`connectPeer`. That registers the connection with the `SharedPeerManager` or
takes the one that is registered, binds the room to it and hands the room a
proxy. The room runs its handshake over the proxy and, once it passed on both
sides, reports the peer to the application. Closing travels the other way: a
closed connection detaches all its rooms, a room that fails or leaves detaches
itself, and a connection without rooms is closed after two minutes.

The hazards of all this are listed, each with its line, in `PROJECT.json`.

## Modules

### Admission: who gets into a room

`Admission.tla` is `handshake.ts` and the part of `room.ts` that admits and
drops peers, over a transport that other rooms keep open (`shared-peer.ts`).
`hs[p][q]` is p's binding to q with its `PendingPeerState`; `wire[p][q]` is the
data channel, ordered and reliable; `pend[p][q]` is `pendingDataByToken`, the
frames p's detached room did not get and its next binding will; `late[p][q]`
are handshake runs whose binding is gone, which answer challenges all the same;
`room[p]` has the pause of `leave()` as a state of its own. One action per
handler (`receiveHandshakeData`, `receiveHandshakeReady`, `receiveLeave`,
`receiveData`), per continuation of the handshake (`verifyResponse`,
`answerChallenge`, `answerLate`, `markLocalHandshakePassed`), and for
`timeOut`, `rejectPeer`, `startLeave`, `finishLeave`, `joinAgain`, and
connecting, closing, attaching. `Faults` and `MaxFaults` say what may go wrong,
and how often: a timeout, a rejection by the application, a departure, a lost
transport.

### OfferCustody, OfferPool and TorrentOffers: who has which connection

`OfferPool.tla` is the class of `offer-pool.ts`, with the room that holds a
peer (`giveBack`, `answer`, `finish`) as its environment. `job`, `recycling`
and `leased` are the three ways a peer is out of the pool while something is
awaited; `die` is a browser closing a connection at any time.

`OfferCustody.tla` is what the pool promises its callers, without anything of
how it does it: `place[h]` says whether a connection is ready, out, a room's,
used up by an answer, or nowhere. `OfferPool` maps its state to it (`Place`,
`Offers == INSTANCE OfferCustody WITH ...`), and `KeepsCustody` says that every
step of the pool is a step of `OfferCustody` or none.

`TorrentOffers.tla` composes the pool with the caller that leases: the offers a
room has outstanding at its trackers (`torrent/src/index.ts`). `listed` is the
room's record, `old` those of it past their retention, `generating` whether
there is a promise of more, `coming` the peers that are being made for it;
`waiting` is an announcement that waits for such a promise, which may have
been deleted meanwhile (`stray`). `fn` is the closure all announcements call;
`activate`, `deactivate`, `subscribe`, `cleanupSubscription` and `claim` are the
handlers, `generated` and `resume` the continuations. With `strategy` = "any"
the pool has an unspecified caller instead, as `OfferPool!Next` has it.

### Signaling: how two peers get connected

`Signaling.tla` is `signal-handler.ts`, with `connectPeer`, `disconnectPeer`
and `attachSharedPeerToRoom` of `strategy.ts`, and `register`, `clear` and the
idle timer of `shared-peer.ts`. `st` has the `PeerState` of every room and
pair, `shared` the registry, `stale` whether rooms still hold the app's map
from before it was deleted, `pc` the `RTCPeerConnection`s with the ends they
are linked to, `tasks` the handlers that wait for a promise and `net` the
messages at the relays. A handler is cut at each await whose result it
combines with state it reads later. What differs from one deployment to
another is chosen once, in `setting`: the rooms, the relays, how many offers
are made ahead (more than none makes the strategy a torrent tracker), and what
may go wrong, and how often: a message lost or repeated, a link that fails, one
that is disconnected for the 5 s of one end and then works again ("flicker"), one
that reports an error, a room that exits its peer, an idle timeout, an
announcement that is made again while signalling is under way ("resend"), and
timers that fire then ("haste"; otherwise they are slower than it, as 23 and 57
seconds are).

A connection that closes, fails or stays disconnected tells its handlers, and
these forget it without closing it: `emitClose` is what they do. The registry's
(shared-peer.ts:256) clears whatever is registered with the peer, be it the
connection that closes or one that came after it. A failure reaches both ends
(`fail`, then `notice`), and the connection has then `ended`, whether somebody
closes it or not: it carries nothing more and tells nobody anything more. After a
`flicker` it is `left`: it works, the other end uses it, and nobody at this end
knows it. After an error (`peerError`) nobody knows it either, and it has yet to
tell its handlers that it closes. One-sided disconnections are modelled of
connections in use; one that is still being made fails or comes up.

Handshakes are reduced to their outcome: they complete when each room is
bound to the other's end of one link, and time out when nobody reads the
other end; Admission has the rest.

### Peer and Media: what two ends agree on, and what comes through

`Peer.tla` is `peer.ts` on both ends of one connection. The browser does what
it is told in order: `chain[e]` are the operations e has asked for, each with
the handler that waits for it (`for`), and `complete` is one of them taking
effect: `setLocalDescription`, `rollback`, `setRemoteDescription`,
`addIceCandidate`. The handlers are `createOffer` (by `onnegotiationneeded`),
`renewOffer` (by the pool), `sendOffer` (by `ensureOffer`), `onicecandidate`,
`relayed` and `signalled` (a signal that came over a relay, or over the channel
once it is open), with `signalOffer`, `signalAnswer` and `signalCandidate` for
the branches of `peer.signal`. `peer[e]` has the flags perfect negotiation goes
by and the candidates that wait for a description. Of a description its type,
ICE generation and numbers of tracks and sections are kept. What the initiator
emits before `ensureOffer` sets its handlers reaches only the handler by which
`offerPromise` waits for an offer (peer.ts:404-412): candidates of that time get
to the other end in the local description, if it is read after them, or not at
all. `sendOffer` chooses; one in the description travels as a signal of its own.

`Media.tla` composes it with `media.ts` and the cache of tracks of
`shared-peer.ts`: `addTrack` sends the metadata over the channel and the track
by a negotiation; `metas` are those waiting for a track, `known` the tracks
that have come; `receiveTrackMeta` and `receiveRemoteTrack` pair them.

### StrategyRooms: joined, announced, present, asleep

`StrategyRooms.tla` is the part of `strategy.ts` that runs a room: its
registration and token, `queueAnnounce` with its timers (`loops` counts the
announcements that are awaited, the timer the code knows, and the timers it has
overwritten and forgotten), waking and putting to sleep (`derived`, `hear`,
`graceOver`, `checkDeactivate` in whatever calls it), and the presence frames
and tokens of `shared-peer.ts` by which rooms of connected peers meet without
signalling. `wire[p]` are frames on their way to p, in order. Of the room's own
signalling only the beginning and the end are seen; Signaling has the rest.
`setting` chooses which peers are passive, how often the room is joined and
where it may be left, whether other rooms connect the peers, whether the
connection fails, and whether the relay is deaf.

### ActionWire and Requests: what is sent arrives, what is asked is answered

`ActionWire.tla` is `action-wire.ts`: `send` cuts a message into chunks and
pushes as many as the data channel has room for; `loops` are the ones that wait
for it to drain, and go on (`drained`), or stop because they were aborted, the
peer changed or 10 s passed (`stopped`). `partial` is `pendingTransmissions`.
A message that is completed with data of another (`Garbled`) may be such that
`handleData` throws (`throws`), and is lost; strings, bytes and data that happens
to be JSON are handed on all the same.
The active handles of `room.ts` are numbered sessions. `Requests.tla` extends it
to `actions.ts`: `requestOne`, `receiveResponse`, `rejectAsAborted`, `timeOut`,
`queueIncomingRequest`, `refuse`, `handlerReturns`, `clearPeer` and the setter of
`onRequest` are actions; `waiters` is `pendingRequestWaiters`. The specification
that is checked is the two together.

### RelaySocket, NostrRelay, WsRelay, MqttRelay and TopicStrategy: who is subscribed

`RelaySocket.tla` is `makeSocket` and the lock on reconnection: `onclose`,
`init`, `onopen`, `pauseRelayReconnection`, `resumeRelayReconnection`, and
`unlocked`, the moment between the resolved promise and what waited for it.
Every WebSocket has a number; `up` has what is on its way to the relay over
each, so that a relay may still read from the old one when the new one is open.
Three adapters extend it. `NostrRelay.tla` has the batches: `batchAdd`,
`batchRemove`, `flushBatch` and `resubscribeOnReconnect` are functions from the
client's state and the frames it is about to send to the next, as one handler
may call several. `WsRelay.tla` has the reference-counted topics of the client
and the two tables of its server. `MqttRelay.tla` has the counts and handlers of
the MQTT client; the library that makes its connections, and subscribes again
when one is lost, is external, and so is its broker. `TopicStrategy.tla`
composes all with `topic-strategy.ts`: `adapter` says which is used (`Adapter`
selects its operations), `sub[<<r, n>>]` is the n-th join of room r, with a
phase for each await of `subscribe`, the state of the subscription to its own
topic, and `didLeaveRoom`. A relay is external for Nostr: a filter for each id.
The continuations of promises that were made in an order run in it (`InTurn`).

## What the runs show

| Run | Instance | Result |
|---|---|---|
| `admission` | two peers, two passwords or none; two bindings of one transport; any two faults | `PasswordGate`, `AdmissionAgreement`, `NoDataDropped`, `NoFalseRejection` hold; so does `EverybodyMeets`: without faults the handshake has no role deadlock |
| `admission_rejection` | timeouts | `RejectionMeansWrongPassword` fails: see findings |
| `admission_departed` | leaves, a transport that stays up | `DepartedForgotten` fails: see findings |
| `offer_pool` | three peers, a pool of two; any caller, or a room at two trackers that has two offers outstanding | `SingleCustody`, `Accounted`, `OutstandingOffers`, `ReleasedAfterDestroy` hold, and the pool implements `OfferCustody` (`KeepsCustody`) |
| `signaling` | one room, two relays, one loss, repetition, failure, exit, hasty timer or announcement made again, and idle timeouts; or one room, one relay, three failures, one-sided disconnections, errors, exits or hasty timers in a row, and idle timeouts; or one room, a tracker, an error or an announcement made again; or two rooms without faults | `ConnectedIsShared`, `AnswerFitsOffer`, `KnownUntilClosed` and `WorkingKept` hold |
| `signaling_connects` | one room, one relay, one fault of any kind except an error and a one-sided disconnection | `EverybodyConnects` holds |
| `signaling_rooms_split` | two rooms, no faults | `EverybodyConnects` fails: see findings |
| `media` | two ends; an offer renewed in the pool and a track; two tracks of each end; a track of each end in each of two rooms; two tracks of one in both rooms | `NeverRejected`, `MetadataFits`, `Opens`, `TracksShown` hold |
| `strategy_rooms` | a room on two peers, active or passive on one or both, over a connection of other rooms or of its own, which may fail or idle; left and joined again; with a relay that hears or is deaf | `PresenceTold`, `KeepsAnnouncing`, `AwakeForAReason`, `Silent`, `Meets` hold |
| `requests` | two requests of one peer to another, two sessions, aborts, stalls, a message that was cut short before | `Whole`, `HandledOnce`, `OutcomeTrue`, `PendingHasPeer`, `RequestsSettle` hold |
| `relays` | a room, active or passive, on a Nostr, self-hosted or MQTT relay; its socket is lost once, reconnection paused at will; joined again after it was left (except on Nostr) | `Listens`, `RelayAgrees`, `LeftIsReleased`, `HearsAgain` hold |
| `relays_rejoin` | a room joined twice on Nostr | `Reached`, the first part of `Listens`, fails: see findings |

Each run of several properties checks its module's type invariant as well.

Bounds. Two peers are enough for everything said about a pair, and every
property here is about pairs; Admission's frames and challenges per link are
bounded by what a handshake with one leftover run can have on its way, and an
action that would exceed a bound waits. `MaxAttaches` = 2 allows the replay of
one binding's frames to the next. The offer pool
needs two peers in the pool and one elsewhere for any two of its
operations to meet; a room needs two offers and two trackers for one of them to
be missing, and for one announcement to wait for another (the code has three of
each). In Signaling, handles are used again
once nothing mentions them; five are two links and an attempt that expires, or,
in two rooms, four are two links. One fault at any point covers each recovery
path; with one relay there may be three, since an earlier connection that was
dropped unclosed matters only when it closes after another has taken its place. In Media two tracks of an end make one negotiation
follow another or cross it, and two rooms share each track. In StrategyRooms
three joins are a room on each peer and one that is joined again; two loops of
announcements are one more than there should be; two frames are what a room
that wakes may say before the last is heard. In Requests a request has two data
chunks, the fewest of which one can be left over, and there are two nonces in
place of 65536: two requests can be on their way, and the run starts where the
nonces have come round to that of a request that was aborted half-sent. In
`relays` a room has two topics, and chunks of one make a batch grow to two
subscriptions and shrink again; two sockets make one reconnection, at any point
of a subscription; four ids are two in use and two that the relay still knows.
Handles, rooms and relays are interchangeable; symmetry is used only where no
liveness property is checked (`signaling`; `WorkingKept` is an action property).

Fairness. Announce loops run for as long as a room is joined (every 5.3 s;
`queueAnnounce`, strategy.ts:482-538, goes on after an error), promises of
WebCrypto and WebRTC settle, data channels deliver, and timers fire: hence weak
fairness of each handler, continuation and timer. No fault is ever fair. Closing
a transport is fair only once the other side has closed it. In Requests the
application's handlers return; a loop goes on or stops, for the wait for its
channel ends after 10 s at the latest. In TopicStrategy a connection that is tried
opens or fails, and may fail `MaxConns` - 1 times; timers fire and relays read
what they got. That reconnection is resumed is not assumed: `HearsAgain` has it
as its premise. In Media the browser goes on with its chain and the pool's offer
is handed out some day, but no application has to add a track. In TorrentOffers
checkouts settle, offers get old, leases end, and a room whose pool has gone is
cleaned up after. In StrategyRooms tokens are derived, relays confirm, announce
timers fire and frames are received; and because an announcement is only on the
air for a moment while others follow it every few seconds, `hear` is strongly
fair, except where the setting makes the relay deaf. Leaving, joining and
failing are never fair.

### Findings

1. *Departed peers stay listed.* A peer attached during the 99 ms of `leave()`
   is never told (`admission_departed`).
2. *Correct passwords are reported as incorrect.* A response to a handshake that
   timed out is replayed to the next one (`admission_rejection`).
3. *Two rooms, two links, no peers.* Rooms joined at the same time can leave one
   peer using a link whose other end the second has orphaned but not closed; as
   it stays open neither signalling nor the idle timer gets them out
   (`signaling_rooms_split`).
4. *A room joined again on Nostr goes deaf.* If it was left and joined again
   before its relay was ready, the cleanup of the first join removes the
   handlers of the second (`relays_rejoin`); `mqtt` and `torrent` guard the
   same step with tokens.

Each is described with its lines under `findings` in `PROJECT.json`.

### Where the properties stop holding

The instances were chosen so that what holds is told apart from what does not.
Beyond them:

- `EverybodyConnects` does not hold at a tracker (one offer ahead, six handles,
  no faults): offers that cross end like finding 3, because the tie-break of
  `handleOffer` (signal-handler.ts:528) depends on whether the lower id has an
  offer outstanding at that moment.
- Nor does it with one error of a connection, or one disconnection that lasts for
  the 5 s of one end only (faults {"error"} or {"flicker"}): the handler forgets
  the connection without closing it (shared-peer.ts:256-260, peer.ts:361-378), and
  the other side, for whom it is alive, ignores all further signals
  (signal-handler.ts:822-825). Nothing gets them out of it.
- `KnownUntilClosed` says nothing of a connection that has told its handlers that
  it closes: neither they nor those of an answering peer
  (signal-handler.ts:543-554) close it, so that one that failed, or recovers, stays
  in the browser unknown to anybody.
- `WorkingKept` allows an earlier connection of the same peers that is open and
  dropped (`LeftBehind`) to take a working one away. Without this it fails with an
  error and an idle timeout: after the error each side still has the old
  connection's handlers, and when it closes, the registry's clears the new
  connection, as it goes by the id of the peer (shared-peer.ts:256).
- `ConnectedIsShared` speaks of a room whose map of the app is stale only if one
  link is made at a time, and `KnownUntilClosed` only of that case, without errors:
  under "What is proved" is what happens otherwise. With two rooms, or with a
  tracker from both ends, two links may open of which one side keeps each, and
  `connectPeer` leaves the one it has no use for open (strategy.ts:306).
- `WorkingKept` does not hold with two rooms and a link that fails: after the last
  connection of an app was lost, `clear` deletes the app's map while rooms go on
  looking at it (shared-peer.ts:212, strategy.ts:238), and a second room's
  connection destroys the first room's.
- `Whole` allows one exception, which happens: the chunks of a message that was
  cut short stay with the receiver, nobody tells it, and get into the message
  that is given their nonce 65536 messages later (action-wire.ts:332, 414).
- `RequestsSettle` allows two as well, of a request without `timeoutMs`. `send`
  resolves when it has given up (action-wire.ts:356-360), so that the request may
  wait for ever for an answer to a question that was never asked. And a question or
  an answer that is completed with data of a message that was cut short is mostly
  no JSON any more: `fromJson` throws after the entry is deleted
  (action-wire.ts:440-446), no handler runs and nothing is sent back. Without the
  second exception the run fails, for a request of which nothing was cut short.
- `EverybodyMeets` is said of runs without faults: a transport lost in
  mid-handshake is replaced, but what was under way on it is only ended by a
  timeout.
- `RelayAgrees` and `HearsAgain` do not hold for the self-hosted relay after a
  reconnection: its client passes no `onReconnect` to `makeSocket`
  (ws-relay/src/index.ts:80, utils.ts:181), so the new socket is subscribed to
  nothing until a topic gets its first handler again.
- That no socket is opened while reconnection is paused does not hold: a timer
  that was armed before the pause is not stopped (utils.ts:163). A pause that
  directly follows a resume, before the promise's `finally` has run, has no
  effect (utils.ts:121-130). The MQTT library reconnects by itself, whatever is
  paused.
- If `ensureOffer` rejects, the placeholder it left stays (signal-handler.ts:881),
  and no offer is made over that relay again; Signaling has offers that are made.
- An announcement at a tracker that waited for offers goes on when it has them
  though its room has meanwhile been put to sleep or left (torrent/src/index.ts:
  170, 350): it makes the record anew, asks for offers and sends them. Nobody
  takes those back; their leases end them, and the record keeps the names of
  dead offers. Hence `OutstandingOffers` speaks of leases only before `old`, and
  of a pool that is not gone.
- `MetadataFits` is about tracks of one kind that all rooms add in one order. A
  browser gives a second track the transceiver of its kind, so that tracks of
  two kinds may arrive in another order than their metadata, which is taken from
  the front of a queue (media.ts:342); rooms that add different tracks at once
  can do the same.
- `TracksShown` and `Opens` take it that the room that signals for a connection
  is through its handshake: before that its frames are dropped (room.ts:269),
  a renegotiation included, and the end that offered waits in
  `have-local-offer`. A candidate kept under another offer's id may be given to a
  peer that answers (signal-handler.ts:669).
- `AwakeForAReason` and `Silent` allow a passive room that lost its peer by a leave
  message, a rejection or a handshake's timeout to stay awake: `exitPeer`
  destroys the proxy before it calls `onPeerLeave`, whose `checkDeactivate` is
  never reached, as the peer is known no longer (room.ts:150-157,
  strategy.ts:623-634). `exited` marks these rooms. When a connection closes, which
  is what test/node/passive-mode.spec.ts:484 tries, the order is another and the
  room falls asleep.
- Passive peers do not answer each other's announcements, but if they share a
  connection for another room, their presence has them connect all the same when
  both are awake (strategy.ts:146-168; README.md says passive peers do not connect
  to each other).
- `KeepsAnnouncing` says there is a loop, not that there is one only: a room that
  falls asleep and is woken while an announcement is awaited has two
  (strategy.ts:535, 582-594), the second of which overwrites the timer of the
  first; falling asleep then stops one of them, and the other when its timer
  finds the room asleep.
- `Meets` is about rooms joined once on each peer: a leave message that arrives for
  a room that is not bound any more is kept by its token (shared-peer.ts:435) and
  ends the next binding, which was joined later.
- A room is left once for each time it is joined. If `leave()` is called twice, or
  `joinRoom` while the room leaves, which returns the leaving room
  (strategy.ts:213), the later end of `leave` removes the registration of
  whatever room has it by then (strategy.ts:635).

## What is proved

Each theorem is about every value of the constants, under the assumptions the
module names: any number of peers, rooms, relays, connections and requests, any
bounds, and any combination of the faults. An invariant of the runs is seldom
inductive; what it takes besides is named below, was itself checked with TLC on
the run's instance first, and is proved with one lemma for each action.

**Who gets into a room** (`AdmissionProofs.tla`).

- `TypeCorrect`, from lemmas on what sending, taking a frame and leaving do to
  the wires and states.
- `PasswordGateHolds`. A side trusts a frame that says nothing about who sent
  it. `GateInv` adds that frames are honest: whatever is on a wire or waits to
  be replayed and is a response was computed from its sender's password, and
  readiness was sent by a side that passed; and that a state is reachable: to
  have passed, or to be about to, needs an honest frame that fits.
- `AdmissionAgreementHolds`, `NoDataDroppedHolds`, `NoFalseRejectionHolds`. These
  rest on order. `LinkInv` takes the frames kept for a binding and those in the
  channel as one queue and says, for each direction of a link: what a side has
  read of the other and still will is true of it (`Sound`), readiness comes
  before data (`ReadyLeads`), and everything about a challenge on a first
  binding is about the one challenge that was sent (`Asked`). Runs that are left
  over from a binding exist only once it has ended.

**Who has which connection** (`OfferProofs.tla`).

- `CustodyKept`: custody is exclusive, `pooled` is the membership of `pool`, and
  who is live is somewhere; with it `TypeCorrect`, `SingleCustodyHolds` and
  `AccountedHolds`. The order-preserving filter of `cleanup` is a function on
  positions, since the recursion of `SelectSeq` is not visible to the provers.
- `CustodyImplemented`, the refinement: the initial state maps to one where every
  connection is nowhere, and each action of the pool to one of `OfferCustody` or
  to a stutter: `checkout` to `HandOut`, `encryptFails` to `Replace` or `Close`,
  `claimLeased` to `Take`, `recycle` to `Return`, `Close` or, when the peer was
  destroyed while it was out, to nothing new, `warmup` to `Fill`, `cleanup` to
  `Clean`, `destroy` to `End`. That taking a connection from one place puts it
  where `OfferCustody` has it is `Custody`, by which every step is strengthened.
- `OutstandingOffersHolds`: with a room at its trackers as the caller. `TorrentInv`
  adds to `Custody` that what is listed, being made and asked for is never more
  than what is wanted (`Counted`: two announcements at once do not make it so),
  and that offers still in their retention are leased, those on their way
  promised to be (`Held`). `PoolKept` and `CustodyOfTorrent` carry the pool's
  invariants and its refinement over to this composition, whose `reclaim` takes
  back many leases in a step (`TakeBack`).

**How two peers get connected** (`SignalingProofs.tla`), in any setting: several
rooms and relays, trackers, every fault.

- `TypeCorrect` and `AnswerFitsOfferHolds`, from `LinkInv` and `Leaders`. An answer
  travels through a message and two handlers, while offers are reset, recycled
  and replaced. `Makers` says that what a side calls its offer or answer is one,
  made by it, and unanswered as long as the side has not been answered; `Leases`
  that an offer of a tracker is taken out of the record by the first answer, so
  that one handler at most is about to apply one; `Answers` that whatever carries
  an answer has it with the offer it was made for, and has it alone while it is
  being made. `Leaders` is the order of ids: without a tracker only the lower id
  makes offers.
- `ConnectedIsSharedHolds` and `KnownUntilClosedHolds`, from `RegistryInv`, which adds: a
  registered connection lives and leads to the peer it is registered for
  (`Registered`); and with one link at a time, a connection that is on its way is
  the only one of its side, which knows it and has no other (`Single`), and every
  connection in use that has not told the registry that it closes is registered
  (`AllRegistered`), unless an error may happen.
- `WorkingKeptHolds`, an action property: the one side a connection in use belongs
  to cannot be without one when another opens, the idle timer does not run, and
  the close handlers that run are those of an earlier connection that is left
  behind (`LeftBehind`), which the property excludes.

The proof showed two invariants to have been true of the run's instance only, and
they now say what is true in general. `ConnectedIsShared` failed for a room at a
tracker in which a link fails and the room exits its peer: the map of the app is
stale then, a second link opens while the registry holds the first, `register`
clears the old one and with it the map that it adds the new one to
(shared-peer.ts:217-266), and the room is left with a connection the registry has
not got. `KnownUntilClosed` failed with an error, which forgets the connection
without closing it. Both are the code's doing; the first now excludes a stale map when
links may cross, the second the error.

**What two ends agree on, and what comes through** (`MediaProofs.tla`,
`TrackProofs.tla`), for any number of rooms, tracks and renewals, and any plan of who
adds what.

- `NeverRejects` and `PeerTypes`, from `PeerInv`. An operation joins a chain because
  of what the browser could do then, and is done later. A chain is `Chained`: what
  stands before an operation leads to the state it needs. An offer that waits for
  its answer is in one place, on its way, in a chain, being answered or its
  answer is (`Turns`). When offers cross, the responder's is either still to be
  answered or one the initiator will ignore (`Crossing`). Over the relays go the
  first offer and its answer alone (`Relayed`), nothing goes at all before the offer
  has left the pool (`Pooled`), until both ends are open there is no media to
  negotiate (`Opening`), and what is on its way is of the generation that the other
  end has (`Current`).
- `MetadataIsRight` and `TypeCorrect`, from `TracksInv`. Tracks and their metadata
  come by different ways, and a room pairs them by their order. What a room was
  told of and waits for are the tracks that come next, and what it was not told of
  is on its way (`Told`); metadata for a room travel in their order
  (`Increasing`); a description never overtakes the metadata of the tracks it has
  (`Follows`); and a connection has as many tracks as the room that added most
  (`Owning`).

**A room's life** (`StrategyRoomsProofs.tla`): `TypeCorrect`,
`KeepsAnnouncingHolds` and `AwakeForAReasonHolds` from `RoomInv`, which counts the
announcements in flight, the timer and the forgotten timers of each room as its
loops and has one wherever the room is awake and there is someone to announce
to; `PresenceToldHolds` from `ToldInv`, which says what a peer will believe once it
has read all frames on their way to it (`Final`), and that this is what is so.

**What is asked is answered** (`RequestsProofs.tla`):
`PendingHasPeerHolds`, with the fact that no request was made in session 0, which
is what a room that has lost a peer has; `TypeCorrect`; `HandledOnceHolds` and
`OutcomeTrueHolds` from `RequestInv`, which follows a request from its chunks
(`Road`: there is one loop that sends it, or one last chunk on its way) through
the queue and the handler to its response (`Fate`: while it is on its way nothing
has been done about it, and a response says what was).
They rest on lemmas about the wire: its types, sessions that only grow, and that
the metadata with which a message is completed are its own even when a nonce is
used again.

`WholeHolds`, from `WholeInv`: a message that is completed is whole. For each
direction of a link in a session, `Lane` says of every chunk, on its way or yet to be
sent by a loop that may go on, that it will find what it needs where it arrives
(`Due`): the first of a message finds an entry in which nothing is open but messages
that were cut short (`Over`), any other exactly the parts before it (`Fits`,
`Holds`). An entry is looked up by action and nonce, so the chunk that decides is the
last one before it with the same two (`LastSame`), or, when there is none, the data
that is there. `Rising` says that the parts of a message come in their order. When a
loop gives up, what was due after it is over, its message now being one that was cut
short; when the sessions of two peers end at different moments, the side that is
left has no loop that may go on and owes nothing. `Rising` needs that a message is
sent once, which is a matter of requests, not of the wire: `Parts` says that all
data anywhere is of messages that `Road` knows, so that neither a new request nor
the response to one that is still handled has left any (`NotSentYet`). `Whole` is
stated over positions, with no operator that is a recursion over a sequence.

**Who is subscribed** (`TopicProofs.tla`). `Holders(t)` are the subscriptions of topic t
that are still to be cleaned up; the handlers of a topic are among them, and include
all whose room is not left (`Held`).

- `ListensHolds`, from `ListenInv`. Except over the self-hosted relay a topic has one
  handler, so that whoever subscribes takes it from another. That this other has left
  is a matter of order: a room is joined again when it was left, and what waits for the
  same promise goes on in turn (`Turn`), so that a later join of a room never subscribes
  before an earlier one. A message that makes several joins of a room subscribe to its
  own topic is the other case; they are the handlers of its root topic, of which there
  is one. Over Nostr, whose cleanup removes a topic for everybody, the theorem is about
  rooms that are joined once: for others it is false (finding `relays_rejoin`).
- `RelayAgreesHolds` and `TypeCorrect`, over MQTT and the self-hosted relay, from
  `RelayInv` with `ListenInv`. MQTT's count of a topic is the number of its holders
  (`Counts`), so it is never below zero and reaches it with the last; that the broker
  subscribes on the first and unsubscribes on the last is what keeps
  `WillHave`, what the server will have when it has read the frames on their way, equal
  to what the client wants (`Agreed`). A socket that is still to open has never been
  used (`Unused`), so on a reconnection the frames of `Resubscriptions` are all the
  broker reads; the client of the self-hosted relay sends none, and the invariant says
  of it no more than that its first socket agrees.

Assumptions on constants beyond types: ids are numbers (their order is that of
`selfId`); there are finitely many rooms; StrategyRooms is about two peers, and
Requests about two actions, requests and responses; what was half-sent before a
Requests behaviour begins was so in a session (`Past` is empty if there are
none).

Only model-checked: over Nostr, the types of TopicStrategy and `RelayAgrees`, as
what a Nostr relay ends up with is a fold over its frames (an induction over data), the
batch is cut from a sequence of ids that are chosen afresh, and the bound `MaxSubIds`
on these must be large enough for the model to be typed at all; and all liveness
properties, which the prover does not reach, nor `ENABLED`. No proof uses induction over data or a
`RECURSIVE` operator.

## Not modelled

Everything marked `not_modelled` in `PROJECT.json`, and, in the modules there
are:

- custom `onPeerHandshake` messages, the encryption of descriptions and pings;
- one-way messages and messages to several peers, which go the way of the wire
  that is modelled; `requestMany`, which collects the outcomes of single
  requests; progress;
- streams, and the removal and replacement of tracks; gathering without
  trickling (peer.ts:234-270);
- several relays in one StrategyRooms: what the relays of a room share is whether
  it is awake, and each has a loop of its own;
- the interval a tracker asks for, and its suppression of repeated signals;
- Firebase, Supabase and IPFS, whose state is in the libraries they call, with no
  account of what these do in the sources.

## Plan

1. `SharedPeers`: the bindings of several rooms with their tokens and frames as a
   module, and Admission and StrategyRooms over it in place of the transports they
   have.
2. One-way messages and `requestMany` of `actions.ts` over ActionWire, to several
   peers; Admission's frames over the same wire.
3. An abstract specification of subscriptions, "a topic with a subscriber is
   subscribed, again after each reconnection", and the adapters shown to
   implement it.
4. Proofs: the agreement of client and relay for Nostr, with tables in place of the
   fold over frames.
