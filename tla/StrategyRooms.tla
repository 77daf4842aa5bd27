--------------------------- MODULE StrategyRooms ---------------------------
(***************************************************************************)
(* A room of an app on two peers, as the strategy runs it                  *)
(* (core/src/strategy.ts): it announces itself on a relay again and again, *)
(* sleeps and wakes when it is passive, and tells of its presence over the *)
(* connection the peers share, by which it meets its counterpart without   *)
(* any signalling (core/src/shared-peer.ts).                               *)
(*                                                                         *)
(* The connection is made by other rooms of the two peers (setting.other)  *)
(* or by this room's own signalling, of which only the beginning and the   *)
(* end are seen here; Signaling has the rest, Admission the handshake that *)
(* follows when a room is bound, TopicStrategy the subscriptions.          *)
(*                                                                         *)
(* Abstracted: there is one relay, and of a loop of announcements it is    *)
(* only told whether it waits for the relay or for a timer.  A room that   *)
(* is bound is not left before its token is known.  A handshake times out  *)
(* when nothing is on its way that would bind the other side.  The peers   *)
(* connect again when both have noticed the end of their connection.       *)
(***************************************************************************)
EXTENDS Naturals, Sequences

CONSTANTS
  Peers,      \* the two peers
  Settings,   \* what is different from one run of the system to another
  MaxLoops,   \* loops of announcements at a time (bound)
  MaxFrames   \* frames on their way to a peer when a room wakes (bound)

ASSUME PeersAssumption == \E p \in Peers : \E q \in Peers \ {p} : Peers = {p, q}
ASSUME BoundsAssumption == MaxLoops \in Nat /\ MaxFrames \in Nat

\* passive: the peers whose room is; joins: how often it may be joined in all;
\* leaves: the peers on which it may be left; other: whether the peers share
\* another room, which connects them; failures: how often the connection may
\* fail; deaf: whether the relay may lose every announcement.
ASSUME SettingsAssumption ==
  Settings \subseteq [passive : SUBSET Peers, joins : Nat,
                      leaves : SUBSET Peers, other : BOOLEAN,
                      failures : Nat, deaf : BOOLEAN]

VARIABLES
  setting,     \* one of Settings, the same all along
  room,        \* room[p]: "out", "in", or "leaving" while leave() pauses
  joins,       \* how often it was joined, on either peer (bound)
  token,       \* token[p]: whether its registration has its token
  awake,       \* awake[p]: ctx.isActive
  subscribed,  \* subscribed[p]: whether the relay has confirmed it
  grace,       \* grace[p]: whether passiveActivationTimeout is set
  exited,      \* exited[p]: whether it is passive, and lost its peer by
               \* exitPeer since it was woken
  loops,       \* loops[p]: the loops of queueAnnounce
  air,         \* the peers of which an announcement is on its way
  signaling,   \* signaling[p]: whether an offer is out, or answered
  net,         \* the connection: "none", "up" or "down"
  failures,    \* how often it has failed (bound)
  registered,  \* registered[p]: whether p has it as a SharedPeerState
  bound,       \* bound[p]: whether the room is bound to it
  remote,      \* remote[p]: whether remoteRoomTokens has the room's token
  kept,        \* kept[p]: whether pendingDataByToken has the leave message
  wire         \* wire[p]: the frames on their way to p

roomVars == <<room, joins, token, awake, subscribed, grace, exited>>
linkVars == <<net, failures, registered>>
vars == <<setting, room, joins, token, awake, subscribed, grace, exited,
          loops, air, signaling, net, failures, registered, bound, remote,
          kept, wire>>

-----------------------------------------------------------------------------
Other(p) == CHOOSE q \in Peers : q # p
Passive(p) == p \in setting.passive

\* inflight: announcements the relay has not confirmed; slot: whether the
\* timer of announceTimeouts is set; orphans: timers that were overwritten
\* there, and still run.
NoLoops == [inflight |-> 0, slot |-> FALSE, orphans |-> 0]
Running(p) ==
  loops[p].inflight + loops[p].orphans + (IF loops[p].slot THEN 1 ELSE 0)

Here == "here"    \* presence frame: the room is there
Gone == "gone"    \* presence frame: it is not any more
Leave == "leave"  \* the message by which a room takes leave of its peers

Init ==
  /\ setting \in Settings
  /\ room = [p \in Peers |-> "out"]
  /\ joins = 0
  /\ token = [p \in Peers |-> FALSE]
  /\ awake = [p \in Peers |-> FALSE]
  /\ subscribed = [p \in Peers |-> FALSE]
  /\ grace = [p \in Peers |-> FALSE]
  /\ exited = [p \in Peers |-> FALSE]
  /\ loops = [p \in Peers |-> NoLoops]
  /\ air = {}
  /\ signaling = [p \in Peers |-> FALSE]
  /\ net = "none" /\ failures = 0
  /\ registered = [p \in Peers |-> FALSE]
  /\ bound = [p \in Peers |-> FALSE]
  /\ remote = [p \in Peers |-> FALSE]
  /\ kept = [p \in Peers |-> FALSE]
  /\ wire = [p \in Peers |-> <<>>]

-----------------------------------------------------------------------------
\* sendRoomPresence and sendData: nothing is sent over a dead connection.
Sent(p, frames) ==
  IF registered[p] /\ net = "up"
    THEN [wire EXCEPT ![Other(p)] = @ \o frames]
    ELSE wire

If(condition, frames) == IF condition THEN frames ELSE <<>>

\* Whether checkDeactivate concerns the room.
Sleeps(p) == Passive(p) /\ awake[p]

\* attachSharedPeerToRoom, which ends the room's own signalling.  A leave
\* message that waited for the room, and was perhaps not meant for it, is
\* delivered as soon as the token is known.
attach(p, known) ==
  /\ bound' = [bound EXCEPT ![p] = ~(known /\ kept[p])]
  /\ exited' = [exited EXCEPT ![p] = Sleeps(p) /\ known /\ kept[p]]
  /\ kept' = [kept EXCEPT ![p] = @ /\ ~known]
  /\ signaling' = [signaling EXCEPT ![p] = FALSE]

noAttach == UNCHANGED <<bound, exited, kept, signaling>>

\* exitPeer: the proxy is destroyed first, so that onDetach has forgotten the
\* peer when onPeerLeave asks for it: no checkDeactivate follows.
exitPeer(p) ==
  /\ bound' = [bound EXCEPT ![p] = FALSE]
  /\ exited' = [exited EXCEPT ![p] = Sleeps(p)]

\* queueAnnounce, up to the relay.
queueAnnounce(p, running) ==
  /\ loops' = [loops EXCEPT ![p] = [running EXCEPT !.inflight = @ + 1]]
  /\ air' = air \union {p}

\* Mutant of deactivate: passiveActivationTimeout is left running.
deactivateKeepsTimer(p) ==
  /\ awake' = [awake EXCEPT ![p] = FALSE]
  /\ exited' = [exited EXCEPT ![p] = FALSE]
  /\ loops' = [loops EXCEPT ![p].slot = FALSE]
  /\ wire' = Sent(p, If(token[p], <<Gone>>))
  /\ UNCHANGED grace

\* Another mutant: the peers are not told.
deactivateUntold(p) ==
  /\ awake' = [awake EXCEPT ![p] = FALSE]
  /\ grace' = [grace EXCEPT ![p] = FALSE]
  /\ exited' = [exited EXCEPT ![p] = FALSE]
  /\ loops' = [loops EXCEPT ![p].slot = FALSE]
  /\ UNCHANGED wire

\* checkDeactivate, when the room has no more work.
deactivate(p) ==
  /\ awake' = [awake EXCEPT ![p] = FALSE]
  /\ grace' = [grace EXCEPT ![p] = FALSE]
  /\ exited' = [exited EXCEPT ![p] = FALSE]
  /\ loops' = [loops EXCEPT ![p].slot = FALSE]
  /\ wire' = Sent(p, If(token[p], <<Gone>>))

-----------------------------------------------------------------------------
joinRoom(p) ==
  /\ room[p] = "out" /\ joins < setting.joins
  /\ room' = [room EXCEPT ![p] = "in"]
  /\ joins' = joins + 1
  /\ awake' = [awake EXCEPT ![p] = ~Passive(p)]
  /\ UNCHANGED <<setting, token, subscribed, grace, exited, loops, air,
                 signaling, linkVars, bound, remote, kept, wire>>

\* Mutant of derived: those who have told of theirs are not met.
derivedAlone(p) ==
  /\ room[p] # "out" /\ ~token[p]
  /\ token' = [token EXCEPT ![p] = TRUE]
  /\ noAttach
  /\ wire' = Sent(p, If(awake[p], <<Here>>))
  /\ UNCHANGED <<setting, room, joins, awake, subscribed, grace, loops, air,
                 linkVars, remote>>

\* The token of the room is known: it meets those who have told of theirs,
\* and tells of itself.
derived(p) ==
  /\ room[p] # "out" /\ ~token[p]
  /\ token' = [token EXCEPT ![p] = TRUE]
  /\ IF registered[p] /\ (remote[p] \/ bound[p])
       THEN attach(p, TRUE)
       ELSE noAttach
  /\ wire' = Sent(p, If(awake[p], <<Here>>))
  /\ UNCHANGED <<setting, room, joins, awake, subscribed, grace, loops, air,
                 linkVars, remote>>

\* The subscription is there, and the announcements begin.
subscribe(p) ==
  /\ room[p] # "out" /\ ~subscribed[p]
  /\ subscribed' = [subscribed EXCEPT ![p] = TRUE]
  /\ IF awake[p] THEN Running(p) < MaxLoops /\ queueAnnounce(p, loops[p])
                 ELSE UNCHANGED <<loops, air>>
  /\ UNCHANGED <<setting, room, joins, token, awake, grace, exited, signaling,
                 linkVars, bound, remote, kept, wire>>

\* The relay has confirmed an announcement: the timer for the next is set,
\* over any that runs already.
announced(p) ==
  /\ loops[p].inflight > 0
  /\ loops' = [loops EXCEPT ![p] =
       IF awake[p]
         THEN [inflight |-> @.inflight - 1, slot |-> TRUE,
               orphans |-> @.orphans + (IF @.slot THEN 1 ELSE 0)]
         ELSE [@ EXCEPT !.inflight = loops[p].inflight - 1]]
  /\ UNCHANGED <<setting, roomVars, air, signaling, linkVars, bound, remote,
                 kept, wire>>

\* Mutant of announceTimer: a room that sleeps looks again later.
announceTimerPolls(p) ==
  /\ \E rest \in {[loops[p] EXCEPT !.slot = FALSE],
                  [loops[p] EXCEPT !.orphans = @ - 1]} :
       /\ rest # loops[p] /\ rest.orphans \in Nat
       /\ IF awake[p]
            THEN queueAnnounce(p, rest)
            ELSE /\ loops' = [loops EXCEPT ![p] = [rest EXCEPT !.slot = TRUE]]
                 /\ UNCHANGED air
  /\ UNCHANGED <<setting, roomVars, signaling, linkVars, bound, remote, kept,
                 wire>>

\* A timer of an announcement.
announceTimer(p) ==
  /\ \E rest \in {[loops[p] EXCEPT !.slot = FALSE],
                  [loops[p] EXCEPT !.orphans = @ - 1]} :
       /\ rest # loops[p] /\ rest.orphans \in Nat
       /\ IF awake[p] THEN queueAnnounce(p, rest)
                      ELSE loops' = [loops EXCEPT ![p] = rest] /\ UNCHANGED air
  /\ UNCHANGED <<setting, roomVars, signaling, linkVars, bound, remote, kept,
                 wire>>

\* Mutant of wake: timers are reset, and no announcement is queued.
wakeUnqueued(p) ==
  /\ Running(p) < MaxLoops /\ Len(wire[Other(p)]) < MaxFrames
  /\ awake' = [awake EXCEPT ![p] = TRUE]
  /\ grace' = [grace EXCEPT ![p] = TRUE]
  /\ loops' = [loops EXCEPT ![p].slot = FALSE]
  /\ air' = air \ {Other(p)}
  /\ wire' = Sent(p, If(token[p], <<Here>>))

\* requeueAnnounce: a room that sleeps is woken.
wake(p) ==
  /\ Running(p) < MaxLoops /\ Len(wire[Other(p)]) < MaxFrames
  /\ awake' = [awake EXCEPT ![p] = TRUE]
  /\ grace' = [grace EXCEPT ![p] = TRUE]
  /\ loops' = [loops EXCEPT ![p] =
       [@ EXCEPT !.slot = FALSE, !.inflight = loops[p].inflight + 1]]
  /\ air' = (air \ {Other(p)}) \union {p}
  /\ wire' = Sent(p, If(token[p], <<Here>>))

\* An announcement of the other peer is heard: it wakes the room, and attaches
\* the connection there is, or begins to make one.  Passive rooms ignore each
\* other.  A connection that is found dead is cleared first, as by its close.
hear(p) ==
  /\ Other(p) \in air /\ room[p] # "out"
  /\ registered[p] => net = "up"
  /\ IF \A q \in Peers : Passive(q)
       THEN /\ air' = air \ {Other(p)}
            /\ UNCHANGED <<awake, grace, loops, wire>> /\ noAttach
       ELSE /\ IF awake[p]
                 THEN /\ air' = air \ {Other(p)}
                      /\ UNCHANGED <<awake, grace, loops, wire>>
                 ELSE wake(p)
            /\ IF registered[p] /\ ~bound[p]
                 THEN attach(p, token[p])
                 ELSE /\ signaling' =
                           [signaling EXCEPT ![p] = @ \/ ~registered[p]]
                      /\ UNCHANGED <<bound, exited, kept>>
  /\ UNCHANGED <<setting, room, joins, token, subscribed, linkVars, remote>>

\* An announcement is lost.
lose(p) ==
  /\ p \in air
  /\ air' = air \ {p}
  /\ UNCHANGED <<setting, roomVars, loops, signaling, linkVars, bound, remote,
                 kept, wire>>

\* Mutant of graceTimer: a room that found nobody stays awake.
graceTimerIdle(p) ==
  /\ grace[p]
  /\ grace' = [grace EXCEPT ![p] = FALSE]
  /\ UNCHANGED <<setting, room, joins, token, awake, subscribed, exited, loops,
                 air, signaling, linkVars, bound, remote, kept, wire>>

\* passiveActivationTimeout.
graceTimer(p) ==
  /\ grace[p]
  /\ IF bound[p] \/ signaling[p]
       THEN /\ grace' = [grace EXCEPT ![p] = FALSE]
            /\ UNCHANGED <<awake, exited, loops, wire>>
       ELSE deactivate(p)
  /\ UNCHANGED <<setting, room, joins, token, subscribed, air, signaling,
                 linkVars, bound, remote, kept>>

-----------------------------------------------------------------------------
\* The room's offer expires, or its answer is not answered: the connection
\* that was to come of it is destroyed.
endSignaling(p) ==
  /\ signaling[p]
  /\ signaling' = [signaling EXCEPT ![p] = FALSE]
  /\ net' = IF net = "up" /\ ~registered[p] /\ ~setting.other
              THEN IF registered[Other(p)] THEN "down" ELSE "none"
              ELSE net
  /\ IF Sleeps(p) /\ ~bound[p]
       THEN deactivate(p)
       ELSE UNCHANGED <<awake, grace, exited, loops, wire>>
  /\ UNCHANGED <<setting, room, joins, token, subscribed, air, failures,
                 registered, bound, remote, kept>>

\* The peers have signalled, by this room or by the other.
connect ==
  /\ net = "none" /\ \A p \in Peers : ~registered[p]
  /\ setting.other \/ \A p \in Peers : signaling[p]
  /\ net' = "up"
  /\ UNCHANGED <<setting, roomVars, loops, air, signaling, failures,
                 registered, bound, remote, kept, wire>>

\* connectPeer: the connection is registered, the room that made it bound,
\* and all rooms that are awake are told of.
connectPeer(p) ==
  /\ net = "up" /\ ~registered[p]
  /\ setting.other \/ signaling[p]
  /\ registered' = [registered EXCEPT ![p] = TRUE]
  /\ wire' = [wire EXCEPT ![Other(p)] =
                @ \o If(room[p] # "out" /\ token[p] /\ awake[p], <<Here>>)]
  /\ IF setting.other THEN noAttach ELSE attach(p, token[p])
  /\ UNCHANGED <<setting, room, joins, token, awake, subscribed, grace, loops,
                 air, net, failures, remote>>

\* dispatchData.
receive(p) ==
  /\ registered[p] /\ wire[p] # <<>>
  /\ wire' = [wire EXCEPT ![p] = Tail(@)]
  /\ \/ /\ Head(wire[p]) = Here
        /\ remote' = [remote EXCEPT ![p] = TRUE]
        /\ IF token[p] /\ ~bound[p] THEN attach(p, TRUE) ELSE noAttach
     \/ /\ Head(wire[p]) = Gone
        /\ remote' = [remote EXCEPT ![p] = FALSE]
        /\ noAttach
     \/ /\ Head(wire[p]) = Leave
        /\ IF bound[p] /\ token[p]
             THEN exitPeer(p) /\ UNCHANGED kept
             ELSE /\ kept' = [kept EXCEPT ![p] = TRUE]
                  /\ UNCHANGED <<bound, exited>>
        /\ UNCHANGED <<remote, signaling>>
  /\ UNCHANGED <<setting, room, joins, token, awake, subscribed, grace, loops,
                 air, linkVars>>

\* The handshake of a room that is bound on one side only.
handshakeTimeout(p) ==
  /\ bound[p] /\ ~bound[Other(p)]
  /\ wire[Other(p)] = <<>> /\ (room[Other(p)] = "out" \/ token[Other(p)])
  /\ net = "up" => registered[Other(p)]
  /\ exitPeer(p)
  /\ UNCHANGED <<setting, room, joins, token, awake, subscribed, grace, loops,
                 air, signaling, linkVars, remote, kept, wire>>

\* The connection fails.
fail ==
  /\ net = "up" /\ failures < setting.failures
  /\ net' = IF \E p \in Peers : registered[p] THEN "down" ELSE "none"
  /\ failures' = failures + 1
  /\ UNCHANGED <<setting, roomVars, loops, air, signaling, registered, bound,
                 remote, kept, wire>>

\* The idle timer of a connection to which nothing is bound.
idleTimer(p) ==
  /\ ~setting.other /\ registered[p] /\ ~bound[p] /\ net = "up"
  /\ net' = "down"
  /\ UNCHANGED <<setting, roomVars, loops, air, signaling, failures,
                 registered, bound, remote, kept, wire>>

\* SharedPeerManager.clear: here the peer is still known when onPeerLeave asks
\* for it, and a passive room without work goes to sleep.
clear(p) ==
  /\ net = "down" /\ registered[p]
  /\ net' = IF registered[Other(p)] THEN "down" ELSE "none"
  /\ registered' = [registered EXCEPT ![p] = FALSE]
  /\ bound' = [bound EXCEPT ![p] = FALSE]
  /\ remote' = [remote EXCEPT ![p] = FALSE]
  /\ kept' = [kept EXCEPT ![p] = FALSE]
  /\ wire' = [q \in Peers |->
                IF q = p \/ ~registered[q] THEN <<>> ELSE wire[q]]
  /\ IF bound[p] /\ Sleeps(p) /\ ~signaling[p]
       THEN /\ awake' = [awake EXCEPT ![p] = FALSE]
            /\ grace' = [grace EXCEPT ![p] = FALSE]
            /\ exited' = [exited EXCEPT ![p] = FALSE]
            /\ loops' = [loops EXCEPT ![p].slot = FALSE]
       ELSE UNCHANGED <<awake, grace, exited, loops>>
  /\ UNCHANGED <<setting, room, joins, token, subscribed, air, signaling,
                 failures>>

-----------------------------------------------------------------------------
\* leave(), up to its pause.
startLeave(p) ==
  /\ p \in setting.leaves /\ room[p] = "in" /\ (bound[p] => token[p])
  /\ room' = [room EXCEPT ![p] = "leaving"]
  /\ wire' = Sent(p, If(bound[p], <<Leave>>))
  /\ UNCHANGED <<setting, joins, token, awake, subscribed, grace, exited,
                 loops, air, signaling, linkVars, bound, remote, kept>>

\* The rest of leave(): proxies are destroyed, the room's absence is told, and
\* its registration, its signalling and its timers end.  The announcements
\* the relay has not confirmed come to nothing.
finishLeave(p) ==
  /\ room[p] = "leaving"
  /\ room' = [room EXCEPT ![p] = "out"]
  /\ bound' = [bound EXCEPT ![p] = FALSE]
  /\ wire' = Sent(p, If(token[p], <<Gone>>))
  /\ token' = [token EXCEPT ![p] = FALSE]
  /\ awake' = [awake EXCEPT ![p] = FALSE]
  /\ subscribed' = [subscribed EXCEPT ![p] = FALSE]
  /\ grace' = [grace EXCEPT ![p] = FALSE]
  /\ exited' = [exited EXCEPT ![p] = FALSE]
  /\ loops' = [loops EXCEPT ![p] = NoLoops]
  /\ signaling' = [signaling EXCEPT ![p] = FALSE]
  /\ net' = IF signaling[p] /\ net = "up" /\ ~registered[p] /\ ~setting.other
              THEN IF registered[Other(p)] THEN "down" ELSE "none"
              ELSE net
  /\ UNCHANGED <<setting, joins, air, failures, registered, remote, kept>>

Next ==
  \/ connect \/ fail
  \/ \E p \in Peers :
       \/ joinRoom(p) \/ derived(p) \/ subscribe(p)
       \/ announced(p) \/ announceTimer(p) \/ hear(p) \/ lose(p)
       \/ graceTimer(p) \/ endSignaling(p)
       \/ connectPeer(p) \/ receive(p) \/ handshakeTimeout(p)
       \/ idleTimer(p) \/ clear(p) \/ startLeave(p) \/ finishLeave(p)

Spec == Init /\ [][Next]_vars

\* Promises settle, the timers of announcements fire, and frames arrive;
\* announcements that are made again and again are heard, unless the relay is
\* deaf.
Fairness ==
  \A p \in Peers :
    /\ WF_vars(derived(p)) /\ WF_vars(subscribe(p)) /\ WF_vars(announced(p))
    /\ WF_vars(announceTimer(p)) /\ WF_vars(receive(p))
    /\ SF_vars(~setting.deaf /\ hear(p))

FairSpec == Spec /\ Fairness

-----------------------------------------------------------------------------
\* The state has its type.
TypeOK ==
  /\ setting \in Settings
  /\ room \in [Peers -> {"out", "in", "leaving"}]
  /\ net \in {"none", "up", "down"}
  /\ \A p \in Peers :
       /\ loops[p].inflight + loops[p].orphans \in 0..MaxLoops
       /\ bound[p] => registered[p] /\ room[p] # "out"
       /\ grace[p] => awake[p]

\* Once all frames have arrived, each peer knows whether the other's room is
\* there and awake, however it was joined and left, fell asleep and was woken
\* while the connection came and went.
PresenceTold ==
  (net = "up" /\ \A p \in Peers : registered[p]) =>
    \A p \in Peers :
      wire[p] = <<>> =>
        (remote[p] <=> token[Other(p)] /\ awake[Other(p)])

\* A room that is not asleep goes on announcing itself: wherever it is woken
\* or put to sleep while the relay is at work, there is a loop that runs.
KeepsAnnouncing ==
  \A p \in Peers :
    room[p] # "out" /\ awake[p] /\ (subscribed[p] \/ Passive(p))
      => Running(p) > 0

\* A passive room that is awake has a peer, is about to get one, or is waiting
\* for one: whoever takes the last of them away puts it to sleep.  Only
\* exitPeer, for a reason of its own, does not.
AwakeForAReason ==
  \A p \in Peers :
    Passive(p) /\ awake[p]
      => grace[p] \/ signaling[p] \/ bound[p] \/ exited[p]

\* A room that stays asleep falls silent.
Silent ==
  \A p \in Peers : <>[]~awake[p] => <>[](loops[p] = NoLoops)

\* Rooms that stay in, and were in once, on peers that stay connected, meet: by
\* presence alone if both are active, and with the help of the relay if one is
\* passive.  (Of rooms that were in before see the README: a leave message that
\* came late takes the peer from the next room.)
Together ==
  /\ net = "up" /\ \A p \in Peers : registered[p] /\ room[p] = "in"
  /\ joins <= 2
  /\ \E p \in Peers : ~Passive(p)
Meets == <>[]Together => <>[](\A p \in Peers : bound[p])
=============================================================================
