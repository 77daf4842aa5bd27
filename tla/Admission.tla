----------------------------- MODULE Admission -----------------------------
(***************************************************************************)
(* Admission of peers into one room (core/src/room.ts and handshake.ts),   *)
(* over transports that other rooms share (core/src/shared-peer.ts).       *)
(*                                                                         *)
(* A transport between p and q is one WebRTC connection with an ordered,   *)
(* reliable data channel.  The room of each side binds itself to it, on    *)
(* its own and possibly several times: a peer that fails or outlasts its   *)
(* handshake is detached, and attached again by the next announcement,     *)
(* while the transport stays up for the other rooms.  Frames that arrive   *)
(* while no binding exists wait in pendingDataByToken and are replayed to  *)
(* the next binding.                                                       *)
(*                                                                         *)
(* Each side of a binding runs the password handshake and the              *)
(* application's onPeerHandshake, announces readiness, and activates the   *)
(* peer once it has passed and the other side is ready.                    *)
(*                                                                         *)
(* Abstracted: the hash is an injective function of challenge and          *)
(* password; onPeerHandshake takes some time and then accepts or rejects,  *)
(* without messages of its own; payloads sent to an application callback   *)
(* are not kept; chunking, backpressure and media are left out; a binding  *)
(* gets its room token in the step that creates it.                        *)
(***************************************************************************)
EXTENDS Integers, Sequences, FiniteSets

CONSTANTS
  Peers,       \* the peers' ids, ordered as selfId < id orders them
  Passwords,   \* what config.password may be
  NoPassword,  \* no config.password
  MaxNonce,    \* challenges in use at a time on a link (bound)
  MaxFrames,   \* frames on their way over a link (bound)
  MaxAttaches, \* bindings a side makes to one transport; 3: any number (bound)
  Faults,      \* the kinds of fault there may be
  MaxFaults    \* faults in one behaviour (bound)

ASSUME PeersAssumption == Peers \subseteq Nat
ASSUME BoundsAssumption == {MaxNonce, MaxFrames, MaxAttaches, MaxFaults} \subseteq Nat
ASSUME FaultsAssumption ==
  Faults \subseteq {"timeout",  \* a handshake timer fires
                    "reject",   \* onPeerHandshake rejects
                    "leave",    \* a room is left
                    "loss"}     \* a live transport closes

VARIABLES
  password,  \* password[p]: the password p joined with
  room,      \* room[p]: "in", "leaving" (the 99 ms of leave()) or "out"
  shared,    \* shared[p][q]: p holds a live SharedPeerState for q
  hs,        \* hs[p][q]: p's binding to q and its PendingPeerState
  late,      \* late[p][q]: challenges that detached runs will still answer
  wire,      \* wire[p][q]: frames from p to q in the data channel
  pend,      \* pend[p][q]: q's frames in p's pendingDataByToken
  attaches,  \* attaches[p][q]: 0 before p first binds to this transport, 1 if
             \* it did so once with no run left from before, 2 otherwise
  faults     \* the faults there have been

vars == <<password, room, shared, hs, late, wire, pend, attaches, faults>>

-----------------------------------------------------------------------------
Nonces == 1..MaxNonce
NoNonce == 0

Frames ==
  [kind : {"challenge"}, c : Nonces]
    \union [kind : {"response"}, c : Nonces, pw : Passwords]
    \union [kind : {"ready", "leave", "data"}]

Challenge(n) == [kind |-> "challenge", c |-> n]
Response(n, pw) == [kind |-> "response", c |-> n, pw |-> pw]
Ready == [kind |-> "ready"]
LeaveFrame == [kind |-> "leave"]
DataFrame == [kind |-> "data"]

Handshaking == {"challenge", "response"}

Fault(kind) ==
  /\ kind \in Faults /\ faults < MaxFaults
  /\ faults' = faults + 1

\* No binding, or a binding on which nothing has happened yet.
Unbound ==
  [bound |-> FALSE, pass |-> FALSE, ready |-> FALSE, active |-> FALSE,
   stage |-> "off", held |-> Ready, nonce |-> NoNonce]

PeerStates ==
  [bound : BOOLEAN, pass : BOOLEAN, ready : BOOLEAN, active : BOOLEAN,
   stage : {"off", "await", "hash", "decide", "done"},
   held : Frames, nonce : Nonces \union {NoNonce}]

\* Mutant of isInitiator: both sides believe they are.
BothInitiators(p, q) == p # q

isInitiator(p, q) == p < q

Others(p) == Peers \ {p}

\* The frames the room of p handles next: a flush hands over all the pended
\* ones before the channel delivers another.
Incoming(p, q) == IF pend[p][q] # <<>> THEN pend[p][q] ELSE wire[q][p]

\* p is not in the middle of a flush.
Settled(p) == \A q \in Others(p) : hs[p][q].bound => pend[p][q] = <<>>

\* A frame sent to a side whose channel is gone is lost.
Send(p, q, m) ==
  IF shared[q][p] THEN [wire EXCEPT ![p][q] = Append(@, m)] ELSE wire

\* Bounds what is on its way from p to q, frames of one handshake aside.
Room(p, q) == Len(wire[p][q]) + Len(pend[q][p]) < MaxFrames

InFlight(p, q) ==
  {wire[p][q][i] : i \in DOMAIN wire[p][q]}
    \union {pend[q][p][i] : i \in DOMAIN pend[q][p]}

\* The nonces that some frame or run of this link still mentions.
InUse(p, q) ==
  LET seen == InFlight(p, q) \union InFlight(q, p)
                \union {hs[p][q].held, hs[q][p].held}
  IN  {m.c : m \in {f \in seen : f.kind \in Handshaking}}
        \union late[p][q] \union late[q][p] \union {hs[p][q].nonce}

\* genId(36): a challenge nobody on this link has seen.
FreshNonce(p, q, n) ==
  /\ n \in Nonces \ InUse(p, q)
  /\ \A k \in Nonces \ InUse(p, q) : n <= k

\* Mutants of maybeActivatePeer: one of its two conditions forgotten.
ActivateOncePassed(s) == [s EXCEPT !.active = s.pass]
ActivateOnceReady(s) == [s EXCEPT !.active = s.ready]

\* maybeActivatePeer
maybeActivatePeer(s) == [s EXCEPT !.active = s.pass /\ s.ready]

\* Mutant of Orphaned: the challenge is read after the state was cleared.
OrphanedAfterReset(p, q) ==
  IF hs[p][q].stage = "hash" /\ ~isInitiator(p, q)
    THEN {Unbound.nonce}
    ELSE {}

\* The challenges a detached run goes on answering: only a responder that is
\* hashing one is not stopped by the rejection of its waiter.
Orphaned(p, q) ==
  IF /\ hs[p][q].stage = "hash"
     /\ ~isInitiator(p, q)
     /\ hs[p][q].held.kind = "challenge"
    THEN {hs[p][q].held.c}
    ELSE {}

\* exitPeer: forget the peer and detach the binding.  Nothing is sent.
exitPeer(p, q) ==
  /\ hs' = [hs EXCEPT ![p][q] = Unbound]
  /\ late' = [late EXCEPT ![p][q] = @ \union Orphaned(p, q)]

-----------------------------------------------------------------------------
Init ==
  /\ password \in [Peers -> Passwords]
  /\ room = [p \in Peers |-> "in"]
  /\ shared = [p \in Peers |-> [q \in Peers |-> FALSE]]
  /\ hs = [p \in Peers |-> [q \in Peers |-> Unbound]]
  /\ late = [p \in Peers |-> [q \in Peers |-> {}]]
  /\ wire = [p \in Peers |-> [q \in Peers |-> <<>>]]
  /\ pend = [p \in Peers |-> [q \in Peers |-> <<>>]]
  /\ attaches = [p \in Peers |-> [q \in Peers |-> 0]]
  /\ faults = 0

\* Signalling, here or in another room, brings up a transport.
Connect(p, q) ==
  /\ ~shared[p][q] /\ ~shared[q][p]
  /\ shared' = [shared EXCEPT ![p][q] = TRUE, ![q][p] = TRUE]
  /\ attaches' = [attaches EXCEPT ![p][q] = 0, ![q][p] = 0]
  /\ UNCHANGED <<password, room, hs, late, wire, pend, faults>>

\* Mutant of Close: the frames queued on the old transport are kept.
CloseKeepsFrames(p, q) ==
  /\ shared[p][q]
  /\ Fault("loss") \/ (~shared[q][p] /\ UNCHANGED faults)
  /\ Settled(p)
  /\ shared' = [shared EXCEPT ![p][q] = FALSE]
  /\ exitPeer(p, q)
  /\ UNCHANGED <<password, room, wire, pend, attaches>>

\* SharedPeerManager.clear at p: its binding is closed and the frames it has
\* not read are gone.  Frames p had sent may still reach q.
Close(p, q) ==
  /\ shared[p][q]
  /\ Fault("loss") \/ (~shared[q][p] /\ UNCHANGED faults)
  /\ Settled(p)
  /\ shared' = [shared EXCEPT ![p][q] = FALSE]
  /\ wire' = [wire EXCEPT ![q][p] = <<>>]
  /\ pend' = [pend EXCEPT ![p][q] = <<>>]
  /\ exitPeer(p, q)
  /\ UNCHANGED <<password, room, attaches>>

\* bind, onPeer and start: an announcement or a presence frame attaches the
\* transport to the room, and the handshake begins.
Attach(p, q) ==
  /\ room[p] # "out"
  /\ shared[p][q] /\ ~hs[p][q].bound
  /\ Settled(p)
  /\ Room(p, q) \/ pend[p][q] # <<>>
  /\ attaches[p][q] < MaxAttaches
  /\ attaches' = [attaches EXCEPT ![p][q] =
                    IF @ = 0 /\ late[p][q] = {} THEN 1 ELSE 2]
  /\ \/ /\ password[p] = NoPassword
        /\ hs' = [hs EXCEPT ![p][q] =
                    [Unbound EXCEPT !.bound = TRUE, !.stage = "decide"]]
        /\ UNCHANGED wire
     \/ /\ password[p] # NoPassword /\ ~isInitiator(p, q)
        /\ hs' = [hs EXCEPT ![p][q] =
                    [Unbound EXCEPT !.bound = TRUE, !.stage = "await"]]
        /\ UNCHANGED wire
     \/ /\ password[p] # NoPassword /\ isInitiator(p, q)
        /\ \E n \in Nonces :
             /\ FreshNonce(p, q, n)
             /\ hs' = [hs EXCEPT ![p][q] =
                         [Unbound EXCEPT !.bound = TRUE, !.stage = "await",
                                         !.nonce = n]]
             /\ wire' = Send(p, q, Challenge(n))
  /\ UNCHANGED <<password, room, shared, late, pend, faults>>

\* dispatchData without a binding: the frame waits in pendingDataByToken.
Buffer(p, q) ==
  /\ shared[p][q] /\ ~hs[p][q].bound
  /\ Settled(p)
  /\ wire[q][p] # <<>>
  /\ pend' = [pend EXCEPT ![p][q] = Append(@, Head(wire[q][p]))]
  /\ wire' = [wire EXCEPT ![q][p] = Tail(@)]
  /\ UNCHANGED <<password, room, shared, hs, late, attaches, faults>>

-----------------------------------------------------------------------------
\* handleData: the next frame for p's binding to q is m.
Handles(p, q, m) ==
  /\ shared[p][q] /\ hs[p][q].bound
  /\ pend[p][q] = <<>> => Settled(p)
  /\ Incoming(p, q) # <<>>
  /\ m = Head(Incoming(p, q))

\* The frame that Handles names is taken off its queue.
TakeFrame(p, q) ==
  \/ /\ pend[p][q] # <<>>
     /\ pend' = [pend EXCEPT ![p][q] = Tail(@)]
     /\ UNCHANGED wire
  \/ /\ pend[p][q] = <<>>
     /\ wire' = [wire EXCEPT ![q][p] = Tail(@)]
     /\ UNCHANGED pend

\* receiveHandshakeData: a waiting run gets the payload; an active peer ignores
\* it; a run that is not waiting never reads it.
receiveHandshakeData(p, q) ==
  \E m \in Frames :
    /\ Handles(p, q, m)
    /\ m.kind \in Handshaking
    /\ TakeFrame(p, q)
    /\ hs' = IF ~hs[p][q].active /\ hs[p][q].stage = "await"
               THEN [hs EXCEPT ![p][q].stage = "hash", ![p][q].held = m]
               ELSE hs
    /\ UNCHANGED <<password, room, shared, late, attaches, faults>>

receiveHandshakeReady(p, q) ==
  /\ Handles(p, q, Ready)
  /\ TakeFrame(p, q)
  /\ hs' = [hs EXCEPT ![p][q] =
              maybeActivatePeer([hs[p][q] EXCEPT !.ready = TRUE])]
  /\ UNCHANGED <<password, room, shared, late, attaches, faults>>

\* leaveAction.onMessage: the peer exits, and what is left of a flush finds
\* no peer to be handled for.
receiveLeave(p, q) ==
  /\ Handles(p, q, LeaveFrame)
  /\ exitPeer(p, q)
  /\ \/ /\ pend[p][q] # <<>>
        /\ pend' = [pend EXCEPT ![p][q] = <<>>]
        /\ UNCHANGED wire
     \/ pend[p][q] = <<>> /\ TakeFrame(p, q)
  /\ UNCHANGED <<password, room, shared, attaches, faults>>

\* A message of the application: canReceiveFromPeer drops it unless the peer
\* is active.  Neither case changes the state modelled here.
receiveData(p, q) ==
  /\ Handles(p, q, DataFrame)
  /\ TakeFrame(p, q)
  /\ UNCHANGED <<password, room, shared, hs, late, attaches, faults>>

-----------------------------------------------------------------------------
\* Mutant of verifyResponse: any response to the challenge will do.
verifyNonceOnly(p, q) ==
  /\ hs[p][q].stage = "hash" /\ isInitiator(p, q)
  /\ Settled(p)
  /\ hs[p][q].held.kind = "response" /\ hs[p][q].held.c = hs[p][q].nonce
  /\ hs' = [hs EXCEPT ![p][q].stage = "decide", ![p][q].held = Ready,
                      ![p][q].nonce = NoNonce]
  /\ UNCHANGED <<password, room, shared, late, wire, pend, attaches, faults>>

\* The initiator of run: the hash of its own challenge is there.
verifyResponse(p, q) ==
  /\ hs[p][q].stage = "hash" /\ isInitiator(p, q)
  /\ Settled(p)
  /\ \/ /\ hs[p][q].held = Response(hs[p][q].nonce, password[p])
        /\ hs' = [hs EXCEPT ![p][q].stage = "decide", ![p][q].held = Ready,
                            ![p][q].nonce = NoNonce]
        /\ UNCHANGED late
     \/ /\ hs[p][q].held # Response(hs[p][q].nonce, password[p])
        /\ exitPeer(p, q)
  /\ UNCHANGED <<password, room, shared, wire, pend, attaches, faults>>

\* The responder of run: the hash of the peer's challenge is there.
answerChallenge(p, q) ==
  /\ hs[p][q].stage = "hash" /\ ~isInitiator(p, q)
  /\ Settled(p)
  /\ \/ /\ hs[p][q].held.kind = "challenge"
        /\ wire' = Send(p, q, Response(hs[p][q].held.c, password[p]))
        /\ hs' = [hs EXCEPT ![p][q].stage = "decide", ![p][q].held = Ready]
        /\ UNCHANGED late
     \/ /\ hs[p][q].held.kind # "challenge"
        /\ exitPeer(p, q)
        /\ UNCHANGED wire
  /\ UNCHANGED <<password, room, shared, pend, attaches, faults>>

\* A run that outlived its binding: sendHandshakeData goes by the peer's id,
\* so the response leaves over whatever binding there is by then.
answerLate(p, q) ==
  /\ Settled(p)
  /\ \E n \in late[p][q] :
       /\ late' = [late EXCEPT ![p][q] = @ \ {n}]
       /\ wire' = IF hs[p][q].bound
                    THEN Send(p, q, Response(n, password[p]))
                    ELSE wire
  /\ UNCHANGED <<password, room, shared, hs, pend, attaches, faults>>

\* onPeerHandshake resolved, or there is none: markLocalHandshakePassed.
markLocalHandshakePassed(p, q) ==
  /\ hs[p][q].stage = "decide"
  /\ Settled(p)
  /\ hs' = [hs EXCEPT ![p][q] =
              maybeActivatePeer([hs[p][q] EXCEPT !.pass = TRUE,
                                                 !.stage = "done"])]
  /\ wire' = Send(p, q, Ready)
  /\ UNCHANGED <<password, room, shared, late, pend, attaches, faults>>

\* onPeerHandshake threw: failPeerHandshake.
rejectPeer(p, q) ==
  /\ Fault("reject")
  /\ hs[p][q].stage = "decide"
  /\ Settled(p)
  /\ exitPeer(p, q)
  /\ UNCHANGED <<password, room, shared, wire, pend, attaches>>

\* The handshake timer runs from start to activation.
timeOut(p, q) ==
  /\ Fault("timeout")
  /\ hs[p][q].bound /\ ~hs[p][q].active
  /\ Settled(p)
  /\ exitPeer(p, q)
  /\ UNCHANGED <<password, room, shared, wire, pend, attaches>>

-----------------------------------------------------------------------------
\* A message of the application to an active peer; one at a time on its way.
sendData(p, q) ==
  /\ hs[p][q].active
  /\ Settled(p)
  /\ Room(p, q) /\ DataFrame \notin InFlight(p, q)
  /\ wire' = Send(p, q, DataFrame)
  /\ UNCHANGED <<password, room, shared, hs, late, pend, attaches, faults>>

\* leave, up to its 99 ms pause: bound peers, pending ones too, are told.
startLeave(p) ==
  /\ Fault("leave")
  /\ room[p] = "in"
  /\ Settled(p)
  /\ room' = [room EXCEPT ![p] = "leaving"]
  /\ wire' = [wire EXCEPT ![p] =
                [q \in Peers |-> IF hs[p][q].bound /\ shared[q][p]
                                   THEN Append(@[q], LeaveFrame)
                                   ELSE @[q]]]
  /\ UNCHANGED <<password, shared, hs, late, pend, attaches>>

\* leave, after the pause: every binding is detached; the runs of this room
\* object no longer find a peer to send to.
finishLeave(p) ==
  /\ room[p] = "leaving"
  /\ Settled(p)
  /\ room' = [room EXCEPT ![p] = "out"]
  /\ hs' = [hs EXCEPT ![p] = [q \in Peers |-> Unbound]]
  /\ late' = [late EXCEPT ![p] = [q \in Peers |-> {}]]
  /\ UNCHANGED <<password, shared, wire, pend, attaches, faults>>

\* joinRoom after a leave.
joinAgain(p) ==
  /\ room[p] = "out"
  /\ room' = [room EXCEPT ![p] = "in"]
  /\ UNCHANGED <<password, shared, hs, late, wire, pend, attaches, faults>>

-----------------------------------------------------------------------------
\* Steps that finish on their own: signalling, delivery and local work.
Progress(p, q) ==
  \/ Attach(p, q) \/ Buffer(p, q)
  \/ receiveHandshakeData(p, q) \/ receiveHandshakeReady(p, q)
  \/ receiveLeave(p, q) \/ receiveData(p, q)
  \/ verifyResponse(p, q) \/ answerChallenge(p, q) \/ answerLate(p, q)
  \/ markLocalHandshakePassed(p, q)

Next ==
  \/ \E p \in Peers : \E q \in Others(p) :
       \/ Progress(p, q)
       \/ Connect(p, q) \/ Close(p, q)
       \/ rejectPeer(p, q) \/ timeOut(p, q)
       \/ sendData(p, q)
  \/ \E p \in Peers : startLeave(p) \/ finishLeave(p) \/ joinAgain(p)

Spec == Init /\ [][Next]_vars

\* Peers announce themselves until they are connected, the channel delivers,
\* promises settle, timers fire, and the pause of leave() ends.
Fairness ==
  /\ \A p \in Peers : \A q \in Others(p) :
       /\ WF_vars(Attach(p, q)) /\ WF_vars(Connect(p, q))
       /\ WF_vars(Buffer(p, q) \/ receiveHandshakeData(p, q)
                    \/ receiveHandshakeReady(p, q) \/ receiveLeave(p, q)
                    \/ receiveData(p, q))
       /\ WF_vars(verifyResponse(p, q)) /\ WF_vars(answerChallenge(p, q))
       /\ WF_vars(answerLate(p, q))
       /\ WF_vars(markLocalHandshakePassed(p, q))
       /\ WF_vars(timeOut(p, q))
       /\ WF_vars(~shared[q][p] /\ Close(p, q))
  /\ \A p \in Peers : WF_vars(finishLeave(p))

FairSpec == Spec /\ Fairness

-----------------------------------------------------------------------------
TypeOK ==
  /\ password \in [Peers -> Passwords]
  /\ room \in [Peers -> {"in", "leaving", "out"}]
  /\ shared \in [Peers -> [Peers -> BOOLEAN]]
  /\ hs \in [Peers -> [Peers -> PeerStates]]
  /\ late \in [Peers -> [Peers -> SUBSET Nonces]]
  /\ wire \in [Peers -> [Peers -> Seq(Frames)]]
  /\ pend \in [Peers -> [Peers -> Seq(Frames)]]
  /\ attaches \in [Peers -> [Peers -> 0..2]]
  /\ faults \in 0..MaxFaults

\* Neither side has bound itself to this transport twice: nothing on it is
\* left over from an earlier handshake.
FirstBinding(p, q) == attaches[p][q] <= 1 /\ attaches[q][p] <= 1

\* README 433: the password must match for peers to be able to connect.  With
\* a transport that another room opened, only the handshake enforces it,
\* whatever is replayed, repeated, timed out or answered late.
PasswordGate ==
  \A p \in Peers : \A q \in Others(p) :
    hs[p][q].active => password[p] = password[q]

\* Whoever is active on a first binding is connected to a side that, as long
\* as it is bound, has passed its own handshake: one-sided admission needs a
\* second binding.
AdmissionAgreement ==
  \A p \in Peers : \A q \in Others(p) :
    (hs[p][q].active /\ FirstBinding(p, q) /\ shared[q][p] /\ hs[q][p].bound)
      => hs[q][p].pass

\* canReceiveFromPeer drops what an application sends to a pending peer.  On
\* first bindings nothing is lost to that gate: the readiness of the sender
\* always arrives before its first message.
NoDataDropped ==
  \A p \in Peers : \A q \in Others(p) :
    (FirstBinding(p, q) /\ Handles(p, q, DataFrame)) => hs[p][q].active

\* "incorrect password for overlapping room" is only reported when the
\* passwords differ, on first bindings.
NoFalseRejection ==
  \A p \in Peers : \A q \in Others(p) :
    (/\ hs[p][q].stage = "hash" /\ isInitiator(p, q)
     /\ FirstBinding(p, q)
     /\ password[p] = password[q])
      => hs[p][q].held = Response(hs[p][q].nonce, password[p])

\* The same of every binding: "incorrect password" is what onJoinError says
\* when, and only when, the passwords differ.
RejectionMeansWrongPassword ==
  \A p \in Peers : \A q \in Others(p) :
    (/\ hs[p][q].stage = "hash" /\ isInitiator(p, q)
     /\ password[p] = password[q])
      => hs[p][q].held = Response(hs[p][q].nonce, password[p])

\* As long as there is no timeout, rejection, departure or loss, every two peers
\* with one password end up, and stay, active for each other: the roles of
\* initiator and responder never wait for each other.
EverybodyMeets ==
  [](faults = 0) =>
    \A p \in Peers : \A q \in Others(p) :
      (password[p] = password[q]) => <>[](hs[p][q].active)

\* A peer that has left for good is not listed for ever.
DepartedForgotten ==
  \A p \in Peers : \A q \in Others(p) :
    (<>[](room[q] = "out")) => []<>(~hs[p][q].active)

=============================================================================
