-------------------------- MODULE AdmissionProofs --------------------------
(***************************************************************************)
(* Proofs about Admission, for every set of peers and passwords and every  *)
(* choice of faults: the types of its variables and PasswordGate, from     *)
(* what the passwords let a frame say; then what holds on first bindings,  *)
(* from the order of the frames between the two sides of a link.           *)
(***************************************************************************)
EXTENDS Admission, SequenceTheorems, TLAPS

(* Taking the first frame off a queue leaves a queue of frames.             *)
LEMMA HeadTail ==
  ASSUME NEW S, NEW s \in Seq(S), s # <<>>
  PROVE  Head(s) \in S /\ Tail(s) \in Seq(S)
  OBVIOUS

(* Assigning one entry of a table over pairs of peers keeps its type.       *)
LEMMA Update ==
  ASSUME NEW S, NEW f \in [Peers -> [Peers -> S]],
         NEW p \in Peers, NEW q \in Peers, NEW v \in S
  PROVE  [f EXCEPT ![p][q] = v] \in [Peers -> [Peers -> S]]
  OBVIOUS

(* The frames the code builds are frames, and a challenge has a nonce.      *)
LEMMA FrameTypes ==
  /\ Ready \in Frames /\ LeaveFrame \in Frames /\ DataFrame \in Frames
  /\ \A n \in Nonces : Challenge(n) \in Frames
  /\ \A n \in Nonces, w \in Passwords : Response(n, w) \in Frames
  /\ \A m \in Frames : m.kind = "challenge" => m.c \in Nonces
  BY DEF Ready, LeaveFrame, DataFrame, Challenge, Response, Frames

(* A detached peer has a peer state.                                        *)
LEMMA UnboundType == Unbound \in PeerStates
  BY FrameTypes DEF Unbound, PeerStates

(* Sending a frame (action-wire.ts send) keeps the wires typed.             *)
LEMMA SendType ==
  ASSUME TypeOK, NEW p \in Peers, NEW q \in Peers, NEW m \in Frames
  PROVE  Send(p, q, m) \in [Peers -> [Peers -> Seq(Frames)]]
<1>1. Append(wire[p][q], m) \in Seq(Frames)
  BY DEF TypeOK
<1> QED
  BY <1>1, Update DEF TypeOK, Send

(* So does taking one, from the channel or from pendingDataByToken.         *)
LEMMA TakeFrameType ==
  ASSUME TypeOK, NEW p \in Peers, NEW q \in Others(p), TakeFrame(p, q),
         Incoming(p, q) # <<>>
  PROVE  /\ wire' \in [Peers -> [Peers -> Seq(Frames)]]
         /\ pend' \in [Peers -> [Peers -> Seq(Frames)]]
<1>q. q \in Peers
  BY DEF Others
<1>1. CASE pend[p][q] # <<>>
  <2>1. Tail(pend[p][q]) \in Seq(Frames)
    BY <1>q, <1>1, HeadTail DEF TypeOK
  <2>2. pend' = [pend EXCEPT ![p][q] = Tail(pend[p][q])] /\ wire' = wire
    BY <1>1 DEF TakeFrame
  <2> QED
    BY <1>q, <2>1, <2>2, Update DEF TypeOK
<1>2. CASE pend[p][q] = <<>>
  <2>1. Tail(wire[q][p]) \in Seq(Frames)
    BY <1>q, <1>2, HeadTail DEF TypeOK, Incoming
  <2>2. wire' = [wire EXCEPT ![q][p] = Tail(wire[q][p])] /\ pend' = pend
    BY <1>2 DEF TakeFrame
  <2> QED
    BY <1>q, <2>1, <2>2, Update DEF TypeOK
<1> QED
  BY <1>1, <1>2

(* exitPeer leaves a peer state, and only challenges to answer late.        *)
LEMMA ExitType ==
  ASSUME TypeOK, NEW p \in Peers, NEW q \in Peers, exitPeer(p, q)
  PROVE  /\ hs' \in [Peers -> [Peers -> PeerStates]]
         /\ late' \in [Peers -> [Peers -> SUBSET Nonces]]
<1>1. hs' \in [Peers -> [Peers -> PeerStates]]
  BY UnboundType, Update DEF TypeOK, exitPeer
<1>2. hs[p][q].held \in Frames
  BY DEF TypeOK, PeerStates
<1>3. Orphaned(p, q) \in SUBSET Nonces
  BY <1>2, FrameTypes DEF Orphaned
<1>4. (late[p][q] \union Orphaned(p, q)) \in SUBSET Nonces
  BY <1>3 DEF TypeOK
<1>5. late' \in [Peers -> [Peers -> SUBSET Nonces]]
  BY <1>4, Update DEF TypeOK, exitPeer
<1> QED
  BY <1>1, <1>5
-----------------------------------------------------------------------------
(* A peer state stays one when the fields of an attach, of a received frame *)
(* or of a finished stage are assigned.                                     *)
LEMMA StateTypes ==
  ASSUME NEW s \in PeerStates, NEW g \in {"off", "await", "hash", "decide", "done"},
         NEW m \in Frames, NEW n \in Nonces \union {NoNonce}
  PROVE  /\ [Unbound EXCEPT !.bound = TRUE, !.stage = g] \in PeerStates
         /\ [Unbound EXCEPT !.bound = TRUE, !.stage = g, !.nonce = n] \in PeerStates
         /\ [s EXCEPT !.stage = g, !.held = m] \in PeerStates
         /\ [s EXCEPT !.stage = g, !.held = m, !.nonce = n] \in PeerStates
         /\ maybeActivatePeer([s EXCEPT !.ready = TRUE]) \in PeerStates
         /\ maybeActivatePeer([s EXCEPT !.pass = TRUE, !.stage = g]) \in PeerStates
  BY UnboundType DEF PeerStates, maybeActivatePeer

(* A fault is counted up to the bound.                                      *)
LEMMA FaultType ==
  ASSUME faults \in 0..MaxFaults, NEW k, Fault(k)
  PROVE  faults' \in 0..MaxFaults
  BY BoundsAssumption DEF Fault

(* The initial states are typed.                                            *)
LEMMA InitTypeOK == Init => TypeOK
<1> SUFFICES ASSUME Init PROVE TypeOK
  OBVIOUS
<1>1. hs \in [Peers -> [Peers -> PeerStates]]
  BY UnboundType DEF Init
<1>2. /\ wire \in [Peers -> [Peers -> Seq(Frames)]]
      /\ pend \in [Peers -> [Peers -> Seq(Frames)]]
  BY DEF Init
<1>3. /\ attaches \in [Peers -> [Peers -> 0..2]]
      /\ late \in [Peers -> [Peers -> SUBSET Nonces]]
      /\ faults \in 0..MaxFaults
  BY BoundsAssumption DEF Init
<1> QED
  BY <1>1, <1>2, <1>3 DEF Init, TypeOK

(* Every step of Admission keeps the types.                                 *)
LEMMA StepTypeOK == TypeOK /\ [Next]_vars => TypeOK'
<1> SUFFICES ASSUME TypeOK, [Next]_vars
             PROVE  TypeOK'
  OBVIOUS
<1> USE DEF TypeOK
<1>s. CASE UNCHANGED vars
  BY <1>s DEF vars
<1>p. ASSUME NEW p \in Peers, NEW q \in Others(p),
             \/ Progress(p, q)
             \/ Connect(p, q) \/ Close(p, q)
             \/ rejectPeer(p, q) \/ timeOut(p, q)
             \/ sendData(p, q)
      PROVE  TypeOK'
  <2>q. q \in Peers
    BY DEF Others
  <2>t. hs \in [Peers -> [Peers -> PeerStates]]
    OBVIOUS
  <2>h. hs[p][q] \in PeerStates /\ hs[p][q].held \in Frames
    BY <2>q DEF PeerStates
  <2>1. CASE Connect(p, q)
    <3>1. shared' = [shared EXCEPT ![p][q] = TRUE, ![q][p] = TRUE]
      BY <2>1 DEF Connect
    <3>2. attaches' = [attaches EXCEPT ![p][q] = 0, ![q][p] = 0]
      BY <2>1 DEF Connect
    <3>3. shared' \in [Peers -> [Peers -> BOOLEAN]]
      BY <3>1, <2>q
    <3>4. attaches' \in [Peers -> [Peers -> 0..2]]
      <4> DEFINE one == [attaches EXCEPT ![p][q] = 0]
      <4>1. one \in [Peers -> [Peers -> 0..2]] /\ 0 \in 0..2
        BY <2>q, Update
      <4>2. attaches' = [one EXCEPT ![q][p] = 0]
        BY <3>2, <2>q
      <4> HIDE DEF one
      <4> QED
        BY <4>1, <4>2, <2>q, Update
    <3> QED
      BY <2>1, <3>3, <3>4 DEF Connect
  <2>2. CASE Close(p, q)
    <3>1. pend' = [pend EXCEPT ![p][q] = <<>>] /\ wire' = [wire EXCEPT ![q][p] = <<>>]
      BY <2>2 DEF Close
    <3>2. pend' \in [Peers -> [Peers -> Seq(Frames)]]
      BY <3>1, <2>q
    <3>3. wire' \in [Peers -> [Peers -> Seq(Frames)]]
      BY <3>1, <2>q
    <3>4. exitPeer(p, q) /\ shared' \in [Peers -> [Peers -> BOOLEAN]]
      BY <2>2, <2>q DEF Close
    <3>5. hs' \in [Peers -> [Peers -> PeerStates]]
          /\ late' \in [Peers -> [Peers -> SUBSET Nonces]]
      BY <3>4, <2>q, ExitType
    <3>6. faults' \in 0..MaxFaults
      BY <2>2, FaultType DEF Close
    <3> QED
      BY <2>2, <3>2, <3>3, <3>4, <3>5, <3>6 DEF Close
  <2>3. CASE Attach(p, q)
    <3>1. attaches' \in [Peers -> [Peers -> 0..2]]
      <4> DEFINE k == IF attaches[p][q] = 0 /\ late[p][q] = {} THEN 1 ELSE 2
      <4>1. attaches' = [attaches EXCEPT ![p][q] = k]
        BY <2>3, <2>q DEF Attach
      <4>2. k \in 0..2
        OBVIOUS
      <4> HIDE DEF k
      <4> QED
        BY <4>1, <4>2, <2>q, Update
    <3>2. CASE password[p] = NoPassword
               /\ hs' = [hs EXCEPT ![p][q] =
                           [Unbound EXCEPT !.bound = TRUE, !.stage = "decide"]]
               /\ UNCHANGED wire
      <4>1. hs' \in [Peers -> [Peers -> PeerStates]]
        BY <3>2, <2>q, <2>t, <2>h, StateTypes, Update
      <4> QED
        BY <2>3, <3>1, <3>2, <4>1 DEF Attach
    <3>3. CASE password[p] # NoPassword /\ ~isInitiator(p, q)
               /\ hs' = [hs EXCEPT ![p][q] =
                           [Unbound EXCEPT !.bound = TRUE, !.stage = "await"]]
               /\ UNCHANGED wire
      <4>1. hs' \in [Peers -> [Peers -> PeerStates]]
        BY <3>3, <2>q, <2>t, <2>h, StateTypes, Update
      <4> QED
        BY <2>3, <3>1, <3>3, <4>1 DEF Attach
    <3>4. ASSUME NEW n \in Nonces,
                 hs' = [hs EXCEPT ![p][q] =
                          [Unbound EXCEPT !.bound = TRUE, !.stage = "await",
                                          !.nonce = n]],
                 wire' = Send(p, q, Challenge(n))
          PROVE  TypeOK'
      <4>1. hs' \in [Peers -> [Peers -> PeerStates]]
        BY <3>4, <2>q, <2>t, <2>h, StateTypes, Update
      <4>2. wire' \in [Peers -> [Peers -> Seq(Frames)]]
        BY <3>4, <2>q, FrameTypes, SendType
      <4> QED
        BY <2>3, <3>1, <4>1, <4>2 DEF Attach
    <3> QED
      BY <2>3, <3>2, <3>3, <3>4 DEF Attach
  <2>4. CASE Buffer(p, q)
    <3>1. Head(wire[q][p]) \in Frames /\ Tail(wire[q][p]) \in Seq(Frames)
      BY <2>4, <2>q, HeadTail DEF Buffer
    <3>2. Append(pend[p][q], Head(wire[q][p])) \in Seq(Frames)
      BY <3>1, <2>q
    <3>3. /\ pend' = [pend EXCEPT ![p][q] = Append(pend[p][q], Head(wire[q][p]))]
          /\ wire' = [wire EXCEPT ![q][p] = Tail(wire[q][p])]
      BY <2>4 DEF Buffer
    <3>4. /\ pend' \in [Peers -> [Peers -> Seq(Frames)]]
          /\ wire' \in [Peers -> [Peers -> Seq(Frames)]]
      BY <2>q, <3>1, <3>2, <3>3, Update
    <3> QED
      BY <2>4, <3>4 DEF Buffer
  <2>5. CASE receiveHandshakeData(p, q)
    <3>1. PICK m \in Frames : Handles(p, q, m) /\ TakeFrame(p, q)
               /\ hs' = IF ~hs[p][q].active /\ hs[p][q].stage = "await"
                          THEN [hs EXCEPT ![p][q].stage = "hash",
                                          ![p][q].held = m]
                          ELSE hs
      BY <2>5 DEF receiveHandshakeData
    <3>2. wire' \in [Peers -> [Peers -> Seq(Frames)]]
          /\ pend' \in [Peers -> [Peers -> Seq(Frames)]]
      BY <3>1, TakeFrameType DEF Handles
    <3>3. [hs[p][q] EXCEPT !.stage = "hash", !.held = m] \in PeerStates
      BY <2>h, StateTypes
    <3>4. hs' = hs \/ hs' = [hs EXCEPT ![p][q] =
                                 [hs[p][q] EXCEPT !.stage = "hash", !.held = m]]
      BY <3>1, <2>q
    <3>5. hs' \in [Peers -> [Peers -> PeerStates]]
      <4>1. CASE hs' = hs
        BY <4>1, <2>t
      <4>2. CASE hs' = [hs EXCEPT ![p][q] =
                         [hs[p][q] EXCEPT !.stage = "hash", !.held = m]]
        BY <4>2, <3>3, <2>q, <2>t, Update
      <4> QED
        BY <3>4, <4>1, <4>2
    <3> QED
      BY <2>5, <3>2, <3>5 DEF receiveHandshakeData
  <2>6. CASE receiveHandshakeReady(p, q)
    <3>1. wire' \in [Peers -> [Peers -> Seq(Frames)]]
          /\ pend' \in [Peers -> [Peers -> Seq(Frames)]]
      BY <2>6, TakeFrameType DEF receiveHandshakeReady, Handles
    <3>2. hs' \in [Peers -> [Peers -> PeerStates]]
      BY <2>6, <2>q, <2>t, <2>h, StateTypes, FrameTypes, Update
      DEF receiveHandshakeReady
    <3> QED
      BY <2>6, <3>1, <3>2 DEF receiveHandshakeReady
  <2>7. CASE receiveLeave(p, q)
    <3>1. hs' \in [Peers -> [Peers -> PeerStates]]
          /\ late' \in [Peers -> [Peers -> SUBSET Nonces]]
      BY <2>7, <2>q, ExitType DEF receiveLeave
    <3>2. wire' \in [Peers -> [Peers -> Seq(Frames)]]
          /\ pend' \in [Peers -> [Peers -> Seq(Frames)]]
      <4>1. CASE pend[p][q] # <<>>
        <5>1. pend' = [pend EXCEPT ![p][q] = <<>>] /\ wire' = wire
          BY <2>7, <4>1 DEF receiveLeave
        <5> QED
          BY <5>1, <2>q
      <4>2. CASE pend[p][q] = <<>>
        BY <2>7, <4>2, TakeFrameType DEF receiveLeave, Handles
      <4> QED
        BY <4>1, <4>2
    <3> QED
      BY <2>7, <3>1, <3>2 DEF receiveLeave
  <2>8. CASE receiveData(p, q)
    <3>1. wire' \in [Peers -> [Peers -> Seq(Frames)]]
          /\ pend' \in [Peers -> [Peers -> Seq(Frames)]]
      BY <2>8, TakeFrameType DEF receiveData, Handles
    <3> QED
      BY <2>8, <3>1 DEF receiveData
  <2>9. CASE verifyResponse(p, q)
    <3>1. CASE exitPeer(p, q)
      <4>1. hs' \in [Peers -> [Peers -> PeerStates]]
            /\ late' \in [Peers -> [Peers -> SUBSET Nonces]]
        BY <3>1, <2>q, ExitType
      <4> QED
        BY <2>9, <4>1 DEF verifyResponse
    <3>2. CASE hs' = [hs EXCEPT ![p][q].stage = "decide", ![p][q].held = Ready,
                                ![p][q].nonce = NoNonce] /\ UNCHANGED late
      <4>1. [hs[p][q] EXCEPT !.stage = "decide", !.held = Ready,
                             !.nonce = NoNonce] \in PeerStates
        BY <2>h, StateTypes, FrameTypes
      <4>2. hs' = [hs EXCEPT ![p][q] =
                     [hs[p][q] EXCEPT !.stage = "decide", !.held = Ready,
                                      !.nonce = NoNonce]]
        BY <3>2, <2>q
      <4>3. hs' \in [Peers -> [Peers -> PeerStates]]
        BY <4>1, <4>2, <2>q, <2>t, Update
      <4> QED
        BY <2>9, <3>2, <4>3 DEF verifyResponse
    <3> QED
      BY <2>9, <3>1, <3>2 DEF verifyResponse
  <2>10. CASE answerChallenge(p, q)
    <3>1. CASE exitPeer(p, q) /\ UNCHANGED wire
      <4>1. hs' \in [Peers -> [Peers -> PeerStates]]
            /\ late' \in [Peers -> [Peers -> SUBSET Nonces]]
        BY <3>1, <2>q, ExitType
      <4> QED
        BY <2>10, <3>1, <4>1 DEF answerChallenge
    <3>2. CASE /\ hs[p][q].held.kind = "challenge"
               /\ wire' = Send(p, q, Response(hs[p][q].held.c, password[p]))
               /\ hs' = [hs EXCEPT ![p][q].stage = "decide",
                                   ![p][q].held = Ready]
               /\ UNCHANGED late
      <4>1. [hs[p][q] EXCEPT !.stage = "decide", !.held = Ready] \in PeerStates
        BY <2>h, StateTypes, FrameTypes
      <4>2. hs' = [hs EXCEPT ![p][q] =
                     [hs[p][q] EXCEPT !.stage = "decide", !.held = Ready]]
        BY <3>2, <2>q
      <4>3. hs' \in [Peers -> [Peers -> PeerStates]]
        BY <4>1, <4>2, <2>q, <2>t, Update
      <4>4. Response(hs[p][q].held.c, password[p]) \in Frames
        BY <3>2, <2>h, FrameTypes
      <4>5. wire' \in [Peers -> [Peers -> Seq(Frames)]]
        BY <3>2, <4>4, <2>q, SendType
      <4> QED
        BY <2>10, <3>2, <4>3, <4>5 DEF answerChallenge
    <3> QED
      BY <2>10, <3>1, <3>2 DEF answerChallenge
  <2>11. CASE answerLate(p, q)
    <3>1. PICK n \in late[p][q] :
            /\ late' = [late EXCEPT ![p][q] = @ \ {n}]
            /\ wire' = IF hs[p][q].bound
                         THEN Send(p, q, Response(n, password[p]))
                         ELSE wire
      BY <2>11 DEF answerLate
    <3>2. late[p][q] \subseteq Nonces
      BY <2>q
    <3>3. Response(n, password[p]) \in Frames
      BY <3>2, FrameTypes
    <3>4. wire' \in [Peers -> [Peers -> Seq(Frames)]]
      BY <3>1, <3>3, <2>q, SendType
    <3>5. late' \in [Peers -> [Peers -> SUBSET Nonces]]
      BY <3>1, <3>2, <2>q, Update
    <3> QED
      BY <2>11, <3>4, <3>5 DEF answerLate
  <2>12. CASE markLocalHandshakePassed(p, q)
    <3>1. wire' \in [Peers -> [Peers -> Seq(Frames)]]
      BY <2>12, <2>q, FrameTypes, SendType DEF markLocalHandshakePassed
    <3>2. hs' \in [Peers -> [Peers -> PeerStates]]
      BY <2>12, <2>q, <2>t, <2>h, StateTypes, FrameTypes, Update
      DEF markLocalHandshakePassed
    <3> QED
      BY <2>12, <3>1, <3>2 DEF markLocalHandshakePassed
  <2>13. CASE rejectPeer(p, q)
    <3>1. hs' \in [Peers -> [Peers -> PeerStates]]
          /\ late' \in [Peers -> [Peers -> SUBSET Nonces]]
      BY <2>13, <2>q, ExitType DEF rejectPeer
    <3>2. faults' \in 0..MaxFaults
      BY <2>13, FaultType DEF rejectPeer
    <3> QED
      BY <2>13, <3>1, <3>2 DEF rejectPeer
  <2>14. CASE timeOut(p, q)
    <3>1. hs' \in [Peers -> [Peers -> PeerStates]]
          /\ late' \in [Peers -> [Peers -> SUBSET Nonces]]
      BY <2>14, <2>q, ExitType DEF timeOut
    <3>2. faults' \in 0..MaxFaults
      BY <2>14, FaultType DEF timeOut
    <3> QED
      BY <2>14, <3>1, <3>2 DEF timeOut
  <2>15. CASE sendData(p, q)
    <3>1. wire' \in [Peers -> [Peers -> Seq(Frames)]]
      BY <2>15, <2>q, FrameTypes, SendType DEF sendData
    <3> QED
      BY <2>15, <3>1 DEF sendData
  <2> QED
    BY <1>p, <2>1, <2>2, <2>3, <2>4, <2>5, <2>6, <2>7, <2>8, <2>9, <2>10,
       <2>11, <2>12, <2>13, <2>14, <2>15 DEF Progress
<1>r. ASSUME NEW p \in Peers, startLeave(p) \/ finishLeave(p) \/ joinAgain(p)
      PROVE  TypeOK'
  <2>1. CASE startLeave(p)
    <3>1. \A q \in Peers : Append(wire[p][q], LeaveFrame) \in Seq(Frames)
      BY FrameTypes
    <3>2. wire' \in [Peers -> [Peers -> Seq(Frames)]]
      BY <2>1, <3>1 DEF startLeave
    <3>3. faults' \in 0..MaxFaults
      BY <2>1, FaultType DEF startLeave
    <3> QED
      BY <2>1, <3>2, <3>3 DEF startLeave
  <2>2. CASE finishLeave(p)
    <3>1. hs' \in [Peers -> [Peers -> PeerStates]]
      BY <2>2, UnboundType DEF finishLeave
    <3>2. late' \in [Peers -> [Peers -> SUBSET Nonces]]
      BY <2>2 DEF finishLeave
    <3> QED
      BY <2>2, <3>1, <3>2 DEF finishLeave
  <2>3. CASE joinAgain(p)
    BY <2>3 DEF joinAgain
  <2> QED
    BY <1>r, <2>1, <2>2, <2>3
<1> QED
  BY <1>s, <1>p, <1>r DEF Next

(* Every behaviour of Admission stays within the types of its variables:   *)
(* queues hold frames, runs and readiness flags belong to a PeerState.     *)
THEOREM TypeCorrect == Spec => []TypeOK
  BY InitTypeOK, StepTypeOK, PTL DEF Spec

-----------------------------------------------------------------------------
(* PasswordGate is not inductive: what makes it true is which frames can be *)
(* anywhere between two peers, and how far a run can get, given only the    *)
(* passwords pw.                                                            *)

(* p's handshake with q can pass: a side without a password passes alone,   *)
(* the initiator needs a response made with its own password, the responder *)
(* needs a challenge.                                                       *)
CanPass(pw, p, q) ==
  \/ pw[p] = NoPassword
  \/ isInitiator(p, q) /\ pw[q] = pw[p]
  \/ ~isInitiator(p, q) /\ pw[q] # NoPassword

(* m may have been sent by p to q. *)
Honest(pw, p, q, m) ==
  /\ m.kind = "challenge" => pw[p] # NoPassword
  /\ m.kind = "response" => m.pw = pw[p]
  /\ m.kind = "ready" => CanPass(pw, p, q)

HonestSeq(pw, p, q, s) == \A i \in 1..Len(s) : Honest(pw, p, q, s[i])

(* s is a state p's handshake with q can be in. *)
Reachable(pw, p, q, s) ==
  /\ s.stage = "hash" => Honest(pw, q, p, s.held)
  /\ s.stage \in {"decide", "done"} => CanPass(pw, p, q)
  /\ s.pass => CanPass(pw, p, q)
  /\ s.ready => CanPass(pw, q, p)
  /\ s.active => s.pass /\ s.ready

HonestWires(pw, w) ==
  \A p \in Peers : \A q \in Peers : HonestSeq(pw, p, q, w[p][q])

HonestPends(pw, b) ==
  \A p \in Peers : \A q \in Peers : HonestSeq(pw, q, p, b[p][q])

ReachableStates(pw, h) ==
  \A p \in Peers : \A q \in Others(p) : Reachable(pw, p, q, h[p][q])

GateInv ==
  /\ TypeOK
  /\ HonestWires(password, wire)
  /\ HonestPends(password, pend)
  /\ ReachableStates(password, hs)

(* What kind of frame each constructor builds.                              *)
LEMMA KindTypes ==
  /\ Ready.kind = "ready" /\ LeaveFrame.kind = "leave" /\ DataFrame.kind = "data"
  /\ \A n : Challenge(n).kind = "challenge"
  /\ \A n, w : Response(n, w).kind = "response" /\ Response(n, w).pw = w
  BY DEF Ready, LeaveFrame, DataFrame, Challenge, Response

(* Nothing is claimed of a peer that has been cleared.                      *)
LEMMA UnboundReachable ==
  ASSUME NEW pw, NEW p, NEW q
  PROVE  Reachable(pw, p, q, Unbound)
  BY DEF Reachable, Unbound

(* Taking the first frame off an honest queue.                              *)
LEMMA HonestTail ==
  ASSUME NEW pw, NEW p, NEW q, NEW s \in Seq(Frames), s # <<>>,
         HonestSeq(pw, p, q, s)
  PROVE  HonestSeq(pw, p, q, Tail(s)) /\ Honest(pw, p, q, Head(s))
<1>1. Len(s) \in Nat \ {0} /\ Head(s) = s[1]
  OBVIOUS
<1>2. Len(Tail(s)) = Len(s) - 1 /\ \A i \in 1..Len(Tail(s)) : Tail(s)[i] = s[i + 1]
  OBVIOUS
<1> QED
  BY <1>1, <1>2 DEF HonestSeq

(* Appending an honest frame to an honest queue.                            *)
LEMMA HonestAppend ==
  ASSUME NEW pw, NEW p, NEW q, NEW s \in Seq(Frames), NEW m \in Frames,
         HonestSeq(pw, p, q, s), Honest(pw, p, q, m)
  PROVE  HonestSeq(pw, p, q, Append(s, m))
<1>1. Len(s) \in Nat /\ Len(Append(s, m)) = Len(s) + 1
  OBVIOUS
<1>2. \A i \in 1..Len(s) : Append(s, m)[i] = s[i]
  OBVIOUS
<1>3. Append(s, m)[Len(s) + 1] = m
  OBVIOUS
<1> QED
  BY <1>1, <1>2, <1>3 DEF HonestSeq

(* An empty queue is honest.                                                *)
LEMMA HonestEmpty ==
  ASSUME NEW pw, NEW p, NEW q
  PROVE  HonestSeq(pw, p, q, <<>>)
  BY DEF HonestSeq

(* Updating one queue with an honest one keeps all of them honest.          *)
LEMMA WireUpdate ==
  ASSUME NEW pw, NEW w \in [Peers -> [Peers -> Seq(Frames)]],
         HonestWires(pw, w),
         NEW p \in Peers, NEW q \in Peers, NEW s, HonestSeq(pw, p, q, s)
  PROVE  HonestWires(pw, [w EXCEPT ![p][q] = s])
  BY DEF HonestWires

(* The same of the queues in pendingDataByToken.                            *)
LEMMA PendUpdate ==
  ASSUME NEW pw, NEW b \in [Peers -> [Peers -> Seq(Frames)]],
         HonestPends(pw, b),
         NEW p \in Peers, NEW q \in Peers, NEW s, HonestSeq(pw, q, p, s)
  PROVE  HonestPends(pw, [b EXCEPT ![p][q] = s])
  BY DEF HonestPends

(* The same of the peer states.                                             *)
LEMMA StateUpdate ==
  ASSUME NEW pw, NEW h \in [Peers -> [Peers -> PeerStates]],
         ReachableStates(pw, h),
         NEW p \in Peers, NEW q \in Others(p), NEW s, Reachable(pw, p, q, s)
  PROVE  ReachableStates(pw, [h EXCEPT ![p][q] = s])
  BY DEF ReachableStates, Others

(* Sending what the sender may send keeps every wire honest.                *)
LEMMA SendHonest ==
  ASSUME TypeOK, HonestWires(password, wire),
         NEW p \in Peers, NEW q \in Peers, NEW m \in Frames,
         Honest(password, p, q, m)
  PROVE  HonestWires(password, Send(p, q, m))
<1>1. wire[p][q] \in Seq(Frames) /\ HonestSeq(password, p, q, wire[p][q])
  BY DEF TypeOK, HonestWires
<1>2. HonestSeq(password, p, q, Append(wire[p][q], m))
  BY <1>1, HonestAppend
<1>3. wire \in [Peers -> [Peers -> Seq(Frames)]]
  BY DEF TypeOK
<1> QED
  BY <1>2, <1>3, WireUpdate DEF Send

(* Handling a frame keeps the queues honest, and the frame was honest.      *)
LEMMA TakeHonest ==
  ASSUME TypeOK, HonestWires(password, wire), HonestPends(password, pend),
         NEW p \in Peers, NEW q \in Peers, TakeFrame(p, q),
         Incoming(p, q) # <<>>
  PROVE  /\ HonestWires(password, wire') /\ HonestPends(password, pend')
         /\ Honest(password, q, p, Head(Incoming(p, q)))
<1>t. /\ wire \in [Peers -> [Peers -> Seq(Frames)]]
      /\ pend \in [Peers -> [Peers -> Seq(Frames)]]
  BY DEF TypeOK
<1>h. /\ HonestSeq(password, q, p, wire[q][p])
      /\ HonestSeq(password, q, p, pend[p][q])
  BY DEF HonestWires, HonestPends
<1>1. CASE pend[p][q] # <<>>
  <2>1. /\ HonestSeq(password, q, p, Tail(pend[p][q]))
        /\ Honest(password, q, p, Head(pend[p][q]))
    BY <1>1, <1>t, <1>h, HonestTail
  <2>2. pend' = [pend EXCEPT ![p][q] = Tail(pend[p][q])] /\ wire' = wire
    BY <1>1 DEF TakeFrame
  <2> QED
    BY <1>1, <1>t, <2>1, <2>2, PendUpdate DEF Incoming
<1>2. CASE pend[p][q] = <<>>
  <2>1. /\ HonestSeq(password, q, p, Tail(wire[q][p]))
        /\ Honest(password, q, p, Head(wire[q][p]))
    BY <1>2, <1>t, <1>h, HonestTail DEF Incoming
  <2>2. wire' = [wire EXCEPT ![q][p] = Tail(wire[q][p])] /\ pend' = pend
    BY <1>2 DEF TakeFrame
  <2> QED
    BY <1>2, <1>t, <2>1, <2>2, WireUpdate DEF Incoming
<1> QED
  BY <1>1, <1>2

(* exitPeer keeps every peer state reachable.                               *)
LEMMA ExitReachable ==
  ASSUME TypeOK, ReachableStates(password, hs),
         NEW p \in Peers, NEW q \in Others(p), exitPeer(p, q)
  PROVE  ReachableStates(password, hs')
<1>1. hs \in [Peers -> [Peers -> PeerStates]]
  BY DEF TypeOK
<1>2. hs' = [hs EXCEPT ![p][q] = Unbound]
  BY DEF exitPeer
<1> QED
  BY <1>1, <1>2, UnboundReachable, StateUpdate

(* The fields an action assigns, one transition of a PeerState at a time.   *)
LEMMA ReachableSteps ==
  ASSUME NEW pw, NEW p, NEW q, NEW s \in PeerStates, Reachable(pw, p, q, s)
  PROVE  /\ \A m : Honest(pw, q, p, m)
                 => Reachable(pw, p, q, [s EXCEPT !.stage = "hash", !.held = m])
         /\ CanPass(pw, q, p)
              => Reachable(pw, p, q, maybeActivatePeer([s EXCEPT !.ready = TRUE]))
         /\ CanPass(pw, p, q)
              => Reachable(pw, p, q,
                   maybeActivatePeer([s EXCEPT !.pass = TRUE, !.stage = "done"]))
         /\ CanPass(pw, p, q)
              => \A m : /\ Reachable(pw, p, q, [s EXCEPT !.stage = "decide", !.held = m])
                        /\ \A n : Reachable(pw, p, q,
                              [s EXCEPT !.stage = "decide", !.held = m, !.nonce = n])
  BY DEF Reachable, PeerStates, maybeActivatePeer

(* The states a handshake starts in (handshake.ts addPeer and start).       *)
LEMMA ReachableAttach ==
  ASSUME NEW pw, NEW p, NEW q
  PROVE  /\ pw[p] = NoPassword
              => Reachable(pw, p, q, [Unbound EXCEPT !.bound = TRUE, !.stage = "decide"])
         /\ Reachable(pw, p, q, [Unbound EXCEPT !.bound = TRUE, !.stage = "await"])
         /\ \A n : Reachable(pw, p, q, [Unbound EXCEPT !.bound = TRUE,
                                        !.stage = "await", !.nonce = n])
  BY DEF Reachable, Unbound, CanPass

(* Every step of Admission keeps GateInv.                                   *)
LEMMA StepGateInv == GateInv /\ [Next]_vars => GateInv'
<1> SUFFICES ASSUME GateInv, [Next]_vars
             PROVE  GateInv'
  OBVIOUS
<1>t. TypeOK /\ TypeOK'
  BY StepTypeOK DEF GateInv
<1>i. /\ HonestWires(password, wire)
      /\ HonestPends(password, pend)
      /\ ReachableStates(password, hs)
  BY DEF GateInv
<1>v. /\ wire \in [Peers -> [Peers -> Seq(Frames)]]
      /\ pend \in [Peers -> [Peers -> Seq(Frames)]]
      /\ hs \in [Peers -> [Peers -> PeerStates]]
  BY <1>t DEF TypeOK
<1> SUFFICES /\ HonestWires(password', wire')
             /\ HonestPends(password', pend')
             /\ ReachableStates(password', hs')
  BY <1>t DEF GateInv
<1>s. CASE UNCHANGED vars
  BY <1>s, <1>i DEF vars
<1>p. ASSUME NEW p \in Peers, NEW q \in Others(p),
             \/ Progress(p, q)
             \/ Connect(p, q) \/ Close(p, q)
             \/ rejectPeer(p, q) \/ timeOut(p, q)
             \/ sendData(p, q)
      PROVE  /\ HonestWires(password', wire')
             /\ HonestPends(password', pend')
             /\ ReachableStates(password', hs')
  <2>q. q \in Peers /\ p \in Others(q)
    BY DEF Others
  <2>h. hs[p][q] \in PeerStates /\ Reachable(password, p, q, hs[p][q])
    BY <1>i, <1>v, <2>q DEF ReachableStates
  <2>o. isInitiator(p, q) <=> ~isInitiator(q, p)
    BY <2>q, PeersAssumption DEF Others, isInitiator
  <2>1. CASE Connect(p, q)
    BY <2>1, <1>i DEF Connect
  <2>2. CASE Close(p, q)
    <3>1. HonestWires(password, wire')
      BY <2>2, <2>q, <1>i, <1>v, HonestEmpty, WireUpdate DEF Close
    <3>2. HonestPends(password, pend')
      BY <2>2, <2>q, <1>i, <1>v, HonestEmpty, PendUpdate DEF Close
    <3>3. ReachableStates(password, hs')
      BY <2>2, <1>i, <1>t, ExitReachable DEF Close
    <3> QED
      BY <2>2, <3>1, <3>2, <3>3 DEF Close
  <2>3. CASE Attach(p, q)
    <3>0. password' = password /\ pend' = pend
      BY <2>3 DEF Attach
    <3>1. CASE password[p] = NoPassword
               /\ hs' = [hs EXCEPT ![p][q] =
                           [Unbound EXCEPT !.bound = TRUE, !.stage = "decide"]]
               /\ UNCHANGED wire
      <4>1. ReachableStates(password, hs')
        BY <3>1, <1>i, <1>v, ReachableAttach, StateUpdate
      <4> QED
        BY <3>0, <3>1, <4>1, <1>i
    <3>2. CASE password[p] # NoPassword /\ ~isInitiator(p, q)
               /\ hs' = [hs EXCEPT ![p][q] =
                           [Unbound EXCEPT !.bound = TRUE, !.stage = "await"]]
               /\ UNCHANGED wire
      <4>1. ReachableStates(password, hs')
        BY <3>2, <1>i, <1>v, ReachableAttach, StateUpdate
      <4> QED
        BY <3>0, <3>2, <4>1, <1>i
    <3>3. ASSUME NEW n \in Nonces, password[p] # NoPassword,
                 hs' = [hs EXCEPT ![p][q] =
                          [Unbound EXCEPT !.bound = TRUE, !.stage = "await",
                                          !.nonce = n]],
                 wire' = Send(p, q, Challenge(n))
          PROVE  /\ HonestWires(password', wire')
                 /\ HonestPends(password', pend')
                 /\ ReachableStates(password', hs')
      <4>1. ReachableStates(password, hs')
        BY <3>3, <1>i, <1>v, ReachableAttach, StateUpdate
      <4>2. Honest(password, p, q, Challenge(n)) /\ Challenge(n) \in Frames
        BY <3>3, KindTypes, FrameTypes DEF Honest
      <4>3. HonestWires(password, wire')
        BY <3>3, <4>2, <2>q, <1>t, <1>i, SendHonest
      <4> QED
        BY <3>0, <4>1, <4>3, <1>i
    <3> QED
      BY <2>3, <3>1, <3>2, <3>3 DEF Attach
  <2>4. CASE Buffer(p, q)
    <3>1. wire[q][p] \in Seq(Frames) /\ HonestSeq(password, q, p, wire[q][p])
          /\ pend[p][q] \in Seq(Frames) /\ HonestSeq(password, q, p, pend[p][q])
      BY <1>v, <1>i, <2>q DEF HonestWires, HonestPends
    <3>2. /\ HonestSeq(password, q, p, Tail(wire[q][p]))
          /\ Honest(password, q, p, Head(wire[q][p]))
          /\ Head(wire[q][p]) \in Frames
      BY <2>4, <3>1, HonestTail, HeadTail DEF Buffer
    <3>3. HonestSeq(password, q, p, Append(pend[p][q], Head(wire[q][p])))
      BY <3>1, <3>2, HonestAppend
    <3>4. HonestWires(password, wire')
      BY <2>4, <3>2, <2>q, <1>i, <1>v, WireUpdate DEF Buffer
    <3>5. HonestPends(password, pend')
      BY <2>4, <3>3, <2>q, <1>i, <1>v, PendUpdate DEF Buffer
    <3> QED
      BY <2>4, <3>4, <3>5, <1>i DEF Buffer
  <2>5. CASE receiveHandshakeData(p, q)
    <3>1. PICK m \in Frames :
            /\ Handles(p, q, m) /\ TakeFrame(p, q)
            /\ hs' = IF ~hs[p][q].active /\ hs[p][q].stage = "await"
                       THEN [hs EXCEPT ![p][q].stage = "hash",
                                       ![p][q].held = m]
                       ELSE hs
      BY <2>5 DEF receiveHandshakeData
    <3>2. /\ HonestWires(password, wire') /\ HonestPends(password, pend')
          /\ Honest(password, q, p, m)
      BY <3>1, <2>q, <1>t, <1>i, TakeHonest DEF Handles
    <3>3. Reachable(password, p, q, [hs[p][q] EXCEPT !.stage = "hash", !.held = m])
      BY <3>2, <2>h, ReachableSteps
    <3>4. hs' = hs \/ hs' = [hs EXCEPT ![p][q] =
                                 [hs[p][q] EXCEPT !.stage = "hash", !.held = m]]
      BY <3>1, <2>q, <1>v
    <3>5. ReachableStates(password, hs')
      <4>1. CASE hs' = hs
        BY <4>1, <1>i
      <4>2. CASE hs' = [hs EXCEPT ![p][q] =
                         [hs[p][q] EXCEPT !.stage = "hash", !.held = m]]
        BY <4>2, <3>3, <1>i, <1>v, StateUpdate
      <4> QED
        BY <3>4, <4>1, <4>2
    <3> QED
      BY <2>5, <3>2, <3>5 DEF receiveHandshakeData
  <2>6. CASE receiveHandshakeReady(p, q)
    <3>1. /\ HonestWires(password, wire') /\ HonestPends(password, pend')
          /\ Honest(password, q, p, Ready)
      BY <2>6, <2>q, <1>t, <1>i, TakeHonest DEF receiveHandshakeReady, Handles
    <3>2. CanPass(password, q, p)
      BY <3>1, KindTypes DEF Honest
    <3>3. ReachableStates(password, hs')
      BY <2>6, <3>2, <2>h, <1>i, <1>v, ReachableSteps, StateUpdate
      DEF receiveHandshakeReady
    <3> QED
      BY <2>6, <3>1, <3>3 DEF receiveHandshakeReady
  <2>7. CASE receiveLeave(p, q)
    <3>1. ReachableStates(password, hs')
      BY <2>7, <1>i, <1>t, ExitReachable DEF receiveLeave
    <3>2. CASE pend[p][q] # <<>> /\ pend' = [pend EXCEPT ![p][q] = <<>>]
               /\ UNCHANGED wire
      <4>1. HonestPends(password, pend')
        BY <3>2, <2>q, <1>i, <1>v, HonestEmpty, PendUpdate
      <4> QED
        BY <2>7, <3>1, <3>2, <4>1, <1>i DEF receiveLeave
    <3>3. CASE TakeFrame(p, q)
      <4>1. HonestWires(password, wire') /\ HonestPends(password, pend')
        BY <2>7, <3>3, <2>q, <1>t, <1>i, TakeHonest DEF receiveLeave, Handles
      <4> QED
        BY <2>7, <3>1, <4>1 DEF receiveLeave
    <3> QED
      BY <2>7, <3>2, <3>3 DEF receiveLeave
  <2>8. CASE receiveData(p, q)
    <3>1. HonestWires(password, wire') /\ HonestPends(password, pend')
      BY <2>8, <2>q, <1>t, <1>i, TakeHonest DEF receiveData, Handles
    <3> QED
      BY <2>8, <3>1, <1>i DEF receiveData
  <2>9. CASE verifyResponse(p, q)
    <3>1. CASE exitPeer(p, q)
      BY <2>9, <3>1, <1>i, <1>t, ExitReachable DEF verifyResponse
    <3>2. CASE /\ hs[p][q].held = Response(hs[p][q].nonce, password[p])
               /\ hs' = [hs EXCEPT ![p][q].stage = "decide",
                                   ![p][q].held = Ready, ![p][q].nonce = NoNonce]
      <4>1. Honest(password, q, p, hs[p][q].held)
        BY <2>9, <2>h DEF verifyResponse, Reachable
      <4>2. password[p] = password[q]
        BY <4>1, <3>2, KindTypes DEF Honest
      <4>3. CanPass(password, p, q)
        BY <2>9, <4>2 DEF verifyResponse, CanPass
      <4>4. hs' = [hs EXCEPT ![p][q] =
                     [hs[p][q] EXCEPT !.stage = "decide", !.held = Ready,
                                      !.nonce = NoNonce]]
        BY <3>2, <2>q, <1>v
      <4>5. ReachableStates(password, hs')
        BY <4>3, <4>4, <2>h, <1>i, <1>v, ReachableSteps, StateUpdate
      <4> QED
        BY <2>9, <4>5, <1>i DEF verifyResponse
    <3> QED
      BY <2>9, <3>1, <3>2 DEF verifyResponse
  <2>10. CASE answerChallenge(p, q)
    <3>1. CASE exitPeer(p, q) /\ UNCHANGED wire
      BY <2>10, <3>1, <1>i, <1>t, ExitReachable DEF answerChallenge
    <3>2. CASE /\ hs[p][q].held.kind = "challenge"
               /\ wire' = Send(p, q, Response(hs[p][q].held.c, password[p]))
               /\ hs' = [hs EXCEPT ![p][q].stage = "decide",
                                   ![p][q].held = Ready]
      <4>1. Honest(password, q, p, hs[p][q].held)
        BY <2>10, <2>h DEF answerChallenge, Reachable
      <4>2. CanPass(password, p, q)
        BY <2>10, <3>2, <4>1 DEF answerChallenge, CanPass, Honest
      <4>3. hs' = [hs EXCEPT ![p][q] =
                     [hs[p][q] EXCEPT !.stage = "decide", !.held = Ready]]
        BY <3>2, <2>q, <1>v
      <4>4. ReachableStates(password, hs')
        BY <4>2, <4>3, <2>h, <1>i, <1>v, ReachableSteps, StateUpdate
      <4>5. /\ Response(hs[p][q].held.c, password[p]) \in Frames
            /\ Honest(password, p, q, Response(hs[p][q].held.c, password[p]))
        <5>1. hs[p][q].held \in Frames /\ password[p] \in Passwords
          BY <2>h, <1>t DEF PeerStates, TypeOK
        <5>2. hs[p][q].held.c \in Nonces
          BY <5>1, <3>2, FrameTypes
        <5> QED
          BY <5>1, <5>2, FrameTypes, KindTypes DEF Honest
      <4>6. HonestWires(password, wire')
        BY <3>2, <4>5, <2>q, <1>t, <1>i, SendHonest
      <4> QED
        BY <2>10, <4>4, <4>6, <1>i DEF answerChallenge
    <3> QED
      BY <2>10, <3>1, <3>2 DEF answerChallenge
  <2>11. CASE answerLate(p, q)
    <3>1. PICK n \in late[p][q] :
            wire' = IF hs[p][q].bound
                      THEN Send(p, q, Response(n, password[p]))
                      ELSE wire
      BY <2>11 DEF answerLate
    <3>2. /\ Response(n, password[p]) \in Frames
          /\ Honest(password, p, q, Response(n, password[p]))
      <4>1. n \in Nonces /\ password[p] \in Passwords
        BY <2>q, <1>t DEF TypeOK
      <4> QED
        BY <4>1, FrameTypes, KindTypes DEF Honest
    <3>3. HonestWires(password, wire')
      BY <3>1, <3>2, <2>q, <1>t, <1>i, SendHonest
    <3> QED
      BY <2>11, <3>3, <1>i DEF answerLate
  <2>12. CASE markLocalHandshakePassed(p, q)
    <3>1. CanPass(password, p, q)
      BY <2>12, <2>h DEF markLocalHandshakePassed, Reachable
    <3>2. Honest(password, p, q, Ready)
      BY <3>1, KindTypes DEF Honest
    <3>3. HonestWires(password, wire')
      BY <2>12, <3>2, <2>q, <1>t, <1>i, FrameTypes, SendHonest
      DEF markLocalHandshakePassed
    <3>4. ReachableStates(password, hs')
      BY <2>12, <3>1, <2>h, <1>i, <1>v, ReachableSteps, StateUpdate
      DEF markLocalHandshakePassed
    <3> QED
      BY <2>12, <3>3, <3>4, <1>i DEF markLocalHandshakePassed
  <2>13. CASE rejectPeer(p, q)
    BY <2>13, <1>i, <1>t, ExitReachable DEF rejectPeer
  <2>14. CASE timeOut(p, q)
    BY <2>14, <1>i, <1>t, ExitReachable DEF timeOut
  <2>15. CASE sendData(p, q)
    <3>1. Honest(password, p, q, DataFrame) /\ DataFrame \in Frames
      BY KindTypes, FrameTypes DEF Honest
    <3>2. HonestWires(password, wire')
      BY <2>15, <3>1, <2>q, <1>t, <1>i, SendHonest DEF sendData
    <3> QED
      BY <2>15, <3>2, <1>i DEF sendData
  <2> QED
    BY <1>p, <2>1, <2>2, <2>3, <2>4, <2>5, <2>6, <2>7, <2>8, <2>9, <2>10,
       <2>11, <2>12, <2>13, <2>14, <2>15 DEF Progress
<1>r. ASSUME NEW p \in Peers, startLeave(p) \/ finishLeave(p) \/ joinAgain(p)
      PROVE  /\ HonestWires(password', wire')
             /\ HonestPends(password', pend')
             /\ ReachableStates(password', hs')
  <2>1. CASE startLeave(p)
    <3>1. Honest(password, p, p, LeaveFrame) /\ LeaveFrame \in Frames
          /\ \A q \in Peers : Honest(password, p, q, LeaveFrame)
      BY KindTypes, FrameTypes DEF Honest
    <3>2. ASSUME NEW a \in Peers, NEW b \in Peers
          PROVE  HonestSeq(password, a, b, wire'[a][b])
      <4>1. wire[a][b] \in Seq(Frames) /\ HonestSeq(password, a, b, wire[a][b])
        BY <1>v, <1>i DEF HonestWires
      <4>2. \/ wire'[a][b] = wire[a][b]
            \/ a = p /\ wire'[a][b] = Append(wire[a][b], LeaveFrame)
        BY <2>1, <1>v DEF startLeave
      <4> QED
        BY <3>1, <4>1, <4>2, HonestAppend
    <3> QED
      BY <2>1, <3>2, <1>i DEF startLeave, HonestWires
  <2>2. CASE finishLeave(p)
    <3>1. ASSUME NEW a \in Peers, NEW b \in Others(a)
          PROVE  Reachable(password, a, b, hs'[a][b])
      <4>1. b \in Peers
        BY DEF Others
      <4>2. hs'[a][b] = hs[a][b] \/ hs'[a][b] = Unbound
        BY <2>2, <4>1, <1>v DEF finishLeave
      <4> QED
        BY <4>2, <1>i, UnboundReachable DEF ReachableStates
    <3> QED
      BY <2>2, <3>1, <1>i DEF finishLeave, ReachableStates
  <2>3. CASE joinAgain(p)
    BY <2>3, <1>i DEF joinAgain
  <2> QED
    BY <1>r, <2>1, <2>2, <2>3
<1> QED
  BY <1>s, <1>p, <1>r DEF Next

(* For any number of peers, passwords, nonces and frames, and whatever is   *)
(* lost, replayed, timed out or answered late, a peer is active only for    *)
(* peers with the same password.                                            *)
THEOREM PasswordGateHolds == Spec => []PasswordGate
<1>1. Init => GateInv
  <2> SUFFICES ASSUME Init PROVE GateInv
    OBVIOUS
  <2>1. HonestWires(password, wire) /\ HonestPends(password, pend)
    BY HonestEmpty DEF Init, HonestWires, HonestPends
  <2>2. ReachableStates(password, hs)
    BY UnboundReachable DEF Init, ReachableStates, Others
  <2> QED
    BY <2>1, <2>2, InitTypeOK DEF GateInv
<1>2. GateInv => PasswordGate
  <2> SUFFICES ASSUME GateInv, NEW p \in Peers, NEW q \in Others(p),
                      hs[p][q].active
               PROVE  password[p] = password[q]
    BY DEF PasswordGate
  <2>1. q \in Peers /\ (isInitiator(p, q) <=> ~isInitiator(q, p))
    BY PeersAssumption DEF Others, isInitiator
  <2>2. CanPass(password, p, q) /\ CanPass(password, q, p)
    BY DEF GateInv, ReachableStates, Reachable
  <2> QED
    BY <2>1, <2>2 DEF CanPass
<1> QED
  BY <1>1, <1>2, StepGateInv, PTL DEF Spec

-----------------------------------------------------------------------------
(* The promises about first bindings rest on the order of what one side     *)
(* sends: what both sides of a link know of each other, with pended frames  *)
(* and those in the channel as one queue.                                   *)

(* p's side of the link to q; in holds q's frames in the order p gets them. *)
Side(p, q) ==
  [up |-> shared[p][q], st |-> hs[p][q], at |-> attaches[p][q],
   in |-> pend[p][q] \o wire[q][p], late |-> late[p][q]]

Sides ==
  [up : BOOLEAN, st : PeerStates, at : 0..2, in : Seq(Frames),
   late : SUBSET Nonces]

Has(s, m) == \E i \in 1..Len(s) : s[i] = m

(* The sender's readiness precedes its messages. *)
ReadyLeads(s) ==
  \A i \in 1..Len(s) :
    s[i] = DataFrame => \E j \in 1..Len(s) : j < i /\ s[j] = Ready

(* Side u has lost nothing that was sent to it on this transport. *)
Kept(u) == u.up /\ (u.at = 0 \/ (u.at = 1 /\ u.st.bound))

(* What u has read of v, and still will, tells the truth about v. *)
Sound(u, v) ==
  /\ u.st.bound => u.up
  /\ ~u.st.bound => u.st = Unbound
  /\ u.st.active <=> (u.st.pass /\ u.st.ready)
  /\ ~u.up => u.in = <<>>
  /\ v.at = 0 => /\ u.in = <<>> /\ ~v.st.bound
                 /\ ~u.st.ready /\ u.st.stage # "hash"
  /\ (v.at = 1 /\ v.st.bound /\ (u.st.ready \/ Has(u.in, Ready))) => v.st.pass
  /\ (v.at <= 1 /\ v.st.bound) => v.late = {}
  /\ (Kept(u) /\ v.at <= 1) =>
       /\ u.st.ready \/ ReadyLeads(u.in)
       /\ (v.st.bound /\ v.st.pass) => (u.st.ready \/ Has(u.in, Ready))
       /\ Has(u.in, DataFrame) => u.st.bound /\ u.st.pass

(* All that the initiator u is told of its challenge, and all that is told  *)
(* the responder v, whose password is w, is about that challenge. *)
Asked(w, u, v) ==
  (u.at <= 1 /\ v.at <= 1) =>
    /\ u.at = 0 =>
         \A m \in Frames : m.kind \in Handshaking => ~Has(u.in, m)
    /\ u.st.stage \in {"await", "hash"} =>
         /\ \A m \in Frames : (m.kind \in Handshaking /\ Has(u.in, m))
                                => m = Response(u.st.nonce, w)
         /\ u.st.stage = "hash" => u.st.held = Response(u.st.nonce, w)
         /\ \A m \in Frames : (m.kind = "challenge" /\ Has(v.in, m))
                                => m.c = u.st.nonce
         /\ (v.st.stage = "hash" /\ v.st.held.kind = "challenge")
              => v.st.held.c = u.st.nonce

(* Both directions; u, with password x, is the initiator if i holds, v,     *)
(* with password y, if not. *)
Link(i, x, y, u, v) ==
  /\ Sound(u, v) /\ Sound(v, u)
  /\ i => Asked(y, u, v)
  /\ ~i => Asked(x, v, u)

LinkInv ==
  \A p \in Peers : \A q \in Others(p) :
    Link(isInitiator(p, q), password[p], password[q], Side(p, q), Side(q, p))

(* A queue with a frame appended. *)
LEMMA HasAppend ==
  ASSUME NEW s \in Seq(Frames), NEW m \in Frames
  PROVE  /\ Append(s, m) \in Seq(Frames)
         /\ \A f : Has(Append(s, m), f) <=> (Has(s, f) \/ f = m)
         /\ (ReadyLeads(s) /\ (m = DataFrame => Has(s, Ready)))
              => ReadyLeads(Append(s, m))
<1>1. /\ Append(s, m) \in Seq(Frames) /\ Len(s) \in Nat
      /\ Len(Append(s, m)) = Len(s) + 1
  OBVIOUS
<1>2. \A i \in 1..Len(s) : Append(s, m)[i] = s[i]
  OBVIOUS
<1>3. Append(s, m)[Len(s) + 1] = m
  OBVIOUS
<1>4. \A f : Has(Append(s, m), f) <=> (Has(s, f) \/ f = m)
  BY <1>1, <1>2, <1>3 DEF Has
<1>5. ASSUME ReadyLeads(s), m = DataFrame => Has(s, Ready)
      PROVE  ReadyLeads(Append(s, m))
  <2> SUFFICES ASSUME NEW i \in 1..Len(Append(s, m)), Append(s, m)[i] = DataFrame
               PROVE  \E j \in 1..Len(Append(s, m)) :
                        j < i /\ Append(s, m)[j] = Ready
    BY DEF ReadyLeads
  <2>1. PICK j \in 1..Len(s) : j < i /\ s[j] = Ready
    <3>1. CASE i = Len(s) + 1
      BY <3>1, <1>1, <1>3, <1>5 DEF Has
    <3>2. CASE i # Len(s) + 1
      <4>1. i \in 1..Len(s)
        BY <3>2, <1>1
      <4> QED
        BY <4>1, <1>2, <1>5 DEF ReadyLeads
    <3> QED
      BY <3>1, <3>2
  <2> QED
    BY <2>1, <1>1, <1>2
<1> QED
  BY <1>1, <1>4, <1>5

(* A queue without its first frame. *)
LEMMA HasTail ==
  ASSUME NEW s \in Seq(Frames), s # <<>>
  PROVE  /\ Tail(s) \in Seq(Frames) /\ Head(s) \in Frames /\ Has(s, Head(s))
         /\ \A f : Has(Tail(s), f) => Has(s, f)
         /\ \A f : Has(s, f) => (f = Head(s) \/ Has(Tail(s), f))
         /\ (ReadyLeads(s) /\ Head(s) # Ready) => ReadyLeads(Tail(s))
         /\ ReadyLeads(s) => Head(s) # DataFrame
<1>1. /\ Tail(s) \in Seq(Frames) /\ Head(s) \in Frames /\ Head(s) = s[1]
      /\ Len(s) \in Nat \ {0} /\ Len(Tail(s)) = Len(s) - 1
  OBVIOUS
<1>2. \A i \in 1..Len(Tail(s)) : Tail(s)[i] = s[i + 1]
  OBVIOUS
<1>3. \A f : Has(Tail(s), f) => Has(s, f)
  BY <1>1, <1>2 DEF Has
<1>4. ASSUME NEW f, Has(s, f), f # Head(s)
      PROVE  Has(Tail(s), f)
  <2>1. PICK i \in 1..Len(s) : s[i] = f
    BY <1>4 DEF Has
  <2>2. i - 1 \in 1..Len(Tail(s)) /\ Tail(s)[i - 1] = f
    BY <2>1, <1>1, <1>2, <1>4
  <2> QED
    BY <2>2 DEF Has
<1>5. ASSUME ReadyLeads(s), Head(s) # Ready
      PROVE  ReadyLeads(Tail(s))
  <2> SUFFICES ASSUME NEW i \in 1..Len(Tail(s)), Tail(s)[i] = DataFrame
               PROVE  \E j \in 1..Len(Tail(s)) : j < i /\ Tail(s)[j] = Ready
    BY DEF ReadyLeads
  <2>1. i + 1 \in 1..Len(s) /\ s[i + 1] = DataFrame
    BY <1>1, <1>2
  <2>2. PICK j \in 1..Len(s) : j < i + 1 /\ s[j] = Ready
    BY <2>1, <1>5 DEF ReadyLeads
  <2>3. j # 1
    BY <2>2, <1>1, <1>5
  <2>4. j - 1 \in 1..Len(Tail(s)) /\ j - 1 < i /\ Tail(s)[j - 1] = Ready
    BY <2>2, <2>3, <1>1, <1>2
  <2> QED
    BY <2>4
<1>6. ASSUME ReadyLeads(s), Head(s) = DataFrame PROVE FALSE
  BY <1>1, <1>6 DEF ReadyLeads
<1>7. Has(s, Head(s))
  BY <1>1 DEF Has
<1> QED
  BY <1>1, <1>3, <1>4, <1>5, <1>6, <1>7

(* Nothing is in an empty queue. *)
LEMMA HasNothing == (\A f : ~Has(<<>>, f)) /\ ReadyLeads(<<>>)
  BY DEF Has, ReadyLeads

(* Pended frames and those in the channel are one queue: sending appends to *)
(* it, pending a frame keeps it, and handling one takes its head. *)
LEMMA OneQueue ==
  ASSUME NEW b \in Seq(Frames), NEW w \in Seq(Frames)
  PROVE  /\ b \o w \in Seq(Frames)
         /\ \A m \in Frames : b \o Append(w, m) = Append(b \o w, m)
         /\ w # <<>> => Append(b, Head(w)) \o Tail(w) = b \o w
         /\ b # <<>> => /\ Tail(b) \o w = Tail(b \o w)
                        /\ b \o w # <<>> /\ Head(b \o w) = Head(b)
         /\ <<>> \o w = w
         /\ \A f : Has(w, f) => Has(b \o w, f)
<1>0. /\ Len(b) \in Nat /\ Len(w) \in Nat /\ b \o w \in Seq(Frames)
      /\ Len(b \o w) = Len(b) + Len(w)
  BY ConcatProperties
<1>i. \A i \in 1 .. Len(b) + Len(w) :
         (b \o w)[i] = IF i <= Len(b) THEN b[i] ELSE w[i - Len(b)]
  BY ConcatProperties
<1>1. ASSUME NEW m \in Frames
      PROVE  b \o Append(w, m) = Append(b \o w, m)
  <2>1. <<m>> \in Seq(Frames)
    OBVIOUS
  <2>2. Append(w, m) = w \o <<m>> /\ Append(b \o w, m) = (b \o w) \o <<m>>
    BY <1>0, AppendIsConcat
  <2> QED
    BY <2>1, <2>2, ConcatAssociative
<1>2. ASSUME w # <<>>
      PROVE  Append(b, Head(w)) \o Tail(w) = b \o w
  <2>1. Head(w) \in Frames /\ Tail(w) \in Seq(Frames) /\ <<Head(w)>> \in Seq(Frames)
    BY <1>2
  <2>2. Append(b, Head(w)) = b \o <<Head(w)>>
    BY <2>1, AppendIsConcat
  <2>3. w = <<Head(w)>> \o Tail(w)
    BY <1>2
  <2> QED
    BY <2>1, <2>2, <2>3, ConcatAssociative
<1>3. ASSUME b # <<>>
      PROVE  /\ Tail(b) \o w = Tail(b \o w)
             /\ b \o w # <<>> /\ Head(b \o w) = Head(b)
  <2>1. Len(b) \in Nat \ {0} /\ Head(b) = b[1]
    BY <1>3
  <2>2. Len(b \o w) # 0 /\ b \o w # <<>>
    BY <2>1, <1>0
  <2>3. (b \o w)[1] = b[1]
    BY <2>1, <1>0, <1>i
  <2>4. Tail(b) \o w = Tail(b \o w)
    <3>1. /\ Tail(b) \in Seq(Frames) /\ Len(Tail(b)) = Len(b) - 1
          /\ \A i \in 1..Len(Tail(b)) : Tail(b)[i] = b[i + 1]
      BY <1>3, HeadTailProperties
    <3>2. /\ Tail(b \o w) \in Seq(Frames)
          /\ Len(Tail(b \o w)) = Len(b) + Len(w) - 1
          /\ \A i \in 1..Len(Tail(b \o w)) : Tail(b \o w)[i] = (b \o w)[i + 1]
      BY <2>2, <1>0, HeadTailProperties
    <3>3. /\ Tail(b) \o w \in Seq(Frames)
          /\ Len(Tail(b) \o w) = Len(b) - 1 + Len(w)
          /\ \A i \in 1..(Len(b) - 1 + Len(w)) : (Tail(b) \o w)[i] =
               IF i <= Len(b) - 1 THEN Tail(b)[i] ELSE w[i - (Len(b) - 1)]
      BY <3>1, ConcatProperties
    <3>4. ASSUME NEW i \in 1..(Len(b) - 1 + Len(w))
          PROVE  (Tail(b) \o w)[i] = Tail(b \o w)[i]
      <4>1. (b \o w)[i + 1] = IF i + 1 <= Len(b) THEN b[i + 1] ELSE w[i + 1 - Len(b)]
        BY <1>0, <1>i, <2>1
      <4>2. Tail(b \o w)[i] = (b \o w)[i + 1]
        BY <3>2, <1>0, <2>1
      <4>3. CASE i <= Len(b) - 1
        BY <4>1, <4>2, <4>3, <3>1, <3>3, <1>0, <2>1
      <4>4. CASE ~(i <= Len(b) - 1)
        <5>1. i - (Len(b) - 1) = i + 1 - Len(b) /\ ~(i + 1 <= Len(b))
          BY <4>4, <1>0
        <5> QED
          BY <4>1, <4>2, <4>4, <5>1, <3>3
      <4> QED
        BY <4>3, <4>4
    <3> QED
      BY <1>0, <2>1, <3>2, <3>3, <3>4, SeqEqual
  <2> QED
    BY <1>0, <2>1, <2>2, <2>3, <2>4
<1>4. ASSUME NEW f, Has(w, f)
      PROVE  Has(b \o w, f)
  <2>1. PICK i \in 1..Len(w) : w[i] = f
    BY <1>4 DEF Has
  <2>2. (i + Len(b)) \in 1..Len(b \o w) /\ (b \o w)[i + Len(b)] = f
    BY <2>1, <1>0, <1>i
  <2> QED
    BY <2>2 DEF Has
<1>5. <<>> \o w = w
  BY ConcatEmptySeq
<1> QED
  BY <1>0, <1>1, <1>2, <1>3, <1>4, <1>5
-----------------------------------------------------------------------------
(* The moves of a side u of a link, its other side being v.                 *)

(* The two sides of a link may be named in either order. *)
LEMMA LinkSym ==
  ASSUME NEW i \in BOOLEAN, NEW x, NEW y, NEW u, NEW v
  PROVE  Link(i, x, y, u, v) <=> Link(~i, y, x, v, u)
  BY DEF Link

(* The fields of a detached peer. *)
LEMMA UnboundFields ==
  /\ Unbound \in PeerStates /\ Unbound.bound = FALSE /\ Unbound.pass = FALSE
  /\ Unbound.ready = FALSE /\ Unbound.active = FALSE /\ Unbound.stage = "off"
  BY UnboundType DEF Unbound

(* A signalled transport (shared-peer.ts register) starts with nothing sent. *)
LEMMA MoveConnect ==
  ASSUME NEW i \in BOOLEAN, NEW x, NEW y, NEW u \in Sides, NEW v \in Sides,
         Link(i, x, y, u, v), ~u.up, ~v.up,
         NEW u1, u1.up, u1.at = 0, u1.st = u.st, u1.in = u.in,
         NEW v1, v1.up, v1.at = 0, v1.st = v.st, v1.in = v.in
  PROVE  Link(i, x, y, u1, v1)
<1>1. /\ u.st = Unbound /\ u.in = <<>> /\ v.st = Unbound /\ v.in = <<>>
  BY DEF Link, Sound
<1>2. /\ u1.st = Unbound /\ u1.in = <<>> /\ v1.st = Unbound /\ v1.in = <<>>
  BY <1>1
<1>3. Sound(u1, v1) /\ Sound(v1, u1)
  BY <1>2, UnboundFields, HasNothing DEF Sound
<1>4. Asked(y, u1, v1) /\ Asked(x, v1, u1)
  BY <1>2, UnboundFields, HasNothing DEF Asked
<1> QED
  BY <1>3, <1>4 DEF Link

(* A side that is detached (exitPeer, or leave), and may lose its transport *)
(* or what it was told, never gets a first binding again. *)
LEMMA MoveExit ==
  ASSUME NEW i \in BOOLEAN, NEW x, NEW y, NEW u \in Sides, NEW v \in Sides,
         Link(i, x, y, u, v),
         NEW u1, u1.st = Unbound, u1.at = u.at,
         u.st.bound \/ ~u1.up, u1.up => u.up, ~u1.up => u1.in = <<>>,
         u.in = <<>> => u1.in = <<>>, \A f : Has(u1.in, f) => Has(u.in, f)
  PROVE  Link(i, x, y, u1, v)
<1>1. u.at \in 0..2 /\ v.at \in 0..2
  BY DEF Sides
<1>2. Sound(u, v) /\ Sound(v, u)
  BY DEF Link
<1>3. ~Kept(u1)
  BY <1>1, <1>2, UnboundFields DEF Kept, Sound
<1>4. Sound(u1, v)
  BY <1>1, <1>2, <1>3, UnboundFields DEF Sound
<1>5. Sound(v, u1)
  BY <1>1, <1>2, UnboundFields DEF Sound
<1>6. Asked(y, u, v) => Asked(y, u1, v)
  BY <1>1, UnboundFields DEF Asked
<1>7. Asked(x, v, u) => Asked(x, v, u1)
  BY <1>1, UnboundFields DEF Asked
<1> QED
  BY <1>4, <1>5, <1>6, <1>7 DEF Link

(* Without a binding, what a side still has to answer does not matter. *)
LEMMA MoveLate ==
  ASSUME NEW i \in BOOLEAN, NEW x, NEW y, NEW u \in Sides, NEW v \in Sides,
         Link(i, x, y, u, v), ~u.st.bound \/ u.at = 2,
         NEW u1, u1.up = u.up, u1.st = u.st, u1.at = u.at, u1.in = u.in
  PROVE  Link(i, x, y, u1, v)
<1>2. Sound(u, v) /\ Sound(v, u)
  BY DEF Link
<1>3. Sound(u1, v)
  BY <1>2 DEF Sound, Kept
<1>4. Sound(v, u1)
  BY <1>2, UnboundFields DEF Sound
<1>5. (Asked(y, u, v) => Asked(y, u1, v)) /\ (Asked(x, v, u) => Asked(x, v, u1))
  BY DEF Asked
<1> QED
  BY <1>3, <1>4, <1>5 DEF Link

(* Side u, bound, sends m, which has to be true of u. *)
LEMMA MoveSend ==
  ASSUME NEW i \in BOOLEAN, NEW x \in Passwords, NEW y \in Passwords,
         NEW u \in Sides, NEW v \in Sides,
         Link(i, x, y, u, v), u.st.bound, NEW m \in Frames,
         m # Ready,
         m = DataFrame => u.st.active,
         m.kind \in Handshaking /\ u.at <= 1 /\ v.at <= 1 =>
           IF i THEN m.kind = "challenge" /\ m.c = u.st.nonce
           ELSE /\ v.at # 0
                /\ v.st.stage \in {"await", "hash"}
                     => m = Response(v.st.nonce, x),
         NEW v1, v1.up = v.up, v1.st = v.st, v1.at = v.at, v1.late = v.late,
         v1.in = IF v.up THEN Append(v.in, m) ELSE v.in
  PROVE  Link(i, x, y, u, v1)
<1>c. CASE ~v.up
  <2>1. Link(i, x, y, u, v) => Link(i, x, y, u, v1)
    BY <1>c DEF Link, Sound, Asked, Kept
  <2> QED
    BY <2>1
<1>d. CASE v.up
  <2>1. /\ v1.st = v.st /\ v1.in = Append(v.in, m) /\ v1.at = v.at
        /\ v1.up = v.up /\ v1.late = v.late
        /\ u.at \in 0..2 /\ v.at \in 0..2 /\ v.in \in Seq(Frames)
    BY <1>d DEF Sides
  <2>2. Sound(u, v) /\ Sound(v, u)
    BY DEF Link
  <2>3. /\ \A f : Has(v1.in, f) <=> (Has(v.in, f) \/ f = m)
        /\ (ReadyLeads(v.in) /\ (m = DataFrame => Has(v.in, Ready)))
              => ReadyLeads(v1.in)
    BY <2>1, HasAppend
  <2>k. Ready.kind = "ready" /\ DataFrame.kind = "data" /\ Ready # DataFrame
    BY DEF Ready, DataFrame
  <2>4. Sound(u, v1)
    BY <2>1, <2>2 DEF Sound, Kept
  <2>5. Sound(v1, u)
    <3>1. u.at # 0
      BY <2>2 DEF Sound
    <3>2. (u.at = 1 /\ u.st.bound /\ (v1.st.ready \/ Has(v1.in, Ready))) => u.st.pass
      BY <2>1, <2>2, <2>3, <3>1 DEF Sound
    <3>3. ASSUME Kept(v1), u.at <= 1
          PROVE  /\ v1.st.ready \/ ReadyLeads(v1.in)
                 /\ (u.st.bound /\ u.st.pass) => (v1.st.ready \/ Has(v1.in, Ready))
                 /\ Has(v1.in, DataFrame) => v1.st.bound /\ v1.st.pass
      <4>1. Kept(v)
        BY <3>3, <2>1 DEF Kept
      <4>2. /\ v.st.ready \/ ReadyLeads(v.in)
            /\ (u.st.bound /\ u.st.pass) => (v.st.ready \/ Has(v.in, Ready))
            /\ Has(v.in, DataFrame) => v.st.bound /\ v.st.pass
        BY <4>1, <3>3, <2>2 DEF Sound
      <4>3. m = DataFrame => v.st.ready \/ Has(v.in, Ready)
        BY <4>2, <2>2 DEF Sound
      <4>4. m = DataFrame => v.st.bound /\ v.st.pass
        <5> SUFFICES ASSUME m = DataFrame PROVE v.st.bound /\ v.st.pass
          OBVIOUS
        <5>1. u.st.active /\ u.st.ready
          BY <2>2 DEF Sound
        <5>2. v.at # 0
          BY <5>1, <2>2 DEF Sound
        <5>3. v.at = 1 /\ v.st.bound
          BY <5>2, <4>1 DEF Kept
        <5> QED
          BY <5>1, <5>3, <2>2 DEF Sound
      <4> QED
        BY <4>2, <4>3, <4>4, <2>1, <2>3
    <3> QED
      BY <1>d, <2>1, <2>2, <3>1, <3>2, <3>3 DEF Sound
  <2>6. ASSUME i, Asked(y, u, v) PROVE Asked(y, u, v1)
    <3>1. m.kind = "challenge" /\ u.at <= 1 /\ v.at <= 1 => m.c = u.st.nonce
      BY <2>6 DEF Handshaking
    <3> QED
      BY <2>6, <3>1, <2>1, <2>3 DEF Asked
  <2>7. ASSUME ~i, Asked(x, v, u) PROVE Asked(x, v1, u)
    <3> SUFFICES ASSUME v.at <= 1, u.at <= 1
                 PROVE  /\ v1.at = 0 => \A f \in Frames : f.kind \in Handshaking
                                                          => ~Has(v1.in, f)
                        /\ v1.st.stage \in {"await", "hash"} =>
                             /\ \A f \in Frames :
                                  (f.kind \in Handshaking /\ Has(v1.in, f))
                                    => f = Response(v1.st.nonce, x)
                             /\ v1.st.stage = "hash"
                                  => v1.st.held = Response(v1.st.nonce, x)
                             /\ \A f \in Frames :
                                  (f.kind = "challenge" /\ Has(u.in, f))
                                    => f.c = v1.st.nonce
                             /\ (u.st.stage = "hash" /\ u.st.held.kind = "challenge")
                                  => u.st.held.c = v1.st.nonce
      BY <2>1 DEF Asked
    <3>1. m.kind \in Handshaking => /\ v.at # 0
                                    /\ v.st.stage \in {"await", "hash"}
                                         => m = Response(v.st.nonce, x)
      BY <2>7
    <3> QED
      BY <2>7, <3>1, <2>1, <2>3 DEF Asked
  <2>8. Link(i, x, y, u, v1)
    BY <2>4, <2>5, <2>6, <2>7 DEF Link
  <2> QED
    BY <2>8
<1> QED
  BY <1>c, <1>d

(* Side u passes its handshake and says so (markLocalHandshakePassed). *)
LEMMA MovePass ==
  ASSUME NEW i \in BOOLEAN, NEW x \in Passwords, NEW y \in Passwords,
         NEW u \in Sides, NEW v \in Sides,
         Link(i, x, y, u, v), u.st.stage = "decide",
         NEW u1, u1.up = u.up, u1.at = u.at, u1.late = u.late, u1.in = u.in,
         u1.st = maybeActivatePeer([u.st EXCEPT !.pass = TRUE, !.stage = "done"]),
         NEW v1, v1.up = v.up, v1.st = v.st, v1.at = v.at, v1.late = v.late,
         v1.in = IF v.up THEN Append(v.in, Ready) ELSE v.in
  PROVE  Link(i, x, y, u1, v1)
<1> DEFINE g == u1.st
<1>1. u.st \in PeerStates /\ u.at \in 0..2 /\ v.at \in 0..2 /\ v.in \in Seq(Frames)
  BY DEF Sides
<1>2. /\ g.bound = u.st.bound /\ g.pass = TRUE /\ g.ready = u.st.ready
      /\ g.active = u.st.ready /\ g.stage = "done"
  BY <1>1 DEF PeerStates, maybeActivatePeer
<1>3. /\ u1.st = g /\ u1.in = u.in /\ u1.at = u.at /\ u1.up = u.up
      /\ u1.late = u.late
  OBVIOUS
<1>4. /\ v1.st = v.st /\ v1.at = v.at /\ v1.up = v.up /\ v1.late = v.late
      /\ v.up => v1.in = Append(v.in, Ready)
      /\ ~v.up => v1.in = v.in
  OBVIOUS
<1>5. Sound(u, v) /\ Sound(v, u)
  BY DEF Link
<1>6. v.up => /\ \A f : Has(v1.in, f) <=> (Has(v.in, f) \/ f = Ready)
              /\ ReadyLeads(v.in) => ReadyLeads(v1.in)
  BY <1>1, <1>4, HasAppend, FrameTypes, KindTypes
<1>k. Ready.kind = "ready" /\ DataFrame # Ready
  BY DEF Ready, DataFrame
<1>b. u.st.bound /\ u.at # 0
  BY <1>5, UnboundFields DEF Sound
<1> HIDE DEF g
<1>7. Sound(u1, v1)
  BY <1>2, <1>3, <1>4, <1>5, <1>b, UnboundFields DEF Sound, Kept
<1>8. Sound(v1, u1)
  <2>1. (Kept(v1) /\ u1.at <= 1) =>
          /\ v1.st.ready \/ ReadyLeads(v1.in)
          /\ (u1.st.bound /\ u1.st.pass) => (v1.st.ready \/ Has(v1.in, Ready))
          /\ Has(v1.in, DataFrame) => v1.st.bound /\ v1.st.pass
    BY <1>2, <1>3, <1>4, <1>5, <1>6, <1>k DEF Sound, Kept
  <2> QED
    BY <2>1, <1>2, <1>3, <1>4, <1>5, <1>b DEF Sound
<1>9. Asked(y, u, v) => Asked(y, u1, v1)
  <2>1. v.up \/ v1.in = v.in
    BY <1>4
  <2> QED
    BY <2>1, <1>2, <1>3, <1>4, <1>b DEF Asked
<1>10. Asked(x, v, u) => Asked(x, v1, u1)
  <2>1. \A f : f.kind \in Handshaking /\ Has(v1.in, f) => Has(v.in, f)
    BY <1>4, <1>6, <1>k DEF Handshaking
  <2> QED
    BY <2>1, <1>2, <1>3, <1>4 DEF Asked
<1> QED
  BY <1>7, <1>8, <1>9, <1>10 DEF Link

(* Side u handles its next frame: a readiness is noted, a frame of the      *)
(* handshake may be held for the run, a message changes nothing. *)
LEMMA MoveHandle ==
  ASSUME NEW i \in BOOLEAN, NEW x \in Passwords, NEW y \in Passwords,
         NEW u \in Sides, NEW v \in Sides,
         Link(i, x, y, u, v), u.st.bound, u.in # <<>>,
         NEW g \in PeerStates,
         \/ g = u.st /\ Head(u.in) # Ready
         \/ /\ Head(u.in) = Ready
            /\ g = maybeActivatePeer([u.st EXCEPT !.ready = TRUE])
         \/ /\ Head(u.in).kind \in Handshaking /\ u.st.stage = "await"
            /\ g = [u.st EXCEPT !.stage = "hash", !.held = Head(u.in)],
         NEW u1, u1.up = u.up, u1.st = g, u1.at = u.at, u1.in = Tail(u.in),
         u1.late = u.late
  PROVE  Link(i, x, y, u1, v)
<1>1. /\ u.st \in PeerStates /\ u.at \in 0..2 /\ v.at \in 0..2
      /\ u.in \in Seq(Frames)
  BY DEF Sides
<1>2. /\ u1.st = g /\ u1.in = Tail(u.in) /\ u1.at = u.at /\ u1.up = u.up
      /\ u1.late = u.late
  OBVIOUS
<1>3. /\ g.bound = u.st.bound /\ g.pass = u.st.pass /\ g.nonce = u.st.nonce
      /\ g.active <=> (g.pass /\ g.ready)
      /\ u.st.ready => g.ready
      /\ g.ready => u.st.ready \/ Head(u.in) = Ready
      /\ Head(u.in) = Ready => g.ready
      /\ g.stage = "hash" => \/ g.stage = u.st.stage /\ g.held = u.st.held
                             \/ /\ u.st.stage = "await" /\ g.held = Head(u.in)
                                /\ Head(u.in).kind \in Handshaking
      /\ g.stage # "hash" => g.stage = u.st.stage
  <2>1. u.st.active <=> (u.st.pass /\ u.st.ready)
    BY DEF Link, Sound
  <2>2. CASE g = u.st /\ Head(u.in) # Ready
    BY <2>1, <2>2
  <2>3. CASE /\ Head(u.in) = Ready
             /\ g = maybeActivatePeer([u.st EXCEPT !.ready = TRUE])
    BY <1>1, <2>3 DEF PeerStates, maybeActivatePeer
  <2>4. CASE /\ Head(u.in).kind \in Handshaking /\ u.st.stage = "await"
             /\ g = [u.st EXCEPT !.stage = "hash", !.held = Head(u.in)]
    <3>1. /\ g.bound = u.st.bound /\ g.pass = u.st.pass /\ g.nonce = u.st.nonce
          /\ g.ready = u.st.ready /\ g.active = u.st.active
          /\ g.stage = "hash" /\ g.held = Head(u.in)
      BY <1>1, <2>4 DEF PeerStates
    <3>2. Head(u.in) # Ready
      BY <2>4, KindTypes DEF Handshaking
    <3> QED
      BY <2>1, <2>4, <3>1, <3>2
  <2> QED
    BY <2>2, <2>3, <2>4
<1>5. Sound(u, v) /\ Sound(v, u)
  BY DEF Link
<1>6. /\ Head(u.in) \in Frames /\ Has(u.in, Head(u.in))
      /\ \A f : Has(Tail(u.in), f) => Has(u.in, f)
      /\ \A f : Has(u.in, f) => (f = Head(u.in) \/ Has(Tail(u.in), f))
      /\ (ReadyLeads(u.in) /\ Head(u.in) # Ready) => ReadyLeads(Tail(u.in))
  BY <1>1, HasTail
<1>7. v.at # 0 /\ u.at # 0 /\ u.up
  BY <1>5 DEF Sound
<1>8. Sound(u1, v)
  <2>1. (Kept(u1) /\ v.at <= 1) =>
          /\ u1.st.ready \/ ReadyLeads(u1.in)
          /\ (v.st.bound /\ v.st.pass) => (u1.st.ready \/ Has(u1.in, Ready))
          /\ Has(u1.in, DataFrame) => u1.st.bound /\ u1.st.pass
    BY <1>2, <1>3, <1>5, <1>6 DEF Sound, Kept
  <2>2. (v.at = 1 /\ v.st.bound /\ (u1.st.ready \/ Has(u1.in, Ready))) => v.st.pass
    BY <1>2, <1>3, <1>5, <1>6 DEF Sound
  <2> QED
    BY <2>1, <2>2, <1>2, <1>3, <1>5, <1>7 DEF Sound
<1>9. Sound(v, u1)
  BY <1>2, <1>3, <1>5, <1>7 DEF Sound, Kept
<1>10. Asked(y, u, v) => Asked(y, u1, v)
  BY <1>2, <1>3, <1>6, <1>7 DEF Asked
<1>11. Asked(x, v, u) => Asked(x, v, u1)
  BY <1>2, <1>3, <1>6, <1>7 DEF Asked
<1> QED
  BY <1>8, <1>9, <1>10, <1>11 DEF Link

(* Side u goes on with its run (verifyResponse, answerChallenge). *)
LEMMA MoveDecide ==
  ASSUME NEW i \in BOOLEAN, NEW x \in Passwords, NEW y \in Passwords,
         NEW u \in Sides, NEW v \in Sides,
         Link(i, x, y, u, v), u.st.stage = "hash",
         NEW n \in Nonces \union {NoNonce},
         NEW u1, u1.up = u.up, u1.at = u.at, u1.late = u.late, u1.in = u.in,
         u1.st = [u.st EXCEPT !.stage = "decide", !.held = Ready, !.nonce = n]
  PROVE  Link(i, x, y, u1, v)
<1> DEFINE g == u1.st
<1>1. u.st \in PeerStates
  BY DEF Sides
<1>2. /\ g.bound = u.st.bound /\ g.pass = u.st.pass /\ g.ready = u.st.ready
      /\ g.active = u.st.active /\ g.stage = "decide"
  BY <1>1 DEF PeerStates
<1>3. /\ u1.st = g /\ u1.in = u.in /\ u1.at = u.at /\ u1.up = u.up
      /\ u1.late = u.late
  OBVIOUS
<1>5. Sound(u, v) /\ Sound(v, u)
  BY DEF Link
<1> HIDE DEF g
<1>b. u.st.bound
  BY <1>5, UnboundFields DEF Sound
<1>7. Sound(u1, v) /\ Sound(v, u1)
  BY <1>2, <1>3, <1>5, <1>b DEF Sound, Kept
<1>8. (Asked(y, u, v) => Asked(y, u1, v)) /\ (Asked(x, v, u) => Asked(x, v, u1))
  BY <1>2, <1>3 DEF Asked
<1> QED
  BY <1>7, <1>8 DEF Link

(* Side u binds itself to the transport, and the initiator challenges. *)
LEMMA MoveAttach ==
  ASSUME NEW i \in BOOLEAN, NEW x \in Passwords, NEW y \in Passwords,
         NEW u \in Sides, NEW v \in Sides,
         Link(i, x, y, u, v), u.up, ~u.st.bound,
         NEW u1, u1.up = u.up, u1.late = u.late, u1.in = u.in,
         u1.st.bound = TRUE, u1.st.pass = FALSE, u1.st.ready = FALSE,
         u1.st.active = FALSE, u1.st.stage \in {"decide", "await"},
         u1.st.nonce \in Nonces \union {NoNonce},
         u1.at = 2 \/ (u1.at = 1 /\ u.at = 0 /\ u.late = {}),
         NEW v1, v1.up = v.up, v1.st = v.st, v1.at = v.at, v1.late = v.late,
         v1.in \in Seq(Frames),
         \/ v1.in = v.in /\ (i => u1.st.stage = "decide")
         \/ /\ v.up /\ i /\ u1.st.nonce \in Nonces
            /\ v1.in = Append(v.in, Challenge(u1.st.nonce))
         \/ ~v.up /\ i /\ v1.in = v.in
  PROVE  Link(i, x, y, u1, v1)
<1> DEFINE g == u1.st
           k == u1.at
           s == v1.in
           t == u1.st.stage
           n == u1.st.nonce
<1>1. /\ g.bound = TRUE /\ g.pass = FALSE /\ g.ready = FALSE
      /\ g.active = FALSE /\ g.stage = t /\ g.nonce = n
  OBVIOUS
<1>2. /\ u1.st = g /\ u1.in = u.in /\ u1.at = k /\ u1.up = u.up
      /\ u1.late = u.late /\ u.at \in 0..2 /\ v.at \in 0..2
  BY DEF Sides
<1>3. /\ v1.st = v.st /\ v1.at = v.at /\ v1.up = v.up /\ v1.late = v.late
      /\ v1.in = s /\ v.in \in Seq(Frames)
  BY DEF Sides
<1>4. k \in {1, 2} /\ (k = 1 => u.at = 0 /\ u.late = {})
  OBVIOUS
<1>5. Sound(u, v) /\ Sound(v, u) /\ u.st = Unbound
  BY DEF Link, Sound
<1>6. n \in Nonces => Challenge(n) \in Frames /\ Challenge(n).kind = "challenge"
                      /\ Challenge(n).c = n
  BY FrameTypes DEF Challenge
<1>s. s # v.in => /\ v.up /\ i /\ n \in Nonces /\ Challenge(n) \in Frames
                  /\ s = Append(v.in, Challenge(n))
  BY <1>6
<1>a. ASSUME NEW m \in Frames
      PROVE  /\ \A f : Has(Append(v.in, m), f) <=> (Has(v.in, f) \/ f = m)
             /\ (ReadyLeads(v.in) /\ m # DataFrame) => ReadyLeads(Append(v.in, m))
  BY <1>3, HasAppend
<1>7. \A f : Has(s, f) => \/ Has(v.in, f)
                          \/ i /\ v.up /\ n \in Nonces /\ f = Challenge(n)
  <2>1. CASE s = v.in
    BY <2>1
  <2>2. CASE s # v.in
    <3>1. \A f : Has(Append(v.in, Challenge(n)), f)
                   <=> (Has(v.in, f) \/ f = Challenge(n))
      BY <2>2, <1>s, <1>a
    <3> QED
      BY <2>2, <3>1, <1>s
  <2> QED
    BY <2>1, <2>2
<1>8. ReadyLeads(v.in) => ReadyLeads(s)
  <2>1. CASE s = v.in
    BY <2>1
  <2>2. CASE s # v.in
    <3>1. Challenge(n) # DataFrame
      BY <2>2, <1>s, <1>6, KindTypes
    <3> QED
      BY <2>2, <3>1, <1>s, <1>a
  <2> QED
    BY <2>1, <2>2
<1>9. \A f : Has(v.in, f) => Has(s, f)
  <2>1. CASE s = v.in
    BY <2>1
  <2>2. CASE s # v.in
    BY <2>2, <1>s, <1>a
  <2> QED
    BY <2>1, <2>2
<1>10. s # v.in => v.up
  OBVIOUS
<1>k. /\ Ready.kind = "ready" /\ DataFrame.kind = "data"
  BY DEF Ready, DataFrame
<1> HIDE DEF g, k, s, t, n
<1>11. Sound(u1, v1)
  <2>1. (Kept(u1) /\ v1.at <= 1) =>
          /\ u1.st.ready \/ ReadyLeads(u1.in)
          /\ (v1.st.bound /\ v1.st.pass) => (u1.st.ready \/ Has(u1.in, Ready))
          /\ Has(u1.in, DataFrame) => u1.st.bound /\ u1.st.pass
    <3> SUFFICES ASSUME Kept(u1), v1.at <= 1
                 PROVE  /\ u1.st.ready \/ ReadyLeads(u1.in)
                        /\ (v1.st.bound /\ v1.st.pass)
                              => (u1.st.ready \/ Has(u1.in, Ready))
                        /\ Has(u1.in, DataFrame) => u1.st.bound /\ u1.st.pass
      OBVIOUS
    <3>1. Kept(u) /\ v.at <= 1
      BY <1>2, <1>3, <1>4 DEF Kept
    <3>2. /\ u.st.ready \/ ReadyLeads(u.in)
          /\ (v.st.bound /\ v.st.pass) => (u.st.ready \/ Has(u.in, Ready))
          /\ Has(u.in, DataFrame) => u.st.bound /\ u.st.pass
      BY <3>1, <1>5 DEF Sound
    <3> QED
      BY <3>2, <1>1, <1>2, <1>3, <1>5, UnboundFields
  <2>2. (v1.at = 1 /\ v1.st.bound /\ (u1.st.ready \/ Has(u1.in, Ready)))
          => v1.st.pass
    BY <1>1, <1>2, <1>3, <1>5 DEF Sound
  <2>3. v1.at = 0 => /\ u1.in = <<>> /\ ~v1.st.bound
                     /\ ~u1.st.ready /\ u1.st.stage # "hash"
    BY <1>1, <1>2, <1>3, <1>5 DEF Sound
  <2> QED
    BY <2>1, <2>2, <2>3, <1>1, <1>2, <1>3, <1>5 DEF Sound
<1>12. Sound(v1, u1)
  <2>1. (Kept(v1) /\ u1.at <= 1) =>
          /\ v1.st.ready \/ ReadyLeads(v1.in)
          /\ (u1.st.bound /\ u1.st.pass) => (v1.st.ready \/ Has(v1.in, Ready))
          /\ Has(v1.in, DataFrame) => v1.st.bound /\ v1.st.pass
    <3>1. u1.at <= 1 => v.in = <<>> /\ ~v.st.ready
      BY <1>2, <1>4, <1>5 DEF Sound
    <3>2. u1.at <= 1 => ReadyLeads(v1.in)
      BY <3>1, <1>3, <1>8, HasNothing
    <3>3. u1.at <= 1 => ~Has(v1.in, DataFrame)
      BY <3>1, <1>3, <1>6, <1>7, <1>k, HasNothing
    <3> QED
      BY <3>2, <3>3, <1>1, <1>2
  <2>2. (u1.at = 1 /\ u1.st.bound /\ (v1.st.ready \/ Has(v1.in, Ready)))
          => u1.st.pass
    BY <1>2, <1>3, <1>4, <1>5, <1>6, <1>7, <1>k, HasNothing DEF Sound
  <2>3. u1.at # 0 /\ (u1.at <= 1 => u1.late = {})
    BY <1>2, <1>4
  <2> QED
    BY <2>1, <2>2, <2>3, <1>1, <1>2, <1>3, <1>5, <1>10 DEF Sound
<1>13. ASSUME i, Asked(y, u, v) PROVE Asked(y, u1, v1)
  <2> SUFFICES ASSUME u1.at <= 1, v.at <= 1
               PROVE  Asked(y, u1, v1)
    BY <1>3 DEF Asked
  <2>1. u.at = 0 /\ u1.at # 0
    BY <1>2, <1>4
  <2>2. v.in = <<>> /\ v.st.stage # "hash"
    BY <2>1, <1>5 DEF Sound
  <2>3. \A m \in Frames : m.kind \in Handshaking => ~Has(u.in, m)
    BY <2>1, <1>13 DEF Asked
  <2>4. \A f : Has(s, f) => f = Challenge(n) /\ n \in Nonces
    BY <2>2, <1>7, HasNothing
  <2> QED
    BY <2>1, <2>2, <2>3, <2>4, <1>1, <1>2, <1>3, <1>6 DEF Asked
<1>14. ASSUME ~i, Asked(x, v, u) PROVE Asked(x, v1, u1)
  <2>1. s = v.in
    BY <1>14 DEF s
  <2>2. u1.at <= 1 => u.at <= 1
    BY <1>2, <1>4
  <2> QED
    BY <2>1, <2>2, <1>1, <1>2, <1>3, <1>14 DEF Asked
<1> QED
  BY <1>11, <1>12, <1>13, <1>14 DEF Link
-----------------------------------------------------------------------------
(* A side of a link is well typed, and shows what the actions read.         *)
LEMMA SideType ==
  ASSUME TypeOK, NEW p \in Peers, NEW q \in Peers
  PROVE  /\ Side(p, q) \in Sides
         /\ Side(p, q).up = shared[p][q] /\ Side(p, q).st = hs[p][q]
         /\ Side(p, q).at = attaches[p][q] /\ Side(p, q).late = late[p][q]
         /\ Side(p, q).in = pend[p][q] \o wire[q][p]
         /\ wire[q][p] \in Seq(Frames) /\ pend[p][q] \in Seq(Frames)
<1>1. pend[p][q] \in Seq(Frames) /\ wire[q][p] \in Seq(Frames)
  BY DEF TypeOK
<1>2. (pend[p][q] \o wire[q][p]) \in Seq(Frames)
  BY <1>1, OneQueue
<1> QED
  BY <1>1, <1>2 DEF TypeOK, Side, Sides

(* The two ends of a link are told apart. *)
LEMMA Ends ==
  ASSUME NEW p \in Peers, NEW q \in Others(p)
  PROVE  /\ q \in Peers /\ p \in Others(q) /\ p # q
         /\ isInitiator(p, q) \in BOOLEAN
         /\ isInitiator(q, p) <=> ~isInitiator(p, q)
  BY PeersAssumption DEF Others, isInitiator

(* A step that changes one link only, and leaves that one in order, keeps   *)
(* LinkInv. *)
LEMMA OneLink ==
  ASSUME TypeOK, LinkInv, NEW p \in Peers, NEW q \in Others(p),
         UNCHANGED password,
         \A a \in Peers : \A b \in Others(a) :
           <<a, b>> \notin {<<p, q>>, <<q, p>>} => UNCHANGED Side(a, b),
         Link(isInitiator(p, q), password[p], password[q],
              Side(p, q)', Side(q, p)')
  PROVE  LinkInv'
<1> SUFFICES ASSUME NEW a \in Peers, NEW b \in Others(a)
             PROVE  Link(isInitiator(a, b), password[a], password[b],
                         Side(a, b)', Side(b, a)')
  BY DEF LinkInv
<1>1. CASE a = p /\ b = q
  BY <1>1
<1>2. CASE a = q /\ b = p
  BY <1>2, Ends, LinkSym
<1>3. CASE <<a, b>> \notin {<<p, q>>, <<q, p>>}
  <2>1. /\ b \in Peers /\ a \in Others(b)
        /\ <<b, a>> \notin {<<p, q>>, <<q, p>>}
    BY <1>3, Ends
  <2>2. UNCHANGED Side(a, b) /\ UNCHANGED Side(b, a)
    BY <1>3, <2>1
  <2> QED
    BY <2>2 DEF LinkInv
<1> QED
  BY <1>1, <1>2, <1>3

(* Sending from p to q appends to what q has yet to handle. *)
LEMMA SendSides ==
  ASSUME TypeOK, NEW p \in Peers, NEW q \in Others(p), NEW m \in Frames,
         wire' = Send(p, q, m), UNCHANGED pend
  PROVE  /\ pend'[q][p] \o wire'[p][q] =
              IF shared[q][p] THEN Append(pend[q][p] \o wire[p][q], m)
              ELSE pend[q][p] \o wire[p][q]
         /\ \A a \in Peers : \A b \in Peers :
              <<a, b>> # <<q, p>> => wire'[b][a] = wire[b][a]
<1>1. q \in Peers /\ p # q /\ wire \in [Peers -> [Peers -> Seq(Frames)]]
      /\ pend[q][p] \in Seq(Frames) /\ wire[p][q] \in Seq(Frames)
  BY Ends DEF TypeOK
<1>2. wire' = IF shared[q][p]
                THEN [wire EXCEPT ![p][q] = Append(wire[p][q], m)] ELSE wire
  BY DEF Send
<1>3. wire'[p][q] = IF shared[q][p] THEN Append(wire[p][q], m) ELSE wire[p][q]
  BY <1>1, <1>2
<1>4. \A a \in Peers : \A b \in Peers :
         <<a, b>> # <<q, p>> => wire'[b][a] = wire[b][a]
  BY <1>1, <1>2
<1>5. pend[q][p] \o Append(wire[p][q], m) = Append(pend[q][p] \o wire[p][q], m)
  BY <1>1, OneQueue
<1>6. pend'[q][p] = pend[q][p]
  OBVIOUS
<1>7. pend'[q][p] \o wire'[p][q] =
        IF shared[q][p] THEN Append(pend[q][p] \o wire[p][q], m)
        ELSE pend[q][p] \o wire[p][q]
  BY <1>3, <1>5, <1>6
<1> QED
  BY <1>4, <1>7

(* Handling a frame takes the head of what p has yet to handle of q. *)
LEMMA TakeSides ==
  ASSUME TypeOK, NEW p \in Peers, NEW q \in Others(p), TakeFrame(p, q),
         Incoming(p, q) # <<>>
  PROVE  /\ pend[p][q] \o wire[q][p] # <<>>
         /\ Head(pend[p][q] \o wire[q][p]) = Head(Incoming(p, q))
         /\ pend'[p][q] \o wire'[q][p] = Tail(pend[p][q] \o wire[q][p])
         /\ \A a \in Peers : \A b \in Peers :
              <<a, b>> # <<p, q>> => /\ pend'[a][b] = pend[a][b]
                                     /\ wire'[b][a] = wire[b][a]
<1>1. /\ q \in Peers /\ p # q
      /\ wire \in [Peers -> [Peers -> Seq(Frames)]]
      /\ pend \in [Peers -> [Peers -> Seq(Frames)]]
      /\ pend[p][q] \in Seq(Frames) /\ wire[q][p] \in Seq(Frames)
  BY Ends DEF TypeOK
<1>2. CASE pend[p][q] # <<>>
  <2>1. pend' = [pend EXCEPT ![p][q] = Tail(pend[p][q])] /\ wire' = wire
    BY <1>2 DEF TakeFrame
  <2>2. pend'[p][q] = Tail(pend[p][q]) /\ wire'[q][p] = wire[q][p]
    BY <1>1, <2>1
  <2>3. \A a \in Peers : \A b \in Peers :
          <<a, b>> # <<p, q>> => /\ pend'[a][b] = pend[a][b]
                                 /\ wire'[b][a] = wire[b][a]
    BY <1>1, <2>1
  <2>4. /\ Tail(pend[p][q]) \o wire[q][p] = Tail(pend[p][q] \o wire[q][p])
        /\ pend[p][q] \o wire[q][p] # <<>>
        /\ Head(pend[p][q] \o wire[q][p]) = Head(pend[p][q])
    BY <1>1, <1>2, OneQueue
  <2> QED
    BY <1>2, <2>2, <2>3, <2>4 DEF Incoming
<1>3. CASE pend[p][q] = <<>>
  <2>1. wire' = [wire EXCEPT ![q][p] = Tail(wire[q][p])] /\ pend' = pend
    BY <1>3 DEF TakeFrame
  <2>2. /\ wire'[q][p] = Tail(wire[q][p]) /\ pend'[p][q] = <<>>
        /\ wire'[q][p] \in Seq(Frames) /\ wire[q][p] # <<>>
    BY <1>1, <1>3, <2>1 DEF Incoming
  <2>3. \A a \in Peers : \A b \in Peers :
          <<a, b>> # <<p, q>> => /\ pend'[a][b] = pend[a][b]
                                 /\ wire'[b][a] = wire[b][a]
    BY <1>1, <2>1
  <2>4. \A s \in Seq(Frames) : <<>> \o s = s
    BY ConcatEmptySeq
  <2> QED
    BY <1>1, <1>3, <2>2, <2>3, <2>4 DEF Incoming
<1> QED
  BY <1>2, <1>3

(* Every exit of a bound peer that keeps its transport leaves LinkInv. *)
LEMMA ExitSides ==
  ASSUME TypeOK, LinkInv, NEW p \in Peers, NEW q \in Others(p),
         exitPeer(p, q), hs[p][q].bound,
         UNCHANGED <<password, shared, wire, pend, attaches>>
  PROVE  LinkInv'
<1>e. q \in Peers /\ p \in Others(q) /\ p # q /\ isInitiator(p, q) \in BOOLEAN
  BY Ends
<1>t. hs \in [Peers -> [Peers -> PeerStates]]
      /\ late \in [Peers -> [Peers -> SUBSET Nonces]]
  BY DEF TypeOK
<1> DEFINE u == Side(p, q)
           v == Side(q, p)
<1>1. hs' = [hs EXCEPT ![p][q] = Unbound]
      /\ late' = [late EXCEPT ![p][q] = @ \union Orphaned(p, q)]
      /\ shared' = shared /\ attaches' = attaches /\ pend' = pend /\ wire' = wire
  BY DEF exitPeer
<1>2. \A a \in Peers : \A b \in Others(a) :
        <<a, b>> \notin {<<p, q>>, <<q, p>>} => UNCHANGED Side(a, b)
  BY <1>1, <1>t DEF Side, Others
<1>3. v' = v
  BY <1>1, <1>t, <1>e DEF Side
<1>4. /\ u \in Sides /\ v \in Sides /\ u.st.bound /\ u.up \in BOOLEAN
  BY SideType, <1>e DEF Sides
<1>5. u'.up = u.up /\ u'.st = Unbound /\ u'.at = u.at /\ u'.in = u.in
  BY <1>1, <1>t, <1>e DEF Side
<1>6. Link(isInitiator(p, q), password[p], password[q], u, v)
  BY <1>e DEF LinkInv
<1>7. u.up
  BY <1>4, <1>6 DEF Link, Sound
<1> HIDE DEF u, v
<1>9. Link(isInitiator(p, q), password[p], password[q], u', v')
  BY <1>3, <1>4, <1>5, <1>6, <1>7, <1>e, MoveExit
<1> USE DEF u, v
<1> QED
  BY <1>2, <1>9, OneLink
(* Every step of Admission keeps LinkInv.                                   *)
LEMMA StepLinkInv == TypeOK /\ LinkInv /\ [Next]_vars => LinkInv'
<1> SUFFICES ASSUME TypeOK, LinkInv, [Next]_vars
             PROVE  LinkInv'
  OBVIOUS
<1>v. /\ shared \in [Peers -> [Peers -> BOOLEAN]]
      /\ hs \in [Peers -> [Peers -> PeerStates]]
      /\ late \in [Peers -> [Peers -> SUBSET Nonces]]
      /\ wire \in [Peers -> [Peers -> Seq(Frames)]]
      /\ pend \in [Peers -> [Peers -> Seq(Frames)]]
      /\ attaches \in [Peers -> [Peers -> 0..2]]
      /\ password \in [Peers -> Passwords]
  BY DEF TypeOK
<1>s. CASE UNCHANGED vars
  BY <1>s DEF vars, LinkInv, Side
<1>p. ASSUME NEW p \in Peers, NEW q \in Others(p),
             \/ Progress(p, q)
             \/ Connect(p, q) \/ Close(p, q)
             \/ rejectPeer(p, q) \/ timeOut(p, q)
             \/ sendData(p, q)
      PROVE  LinkInv'
  <2> DEFINE u == Side(p, q)
             v == Side(q, p)
             i == isInitiator(p, q)
             x == password[p]
             y == password[q]
  <2>e. /\ q \in Peers /\ p \in Others(q) /\ p # q /\ i \in BOOLEAN
        /\ x \in Passwords /\ y \in Passwords
    BY <1>v, Ends
  <2>l. Link(i, x, y, u, v)
    BY <2>e DEF LinkInv
  <2>u. /\ u \in Sides /\ u.up = shared[p][q] /\ u.st = hs[p][q]
        /\ u.at = attaches[p][q] /\ u.late = late[p][q]
        /\ u.in = pend[p][q] \o wire[q][p]
        /\ wire[q][p] \in Seq(Frames) /\ pend[p][q] \in Seq(Frames)
        /\ u.st \in PeerStates
    BY <2>e, SideType DEF Sides
  <2>w. /\ v \in Sides /\ v.up = shared[q][p] /\ v.st = hs[q][p]
        /\ v.at = attaches[q][p] /\ v.late = late[q][p]
        /\ v.in = pend[q][p] \o wire[p][q]
        /\ v.in \in Seq(Frames) /\ u.in \in Seq(Frames)
    BY <2>e, <2>u, SideType DEF Sides
  <2>f. /\ u'.up = shared'[p][q] /\ u'.st = hs'[p][q]
        /\ u'.at = attaches'[p][q] /\ u'.late = late'[p][q]
        /\ u'.in = pend'[p][q] \o wire'[q][p]
        /\ v'.up = shared'[q][p] /\ v'.st = hs'[q][p]
        /\ v'.at = attaches'[q][p] /\ v'.late = late'[q][p]
        /\ v'.in = pend'[q][p] \o wire'[p][q]
    BY DEF Side
  <2>n. Sound(u, v) /\ Sound(v, u)
    BY <2>l DEF Link
  <2>o. ASSUME UNCHANGED password, Link(i, x, y, u', v'),
               \A a \in Peers : \A b \in Others(a) :
                 <<a, b>> \notin {<<p, q>>, <<q, p>>} => UNCHANGED Side(a, b)
        PROVE  LinkInv'
    BY <2>o, OneLink
  <2>z. Unbound \in PeerStates /\ Unbound.nonce = NoNonce
    BY UnboundType DEF Unbound
  <2>m. ASSUME NEW m \in Frames, wire' = Send(p, q, m), UNCHANGED <<pend, shared>>
        PROVE  /\ v'.in = IF v.up THEN Append(v.in, m) ELSE v.in
               /\ v'.in \in Seq(Frames)
               /\ \A a \in Peers : \A b \in Peers :
                    <<a, b>> # <<q, p>> => wire'[b][a] = wire[b][a]
    <3>1. /\ pend'[q][p] \o wire'[p][q] =
                IF shared[q][p] THEN Append(pend[q][p] \o wire[p][q], m)
                ELSE pend[q][p] \o wire[p][q]
          /\ \A a \in Peers : \A b \in Peers :
                <<a, b>> # <<q, p>> => wire'[b][a] = wire[b][a]
      BY <2>m, SendSides
    <3> HIDE DEF u, v, i, x, y
    <3>2. v'.in = IF v.up THEN Append(v.in, m) ELSE v.in
      BY <3>1, <2>w, <2>f
    <3>3. v'.in \in Seq(Frames)
      BY <3>2, <2>w, HasAppend
    <3> QED
      BY <3>1, <3>2, <3>3
  <2>y. ASSUME v'.in \in Seq(Frames), v'.up = v.up, v'.st = v.st,
               v'.at = v.at, v'.late = v.late
        PROVE  v' \in Sides
    <3>2. v' = [up |-> v'.up, st |-> v'.st, at |-> v'.at, in |-> v'.in,
                late |-> v'.late]
      BY DEF Side
    <3> HIDE DEF v
    <3> QED
      BY <2>y, <3>2, <2>w DEF Sides
  <2>1. CASE Connect(p, q)
    <3>1. /\ shared' = [shared EXCEPT ![p][q] = TRUE, ![q][p] = TRUE]
          /\ attaches' = [attaches EXCEPT ![p][q] = 0, ![q][p] = 0]
          /\ hs' = hs /\ late' = late /\ wire' = wire /\ pend' = pend
          /\ password' = password /\ ~shared[p][q] /\ ~shared[q][p]
      BY <2>1 DEF Connect
    <3>2. \A a \in Peers : \A b \in Others(a) :
            <<a, b>> \notin {<<p, q>>, <<q, p>>} => UNCHANGED Side(a, b)
      BY <3>1, <1>v, <2>e DEF Side, Others
    <3>3. /\ u'.up = TRUE /\ u'.at = 0 /\ u'.st = u.st /\ u'.in = u.in
          /\ v'.up = TRUE /\ v'.at = 0 /\ v'.st = v.st /\ v'.in = v.in
      BY <3>1, <1>v, <2>e, <2>u, <2>w, <2>f
    <3> HIDE DEF u, v, i, x, y
    <3>4. Link(i, x, y, u', v')
      BY <3>1, <3>3, <2>e, <2>l, <2>u, <2>w, MoveConnect
    <3> QED
      BY <3>1, <3>2, <3>4, <2>o
  <2>2. CASE Close(p, q)
    <3>1. /\ shared' = [shared EXCEPT ![p][q] = FALSE]
          /\ wire' = [wire EXCEPT ![q][p] = <<>>]
          /\ pend' = [pend EXCEPT ![p][q] = <<>>]
          /\ hs' = [hs EXCEPT ![p][q] = Unbound]
          /\ late' = [late EXCEPT ![p][q] = @ \union Orphaned(p, q)]
          /\ password' = password /\ attaches' = attaches
      BY <2>2 DEF Close, exitPeer
    <3>2. \A a \in Peers : \A b \in Others(a) :
            <<a, b>> \notin {<<p, q>>, <<q, p>>} => UNCHANGED Side(a, b)
      BY <3>1, <1>v, <2>e DEF Side, Others
    <3>3. v' = v
      BY <3>1, <1>v, <2>e DEF Side
    <3>4. u'.up = FALSE /\ u'.at = u.at /\ u'.st = Unbound
      BY <3>1, <1>v, <2>e, <2>u, <2>f
    <3>5. u'.in = <<>>
      <4>1. pend'[p][q] = <<>> /\ wire'[q][p] = <<>> /\ <<>> \in Seq(Frames)
        BY <3>1, <1>v, <2>e
      <4> QED
        BY <4>1, <2>f, OneQueue
    <3> HIDE DEF u, v, i, x, y
    <3>6. Link(i, x, y, u', v')
      BY <3>3, <3>4, <3>5, <2>e, <2>l, <2>u, <2>w, HasNothing, MoveExit
    <3> QED
      BY <3>1, <3>2, <3>6, <2>o
  <2>3. CASE Attach(p, q)
    <3>1. /\ shared' = shared /\ late' = late /\ pend' = pend
          /\ password' = password /\ shared[p][q] /\ ~hs[p][q].bound
          /\ attaches' = [attaches EXCEPT ![p][q] =
                            IF attaches[p][q] = 0 /\ late[p][q] = {} THEN 1 ELSE 2]
      BY <2>3, <1>v, <2>e DEF Attach
    <3>2. PICK t \in {"decide", "await"}, n \in Nonces \union {NoNonce} :
            /\ hs' = [hs EXCEPT ![p][q] =
                        [Unbound EXCEPT !.bound = TRUE, !.stage = t, !.nonce = n]]
            /\ \/ UNCHANGED wire /\ (i => t = "decide")
               \/ i /\ n \in Nonces /\ wire' = Send(p, q, Challenge(n))
      <4>1. CASE /\ hs' = [hs EXCEPT ![p][q] =
                             [Unbound EXCEPT !.bound = TRUE, !.stage = "decide"]]
                 /\ UNCHANGED wire
        <5>1. [Unbound EXCEPT !.bound = TRUE, !.stage = "decide"]
                = [Unbound EXCEPT !.bound = TRUE, !.stage = "decide", !.nonce = NoNonce]
          BY <2>z DEF PeerStates
        <5> QED
          BY <4>1, <5>1
      <4>2. CASE /\ ~isInitiator(p, q)
                 /\ hs' = [hs EXCEPT ![p][q] =
                             [Unbound EXCEPT !.bound = TRUE, !.stage = "await"]]
                 /\ UNCHANGED wire
        <5>1. [Unbound EXCEPT !.bound = TRUE, !.stage = "await"]
                = [Unbound EXCEPT !.bound = TRUE, !.stage = "await", !.nonce = NoNonce]
          BY <2>z DEF PeerStates
        <5> QED
          BY <4>2, <5>1
      <4>3. CASE isInitiator(p, q) /\ \E n \in Nonces :
                   /\ hs' = [hs EXCEPT ![p][q] =
                               [Unbound EXCEPT !.bound = TRUE, !.stage = "await",
                                               !.nonce = n]]
                   /\ wire' = Send(p, q, Challenge(n))
        BY <4>3
      <4> QED
        BY <2>3, <4>1, <4>2, <4>3 DEF Attach
    <3>3. \/ wire' = wire
          \/ n \in Nonces /\ Challenge(n) \in Frames /\ wire' = Send(p, q, Challenge(n))
      BY <3>2, FrameTypes
    <3>4. /\ wire'[q][p] = wire[q][p]
          /\ \A a \in Peers : \A b \in Others(a) :
               <<a, b>> # <<q, p>> => wire'[b][a] = wire[b][a]
      <4>1. \A a \in Peers : \A b \in Peers :
               <<a, b>> # <<q, p>> => wire'[b][a] = wire[b][a]
        <5>1. CASE wire' = wire
          BY <5>1
        <5>2. CASE n \in Nonces /\ Challenge(n) \in Frames
                   /\ wire' = Send(p, q, Challenge(n))
          BY <5>2, <3>1, <2>m
        <5> QED
          BY <5>1, <5>2, <3>3
      <4> QED
        BY <4>1, <2>e DEF Others
    <3>5. \A a \in Peers : \A b \in Others(a) :
            <<a, b>> \notin {<<p, q>>, <<q, p>>} => UNCHANGED Side(a, b)
      BY <3>1, <3>2, <3>4, <1>v, <2>e DEF Side, Others
    <3>6. /\ u'.up = u.up /\ u'.late = u.late /\ u'.in = u.in
          /\ u'.st = [Unbound EXCEPT !.bound = TRUE, !.stage = t, !.nonce = n]
          /\ u'.at = 2 \/ (u'.at = 1 /\ u.at = 0 /\ u.late = {})
      BY <3>1, <3>2, <3>4, <1>v, <2>e, <2>u, <2>f
    <3>7. v'.up = v.up /\ v'.late = v.late /\ v'.st = v.st /\ v'.at = v.at
      BY <3>1, <3>2, <1>v, <2>e, <2>w, <2>f
    <3>8. /\ v'.in \in Seq(Frames)
          /\ \/ v'.in = v.in /\ (i => t = "decide")
             \/ v.up /\ i /\ n \in Nonces /\ v'.in = Append(v.in, Challenge(n))
             \/ ~v.up /\ i /\ v'.in = v.in
      <4>1. CASE wire' = wire /\ (i => t = "decide")
        BY <4>1, <3>1, <2>w, <2>f
      <4>2. CASE i /\ n \in Nonces /\ wire' = Send(p, q, Challenge(n))
        <5>1. Challenge(n) \in Frames
          BY <4>2, FrameTypes
        <5>2. v'.in = IF v.up THEN Append(v.in, Challenge(n)) ELSE v.in
          BY <4>2, <5>1, <3>1, <2>m
        <5>3. v'.in \in Seq(Frames)
          BY <4>2, <5>1, <3>1, <2>m
        <5> HIDE DEF u, v, i, x, y
        <5> QED
          BY <4>2, <5>2, <5>3
      <4> QED
        BY <4>1, <4>2, <3>2
    <3>9. u.up /\ ~u.st.bound
      BY <3>1, <2>u
    <3> HIDE DEF u, v, i, x, y
    <3>10. Link(i, x, y, u', v')
      <4>1. /\ n \in Nonces \union {NoNonce} /\ t \in {"decide", "await"}
            /\ \/ v'.in = v.in /\ (i => t = "decide")
               \/ v.up /\ i /\ n \in Nonces /\ v'.in = Append(v.in, Challenge(n))
               \/ ~v.up /\ i /\ v'.in = v.in
        BY <3>8
      <4>2. u \in Sides /\ v \in Sides /\ v'.in \in Seq(Frames)
        BY <3>8, <2>u, <2>w
      <4>3. /\ u'.st.bound = TRUE /\ u'.st.pass = FALSE /\ u'.st.ready = FALSE
            /\ u'.st.active = FALSE /\ u'.st.stage = t /\ u'.st.nonce = n
        BY <3>6 DEF Unbound
      <4>4. /\ u'.st.stage \in {"decide", "await"}
            /\ u'.st.nonce \in Nonces \union {NoNonce}
            /\ \/ v'.in = v.in /\ (i => u'.st.stage = "decide")
               \/ /\ v.up /\ i /\ u'.st.nonce \in Nonces
                  /\ v'.in = Append(v.in, Challenge(u'.st.nonce))
               \/ ~v.up /\ i /\ v'.in = v.in
        BY <4>1, <4>3
      <4> QED
        BY <4>2, <4>3, <4>4, <3>6, <3>7, <3>9, <2>e, <2>l, MoveAttach
    <3> QED
      BY <3>1, <3>5, <3>10, <2>o
  <2>4. CASE Buffer(p, q)
    <3>1. /\ pend' = [pend EXCEPT ![p][q] = Append(pend[p][q], Head(wire[q][p]))]
          /\ wire' = [wire EXCEPT ![q][p] = Tail(wire[q][p])]
          /\ hs' = hs /\ late' = late /\ shared' = shared /\ attaches' = attaches
          /\ password' = password /\ wire[q][p] # <<>>
      BY <2>4 DEF Buffer
    <3>2. \A a \in Peers : \A b \in Others(a) :
            <<a, b>> \notin {<<p, q>>, <<q, p>>} => UNCHANGED Side(a, b)
      <4>1. \A a \in Peers : \A b \in Peers :
              <<a, b>> # <<p, q>> => /\ pend'[a][b] = pend[a][b]
                                     /\ wire'[b][a] = wire[b][a]
        <5> DEFINE s == Append(pend[p][q], Head(wire[q][p]))
                   t == Tail(wire[q][p])
        <5>1. pend' = [pend EXCEPT ![p][q] = s] /\ wire' = [wire EXCEPT ![q][p] = t]
          BY <3>1
        <5> HIDE DEF s, t
        <5> QED
          BY <5>1, <1>v, <2>e
      <4> QED
        BY <4>1, <3>1 DEF Side, Others
    <3>3. v' = v
      BY <3>1, <1>v, <2>e DEF Side
    <3>4. u' = u
      <4>1. /\ pend'[p][q] = Append(pend[p][q], Head(wire[q][p]))
            /\ wire'[q][p] = Tail(wire[q][p])
        BY <3>1, <1>v, <2>e
      <4>2. pend'[p][q] \o wire'[q][p] = pend[p][q] \o wire[q][p]
        <5>1. Append(pend[p][q], Head(wire[q][p])) \o Tail(wire[q][p])
                = pend[p][q] \o wire[q][p]
          BY <3>1, <2>u, OneQueue
        <5> QED
          BY <4>1, <5>1
      <4> QED
        BY <4>2, <3>1 DEF Side
    <3>5. Link(i, x, y, u', v')
      BY <3>3, <3>4, <2>l
    <3> QED
      BY <3>1, <3>2, <3>5, <2>o
  <2>t. ASSUME TakeFrame(p, q), NEW m, Handles(p, q, m),
               UNCHANGED <<password, shared, late, attaches>>,
               NEW g \in PeerStates, hs' = [hs EXCEPT ![p][q] = g],
               \/ g = u.st /\ m # Ready
               \/ m = Ready /\ g = maybeActivatePeer([u.st EXCEPT !.ready = TRUE])
               \/ /\ m.kind \in Handshaking /\ u.st.stage = "await"
                  /\ g = [u.st EXCEPT !.stage = "hash", !.held = m]
        PROVE  LinkInv'
    <3>1. Incoming(p, q) # <<>> /\ m = Head(Incoming(p, q)) /\ u.st.bound
      BY <2>t, <2>u DEF Handles
    <3>2. /\ u.in # <<>> /\ m = Head(u.in) /\ u'.in = Tail(u.in)
          /\ \A a \in Peers : \A b \in Peers :
               <<a, b>> # <<p, q>> => /\ pend'[a][b] = pend[a][b]
                                      /\ wire'[b][a] = wire[b][a]
      <4>1. /\ pend[p][q] \o wire[q][p] # <<>>
            /\ Head(pend[p][q] \o wire[q][p]) = Head(Incoming(p, q))
            /\ pend'[p][q] \o wire'[q][p] = Tail(pend[p][q] \o wire[q][p])
            /\ \A a \in Peers : \A b \in Peers :
                 <<a, b>> # <<p, q>> => /\ pend'[a][b] = pend[a][b]
                                        /\ wire'[b][a] = wire[b][a]
        BY <2>t, <3>1, TakeSides
      <4> HIDE DEF u, v, i, x, y
      <4> QED
        BY <4>1, <3>1, <2>u, <2>f
    <3>3. \A a \in Peers : \A b \in Others(a) :
            <<a, b>> \notin {<<p, q>>, <<q, p>>} => UNCHANGED Side(a, b)
      BY <2>t, <3>2, <1>v, <2>e DEF Side, Others
    <3>4. v' = v
      BY <2>t, <3>2, <1>v, <2>e DEF Side
    <3>5. u'.up = u.up /\ u'.late = u.late /\ u'.at = u.at /\ u'.st = g
      BY <2>t, <1>v, <2>e, <2>u, <2>f
    <3>6. \/ g = u.st /\ Head(u.in) # Ready
          \/ /\ Head(u.in) = Ready
             /\ g = maybeActivatePeer([u.st EXCEPT !.ready = TRUE])
          \/ /\ Head(u.in).kind \in Handshaking /\ u.st.stage = "await"
             /\ g = [u.st EXCEPT !.stage = "hash", !.held = Head(u.in)]
      BY <2>t, <3>2
    <3>7. password' = password
      BY <2>t
    <3> HIDE DEF u, v, i, x, y
    <3>8. Link(i, x, y, u', v)
      BY <3>1, <3>2, <3>5, <3>6, <2>t, <2>e, <2>l, <2>u, <2>w, MoveHandle
    <3> QED
      BY <3>3, <3>4, <3>7, <3>8, <2>o
  <2>k. Ready.kind = "ready" /\ LeaveFrame.kind = "leave" /\ DataFrame.kind = "data"
    BY KindTypes
  <2>5. CASE receiveHandshakeData(p, q)
    <3>1. PICK m \in Frames :
            /\ Handles(p, q, m) /\ m.kind \in Handshaking /\ TakeFrame(p, q)
            /\ hs' = IF ~hs[p][q].active /\ hs[p][q].stage = "await"
                       THEN [hs EXCEPT ![p][q].stage = "hash",
                                       ![p][q].held = m]
                       ELSE hs
            /\ UNCHANGED <<password, shared, late, attaches>>
      BY <2>5 DEF receiveHandshakeData
    <3>2. m # Ready
      BY <3>1, <2>k DEF Handshaking
    <3>3. CASE hs' = hs
      <4>1. hs' = [hs EXCEPT ![p][q] = u.st]
        BY <3>3, <1>v, <2>e, <2>u
      <4> HIDE DEF u, v, i, x, y
      <4> QED
        BY <3>1, <3>2, <4>1, <2>t, <2>u
    <3>4. CASE /\ hs[p][q].stage = "await"
               /\ hs' = [hs EXCEPT ![p][q].stage = "hash", ![p][q].held = m]
      <4> DEFINE g == [u.st EXCEPT !.stage = "hash", !.held = m]
      <4>1. hs' = [hs EXCEPT ![p][q] = g]
        BY <3>4, <1>v, <2>e, <2>u
      <4>2. g \in PeerStates /\ u.st.stage = "await"
        BY <3>4, <2>u, StateTypes
      <4> HIDE DEF u, v, i, x, y
      <4> QED
        BY <3>1, <4>1, <4>2, <2>t
    <3> QED
      BY <3>1, <3>3, <3>4
  <2>6. CASE receiveHandshakeReady(p, q)
    <3> DEFINE g == maybeActivatePeer([u.st EXCEPT !.ready = TRUE])
    <3>1. /\ Handles(p, q, Ready) /\ TakeFrame(p, q)
          /\ hs' = [hs EXCEPT ![p][q] = g]
          /\ UNCHANGED <<password, shared, late, attaches>>
      BY <2>6, <2>u DEF receiveHandshakeReady
    <3>2. g \in PeerStates
      BY <2>u, StateTypes, FrameTypes
    <3> HIDE DEF u, v, i, x, y
    <3> QED
      BY <3>1, <3>2, <2>t
  <2>7. CASE receiveLeave(p, q)
    <3>1. /\ hs' = [hs EXCEPT ![p][q] = Unbound]
          /\ late' = [late EXCEPT ![p][q] = @ \union Orphaned(p, q)]
          /\ shared' = shared /\ attaches' = attaches /\ password' = password
          /\ Handles(p, q, LeaveFrame)
      BY <2>7 DEF receiveLeave, exitPeer
    <3>2. Incoming(p, q) # <<>> /\ u.st.bound /\ u.up
      BY <3>1, <2>u DEF Handles
    <3>3. /\ u.in = <<>> => u'.in = <<>>
          /\ \A f : Has(u'.in, f) => Has(u.in, f)
          /\ \A a \in Peers : \A b \in Peers :
               <<a, b>> # <<p, q>> => /\ pend'[a][b] = pend[a][b]
                                      /\ wire'[b][a] = wire[b][a]
      <4>1. CASE pend[p][q] # <<>> /\ pend' = [pend EXCEPT ![p][q] = <<>>]
                 /\ UNCHANGED wire
        <5>1. u'.in = wire[q][p] /\ u.in # <<>>
          <6>1. pend'[p][q] = <<>> /\ wire'[q][p] = wire[q][p]
            BY <4>1, <1>v, <2>e
          <6>2. <<>> \o wire[q][p] = wire[q][p] /\ pend[p][q] \o wire[q][p] # <<>>
            BY <4>1, <2>u, OneQueue
          <6> QED
            BY <6>1, <6>2, <2>u, <2>f
        <5>2. \A f : Has(wire[q][p], f) => Has(u.in, f)
          BY <2>u, OneQueue
        <5>3. \A a \in Peers : \A b \in Peers :
               <<a, b>> # <<p, q>> => /\ pend'[a][b] = pend[a][b]
                                      /\ wire'[b][a] = wire[b][a]
          BY <4>1, <1>v, <2>e
        <5> QED
          BY <5>1, <5>2, <5>3
      <4>2. CASE TakeFrame(p, q)
        <5>1. /\ u.in # <<>> /\ u'.in = Tail(u.in)
              /\ \A a \in Peers : \A b \in Peers :
                   <<a, b>> # <<p, q>> => /\ pend'[a][b] = pend[a][b]
                                          /\ wire'[b][a] = wire[b][a]
          BY <4>2, <3>2, <2>u, <2>f, TakeSides
        <5>2. \A f : Has(Tail(u.in), f) => Has(u.in, f)
          BY <5>1, <2>w, HasTail
        <5> QED
          BY <5>1, <5>2
      <4> QED
        BY <2>7, <4>1, <4>2 DEF receiveLeave
    <3>4. \A a \in Peers : \A b \in Others(a) :
            <<a, b>> \notin {<<p, q>>, <<q, p>>} => UNCHANGED Side(a, b)
      BY <3>1, <3>3, <1>v, <2>e DEF Side, Others
    <3>5. v' = v
      BY <3>1, <3>3, <1>v, <2>e DEF Side
    <3>6. u'.up = u.up /\ u'.at = u.at /\ u'.st = Unbound
      BY <3>1, <1>v, <2>e, <2>u, <2>f
    <3> HIDE DEF u, v, i, x, y
    <3>7. Link(i, x, y, u', v)
      BY <3>2, <3>3, <3>6, <2>e, <2>l, <2>u, <2>w, MoveExit
    <3> QED
      BY <3>1, <3>4, <3>5, <3>7, <2>o
  <2>8. CASE receiveData(p, q)
    <3>1. /\ Handles(p, q, DataFrame) /\ TakeFrame(p, q)
          /\ UNCHANGED <<password, shared, late, attaches>>
          /\ hs' = [hs EXCEPT ![p][q] = u.st]
      BY <2>8, <1>v, <2>e, <2>u DEF receiveData
    <3>2. DataFrame # Ready
      BY <2>k
    <3> HIDE DEF u, v, i, x, y
    <3> QED
      BY <3>1, <3>2, <2>t, <2>u
  <2>d. ASSUME hs[p][q].stage = "hash", NEW n \in Nonces \union {NoNonce},
               hs' = [hs EXCEPT ![p][q] = [hs[p][q] EXCEPT !.stage = "decide",
                                             !.held = Ready, !.nonce = n]],
               UNCHANGED <<shared, attaches, late>>, pend' = pend,
               v'.in = v.in, u'.in = u.in
        PROVE  Link(i, x, y, u', v)
    <3>1. /\ u'.up = u.up /\ u'.at = u.at /\ u'.late = u.late
          /\ u'.st = [u.st EXCEPT !.stage = "decide", !.held = Ready, !.nonce = n]
          /\ u.st.stage = "hash"
      BY <2>d, <1>v, <2>e, <2>u, <2>f
    <3> HIDE DEF u, v, i, x, y
    <3> QED
      BY <3>1, <2>d, <2>e, <2>l, <2>u, <2>w, MoveDecide
  <2>b. hs[p][q].stage # "off" => u.st.bound /\ u.up
    BY <2>n, <2>u, UnboundFields DEF Sound
  <2>9. CASE verifyResponse(p, q)
    <3>1. CASE exitPeer(p, q)
      <4>1. hs[p][q].bound
        BY <2>9, <2>b, <2>u DEF verifyResponse
      <4> QED
        BY <2>9, <3>1, <4>1, ExitSides DEF verifyResponse
    <3>2. CASE hs' = [hs EXCEPT ![p][q].stage = "decide", ![p][q].held = Ready,
                                ![p][q].nonce = NoNonce] /\ UNCHANGED late
      <4>1. /\ hs' = [hs EXCEPT ![p][q] = [hs[p][q] EXCEPT !.stage = "decide",
                                             !.held = Ready, !.nonce = NoNonce]]
            /\ shared' = shared /\ attaches' = attaches /\ late' = late
            /\ pend' = pend /\ wire' = wire /\ password' = password
            /\ hs[p][q].stage = "hash"
        BY <2>9, <3>2, <1>v, <2>e DEF verifyResponse
      <4>2. \A a \in Peers : \A b \in Others(a) :
              <<a, b>> \notin {<<p, q>>, <<q, p>>} => UNCHANGED Side(a, b)
        BY <4>1, <1>v, <2>e DEF Side, Others
      <4>3. v' = v /\ u'.in = u.in
        BY <4>1, <1>v, <2>e, <2>u, <2>f DEF Side
      <4> HIDE DEF u, v, i, x, y
      <4>4. Link(i, x, y, u', v)
        BY <4>1, <4>3, <2>d
      <4> QED
        BY <4>1, <4>2, <4>3, <4>4, <2>o
    <3> QED
      BY <2>9, <3>1, <3>2 DEF verifyResponse
  <2>10. CASE answerChallenge(p, q)
    <3>1. CASE exitPeer(p, q) /\ UNCHANGED wire
      <4>1. hs[p][q].bound
        BY <2>10, <2>b, <2>u DEF answerChallenge
      <4> QED
        BY <2>10, <3>1, <4>1, ExitSides DEF answerChallenge
    <3>2. CASE /\ hs[p][q].held.kind = "challenge"
               /\ wire' = Send(p, q, Response(hs[p][q].held.c, password[p]))
               /\ hs' = [hs EXCEPT ![p][q].stage = "decide",
                                   ![p][q].held = Ready]
               /\ UNCHANGED late
      <4> DEFINE m == Response(hs[p][q].held.c, password[p])
                 n == hs[p][q].nonce
                 r == [v EXCEPT !.in = v'.in]
      <4>0. /\ hs[p][q].held.c \in Nonces /\ m \in Frames /\ n \in Nonces \union {NoNonce}
            /\ m.kind = "response"
        <5>1. hs[p][q].held \in Frames /\ n \in Nonces \union {NoNonce}
          BY <2>u DEF PeerStates
        <5> QED
          BY <3>2, <5>1, <2>e, FrameTypes, KindTypes
      <4>1. /\ hs' = [hs EXCEPT ![p][q] = [hs[p][q] EXCEPT !.stage = "decide",
                                             !.held = Ready, !.nonce = n]]
            /\ shared' = shared /\ attaches' = attaches /\ late' = late
            /\ pend' = pend /\ password' = password
            /\ hs[p][q].stage = "hash" /\ ~i
        <5>1. [hs[p][q] EXCEPT !.stage = "decide", !.held = Ready, !.nonce = n]
                = [hs[p][q] EXCEPT !.stage = "decide", !.held = Ready]
          BY <2>u DEF PeerStates
        <5>2. hs' = [hs EXCEPT ![p][q] = [hs[p][q] EXCEPT !.stage = "decide",
                                             !.held = Ready]]
          BY <3>2, <1>v, <2>e
        <5> QED
          BY <2>10, <3>2, <5>1, <5>2 DEF answerChallenge
      <4>2. /\ v'.in = IF v.up THEN Append(v.in, m) ELSE v.in
            /\ \A a \in Peers : \A b \in Peers :
                 <<a, b>> # <<q, p>> => wire'[b][a] = wire[b][a]
        BY <3>2, <4>0, <4>1, <2>m
      <4>3. \A a \in Peers : \A b \in Others(a) :
              <<a, b>> \notin {<<p, q>>, <<q, p>>} => UNCHANGED Side(a, b)
        BY <4>1, <4>2, <1>v, <2>e DEF Side, Others
      <4>4. u'.in = u.in
        BY <4>1, <4>2, <2>e, <2>u, <2>f
      <4>5. /\ v'.up = v.up /\ v'.st = v.st /\ v'.at = v.at /\ v'.late = v.late
            /\ u'.up = u.up /\ u'.st = [u.st EXCEPT !.stage = "decide",
                                          !.held = Ready, !.nonce = n]
            /\ u'.at = u.at /\ u'.late = u.late
        BY <4>1, <1>v, <2>e, <2>u, <2>w, <2>f
      <4>6. m # Ready /\ m # DataFrame
        BY <4>0, <2>k
      <4>7. /\ u.st.stage = "hash" /\ u.st.held.kind = "challenge"
            /\ u.st.held.c = hs[p][q].held.c /\ u.st.bound
        BY <3>2, <4>1, <2>u, <2>b
      <4>8. (u.at <= 1 /\ v.at <= 1) =>
              /\ v.at # 0
              /\ v.st.stage \in {"await", "hash"} => m = Response(v.st.nonce, x)
        <5>1. v.at # 0
          BY <4>7, <2>n DEF Sound
        <5>2. Asked(x, v, u)
          BY <4>1, <2>l DEF Link
        <5>3. (u.at <= 1 /\ v.at <= 1 /\ v.st.stage \in {"await", "hash"})
                => u.st.held.c = v.st.nonce
          BY <5>2, <4>7 DEF Asked
        <5> QED
          BY <5>1, <5>3, <4>7
      <4> HIDE DEF u, v, i, x, y, m, n
      <4>9. Link(i, x, y, u, v')
        BY <4>0, <4>1, <4>2, <4>5, <4>6, <4>7, <4>8, <2>e, <2>l, <2>u, <2>w, MoveSend
      <4>10. v' \in Sides
        <5>1. v'.in \in Seq(Frames)
          BY <4>0, <4>2, <2>w, HasAppend
        <5> QED
          BY <5>1, <4>1, <4>5, <2>y
      <4>11. Link(i, x, y, u', v')
        BY <4>0, <4>4, <4>5, <4>7, <4>9, <4>10, <2>e, <2>u, MoveDecide
      <4> QED
        BY <4>1, <4>3, <4>11, <2>o
    <3> QED
      BY <2>10, <3>1, <3>2 DEF answerChallenge
  <2>11. CASE answerLate(p, q)
    <3>1. PICK n \in late[p][q] :
            /\ late' = [late EXCEPT ![p][q] = @ \ {n}]
            /\ wire' = IF hs[p][q].bound
                         THEN Send(p, q, Response(n, password[p]))
                         ELSE wire
            /\ shared' = shared /\ attaches' = attaches /\ hs' = hs
            /\ pend' = pend /\ password' = password
      BY <2>11 DEF answerLate
    <3> DEFINE m == Response(n, password[p])
    <3>2. m \in Frames /\ m.kind = "response"
      <4>1. n \in Nonces
        BY <3>1, <1>v, <2>e
      <4> QED
        BY <4>1, <2>e, FrameTypes, KindTypes
    <3>3. /\ v'.in = IF u.st.bound /\ v.up THEN Append(v.in, m) ELSE v.in
          /\ \A a \in Peers : \A b \in Peers :
               <<a, b>> # <<q, p>> => wire'[b][a] = wire[b][a]
      <4>1. CASE hs[p][q].bound
        <5>1. wire' = Send(p, q, m)
          BY <3>1, <4>1
        <5> QED
          BY <4>1, <5>1, <3>1, <3>2, <2>u, <2>m
      <4>2. CASE ~hs[p][q].bound
        BY <4>2, <3>1, <2>u, <2>w, <2>f
      <4> QED
        BY <4>1, <4>2
    <3>4. \A a \in Peers : \A b \in Others(a) :
            <<a, b>> \notin {<<p, q>>, <<q, p>>} => UNCHANGED Side(a, b)
      BY <3>1, <3>3, <1>v, <2>e DEF Side, Others
    <3>5. /\ v'.up = v.up /\ v'.st = v.st /\ v'.at = v.at /\ v'.late = v.late
          /\ u'.up = u.up /\ u'.st = u.st /\ u'.at = u.at /\ u'.in = u.in
      BY <3>1, <3>3, <1>v, <2>e, <2>u, <2>w, <2>f
    <3>6. m # Ready /\ m # DataFrame
      BY <3>2, <2>k
    <3>7. ~u.st.bound \/ u.at = 2
      <4>1. (u.at <= 1 /\ u.st.bound) => u.late = {}
        BY <2>n DEF Sound
      <4>2. n \in u.late /\ u.at \in 0..2
        BY <3>1, <2>u DEF Sides
      <4> QED
        BY <4>1, <4>2
    <3>8. Link(i, x, y, u, v')
      <4>1. CASE u.st.bound
        <5>1. v'.in = IF v.up THEN Append(v.in, m) ELSE v.in
          BY <4>1, <3>3
        <5>2. ~(u.at <= 1)
          BY <4>1, <3>7
        <5> HIDE DEF u, v, i, x, y, m
        <5> QED
          BY <4>1, <5>1, <5>2, <3>2, <3>5, <3>6, <2>e, <2>l, <2>u, <2>w, MoveSend
      <4>2. CASE ~u.st.bound
        <5>1. v' = v
          BY <4>2, <3>1, <2>u, <2>e, <1>v DEF Side
        <5> QED
          BY <5>1, <2>l
      <4> QED
        BY <4>1, <4>2
    <3>9. v' \in Sides
      <4>1. v'.in \in Seq(Frames)
        BY <3>2, <3>3, <2>w, HasAppend
      <4> QED
        BY <4>1, <3>1, <3>5, <2>y
    <3> HIDE DEF u, v, i, x, y, m
    <3>10. Link(i, x, y, u', v')
      BY <3>5, <3>7, <3>8, <3>9, <2>e, <2>u, MoveLate
    <3> QED
      BY <3>1, <3>4, <3>10, <2>o
  <2>12. CASE markLocalHandshakePassed(p, q)
    <3>1. /\ hs[p][q].stage = "decide"
          /\ hs' = [hs EXCEPT ![p][q] =
                      maybeActivatePeer([hs[p][q] EXCEPT !.pass = TRUE,
                                                         !.stage = "done"])]
          /\ wire' = Send(p, q, Ready)
          /\ shared' = shared /\ attaches' = attaches /\ late' = late
          /\ pend' = pend /\ password' = password
      BY <2>12 DEF markLocalHandshakePassed
    <3>2. /\ v'.in = IF v.up THEN Append(v.in, Ready) ELSE v.in
          /\ \A a \in Peers : \A b \in Peers :
               <<a, b>> # <<q, p>> => wire'[b][a] = wire[b][a]
      BY <3>1, <2>m, FrameTypes
    <3>3. \A a \in Peers : \A b \in Others(a) :
            <<a, b>> \notin {<<p, q>>, <<q, p>>} => UNCHANGED Side(a, b)
      BY <3>1, <3>2, <1>v, <2>e DEF Side, Others
    <3>4. /\ v'.up = v.up /\ v'.st = v.st /\ v'.at = v.at /\ v'.late = v.late
          /\ u'.up = u.up /\ u'.at = u.at /\ u'.in = u.in /\ u'.late = u.late
          /\ u'.st = maybeActivatePeer([u.st EXCEPT !.pass = TRUE, !.stage = "done"])
          /\ u.st.stage = "decide"
      BY <3>1, <3>2, <1>v, <2>e, <2>u, <2>w, <2>f
    <3> HIDE DEF u, v, i, x, y
    <3>5. Link(i, x, y, u', v')
      BY <3>2, <3>4, <2>e, <2>l, <2>u, <2>w, MovePass
    <3> QED
      BY <3>1, <3>3, <3>5, <2>o
  <2>13. CASE rejectPeer(p, q)
    <3>1. hs[p][q].bound
      BY <2>13, <2>b, <2>u DEF rejectPeer
    <3> QED
      BY <2>13, <3>1, ExitSides DEF rejectPeer
  <2>14. CASE timeOut(p, q)
    BY <2>14, ExitSides DEF timeOut
  <2>15. CASE sendData(p, q)
    <3>1. /\ hs[p][q].active /\ wire' = Send(p, q, DataFrame)
          /\ shared' = shared /\ attaches' = attaches /\ late' = late
          /\ pend' = pend /\ password' = password /\ hs' = hs
      BY <2>15 DEF sendData
    <3>2. /\ v'.in = IF v.up THEN Append(v.in, DataFrame) ELSE v.in
          /\ \A a \in Peers : \A b \in Peers :
               <<a, b>> # <<q, p>> => wire'[b][a] = wire[b][a]
      BY <3>1, <2>m, FrameTypes
    <3>3. \A a \in Peers : \A b \in Others(a) :
            <<a, b>> \notin {<<p, q>>, <<q, p>>} => UNCHANGED Side(a, b)
      BY <3>1, <3>2, <1>v, <2>e DEF Side, Others
    <3>4. u' = u
      BY <3>1, <3>2, <2>e DEF Side
    <3>5. v'.up = v.up /\ v'.st = v.st /\ v'.at = v.at /\ v'.late = v.late
      BY <3>1, <2>e, <2>w, <2>f
    <3>6. u.st.active /\ u.st.bound
      BY <3>1, <2>u, <2>n, UnboundFields DEF Sound
    <3>7. DataFrame # Ready /\ DataFrame.kind \notin Handshaking /\ DataFrame \in Frames
      BY <2>k, FrameTypes DEF Handshaking
    <3> HIDE DEF u, v, i, x, y
    <3>8. Link(i, x, y, u, v')
      BY <3>2, <3>5, <3>6, <3>7, <2>e, <2>l, <2>u, <2>w, MoveSend
    <3> QED
      BY <3>1, <3>3, <3>4, <3>8, <2>o
  <2> QED
    BY <1>p, <2>1, <2>2, <2>3, <2>4, <2>5, <2>6, <2>7, <2>8, <2>9, <2>10,
       <2>11, <2>12, <2>13, <2>14, <2>15 DEF Progress
<1>r. ASSUME NEW p \in Peers, startLeave(p) \/ finishLeave(p) \/ joinAgain(p)
      PROVE  LinkInv'
  <2>1. CASE startLeave(p)
    <3>1. /\ wire' = [wire EXCEPT ![p] =
                        [q \in Peers |-> IF hs[p][q].bound /\ shared[q][p]
                                           THEN Append(wire[p][q], LeaveFrame)
                                           ELSE wire[p][q]]]
          /\ shared' = shared /\ attaches' = attaches /\ late' = late
          /\ pend' = pend /\ password' = password /\ hs' = hs
      BY <2>1, <1>v DEF startLeave
    <3>2. ASSUME NEW q \in Others(p)
          PROVE  Link(isInitiator(p, q), password[p], password[q],
                      Side(p, q)', Side(q, p)')
      <4> DEFINE u == Side(p, q)
                 v == Side(q, p)
                 i == isInitiator(p, q)
                 x == password[p]
                 y == password[q]
      <4>e. /\ q \in Peers /\ p \in Others(q) /\ p # q /\ i \in BOOLEAN
            /\ x \in Passwords /\ y \in Passwords
        BY <1>v, Ends
      <4>l. Link(i, x, y, u, v)
        BY <4>e DEF LinkInv
      <4>u. u \in Sides /\ u.st = hs[p][q]
        BY <4>e, SideType
      <4>w. /\ v \in Sides /\ v.up = shared[q][p] /\ v.st = hs[q][p]
            /\ v.at = attaches[q][p] /\ v.late = late[q][p]
            /\ v.in = pend[q][p] \o wire[p][q]
            /\ wire[p][q] \in Seq(Frames) /\ pend[q][p] \in Seq(Frames)
        BY <4>e, SideType
      <4>1. u' = u
        BY <3>1, <4>e, <1>v DEF Side
      <4>2. wire'[p][q] = IF hs[p][q].bound /\ shared[q][p]
                            THEN Append(wire[p][q], LeaveFrame) ELSE wire[p][q]
        BY <3>1, <4>e, <1>v
      <4>3. CASE ~hs[p][q].bound
        <5>1. v' = v
          BY <3>1, <4>2, <4>3 DEF Side
        <5> QED
          BY <4>1, <5>1, <4>l
      <4>4. CASE hs[p][q].bound
        <5>1. v'.in = IF v.up THEN Append(v.in, LeaveFrame) ELSE v.in
          <6>1. v'.in = pend[q][p] \o wire'[p][q]
            BY <3>1 DEF Side
          <6>2. pend[q][p] \o Append(wire[p][q], LeaveFrame)
                  = Append(pend[q][p] \o wire[p][q], LeaveFrame)
            BY <4>w, FrameTypes, OneQueue
          <6> QED
            BY <6>1, <6>2, <4>2, <4>4, <4>w
        <5>2. v'.up = v.up /\ v'.st = v.st /\ v'.at = v.at /\ v'.late = v.late
          BY <3>1 DEF Side
        <5>3. /\ LeaveFrame \in Frames /\ LeaveFrame # Ready
              /\ LeaveFrame # DataFrame /\ LeaveFrame.kind \notin Handshaking
          BY FrameTypes, KindTypes DEF Handshaking
        <5> HIDE DEF u, v, i, x, y
        <5>4. Link(i, x, y, u, v')
          BY <4>4, <5>1, <5>2, <5>3, <4>e, <4>l, <4>u, <4>w, MoveSend
        <5> USE DEF u, v, i, x, y
        <5> QED
          BY <4>1, <5>4
      <4> QED
        BY <4>3, <4>4
    <3>3. ASSUME NEW a \in Peers, NEW b \in Others(a), a # p, b # p
          PROVE  UNCHANGED Side(a, b)
      BY <3>1, <3>3, <1>v DEF Side, Others
    <3> SUFFICES ASSUME NEW a \in Peers, NEW b \in Others(a)
                 PROVE  Link(isInitiator(a, b), password[a], password[b],
                             Side(a, b)', Side(b, a)')
      BY <3>1 DEF LinkInv
    <3>4. CASE a = p
      BY <3>2, <3>4
    <3>5. CASE b = p
      <4>1. a \in Others(p)
        BY <3>5, Ends
      <4> QED
        BY <4>1, <3>2, <3>5, Ends, LinkSym
    <3>6. CASE a # p /\ b # p
      BY <3>3, <3>6, Ends DEF LinkInv
    <3> QED
      BY <3>4, <3>5, <3>6
  <2>2. CASE finishLeave(p)
    <3>1. /\ hs' = [hs EXCEPT ![p] = [q \in Peers |-> Unbound]]
          /\ late' = [late EXCEPT ![p] = [q \in Peers |-> {}]]
          /\ shared' = shared /\ attaches' = attaches /\ wire' = wire
          /\ pend' = pend /\ password' = password
      BY <2>2 DEF finishLeave
    <3>2. ASSUME NEW q \in Others(p)
          PROVE  Link(isInitiator(p, q), password[p], password[q],
                      Side(p, q)', Side(q, p)')
      <4> DEFINE u == Side(p, q)
                 v == Side(q, p)
                 i == isInitiator(p, q)
                 x == password[p]
                 y == password[q]
      <4>e. /\ q \in Peers /\ p \in Others(q) /\ p # q /\ i \in BOOLEAN
            /\ x \in Passwords /\ y \in Passwords
        BY <1>v, Ends
      <4>l. Link(i, x, y, u, v)
        BY <4>e DEF LinkInv
      <4>u. u \in Sides /\ v \in Sides /\ u.st = hs[p][q]
        BY <4>e, SideType
      <4>1. v' = v
        BY <3>1, <4>e, <1>v DEF Side
      <4>2. u'.up = u.up /\ u'.at = u.at /\ u'.in = u.in /\ u'.st = Unbound
        BY <3>1, <4>e, <1>v DEF Side
      <4>3. (~u.st.bound => u.st = Unbound) /\ (u.st.bound => u.up)
        BY <4>l DEF Link, Sound
      <4> HIDE DEF u, v, i, x, y
      <4>4. CASE u.st.bound
        <5>1. Link(i, x, y, u', v)
          BY <4>4, <4>2, <4>3, <4>e, <4>l, <4>u, MoveExit
        <5> USE DEF u, v, i, x, y
        <5> QED
          BY <4>1, <5>1
      <4>5. CASE ~u.st.bound
        <5>1. Link(i, x, y, u', v)
          BY <4>5, <4>2, <4>3, <4>e, <4>l, <4>u, MoveLate
        <5> USE DEF u, v, i, x, y
        <5> QED
          BY <4>1, <5>1
      <4> QED
        BY <4>4, <4>5
    <3>3. ASSUME NEW a \in Peers, NEW b \in Others(a), a # p, b # p
          PROVE  UNCHANGED Side(a, b)
      BY <3>1, <3>3, <1>v DEF Side, Others
    <3> SUFFICES ASSUME NEW a \in Peers, NEW b \in Others(a)
                 PROVE  Link(isInitiator(a, b), password[a], password[b],
                             Side(a, b)', Side(b, a)')
      BY <3>1 DEF LinkInv
    <3>4. CASE a = p
      BY <3>2, <3>4
    <3>5. CASE b = p
      <4>1. a \in Others(p)
        BY <3>5, Ends
      <4> QED
        BY <4>1, <3>2, <3>5, Ends, LinkSym
    <3>6. CASE a # p /\ b # p
      BY <3>3, <3>6, Ends DEF LinkInv
    <3> QED
      BY <3>4, <3>5, <3>6
  <2>3. CASE joinAgain(p)
    BY <2>3 DEF joinAgain, LinkInv, Side
  <2> QED
    BY <1>r, <2>1, <2>2, <2>3
<1> QED
  BY <1>s, <1>p, <1>r DEF Next

(* The initial states are in order on every link.                           *)
LEMMA InitLinkInv == Init => LinkInv
<1> SUFFICES ASSUME Init, NEW p \in Peers, NEW q \in Others(p)
             PROVE  Link(isInitiator(p, q), password[p], password[q],
                         Side(p, q), Side(q, p))
  BY DEF LinkInv
<1>1. q \in Peers
  BY Ends
<1>2. TypeOK
  BY InitTypeOK
<1> DEFINE u == Side(p, q)
           v == Side(q, p)
<1>3. <<>> \o <<>> = <<>>
  OBVIOUS
<1>4. /\ u.st = Unbound /\ u.at = 0 /\ u.in = <<>>
      /\ v.st = Unbound /\ v.at = 0 /\ v.in = <<>>
  BY <1>1, <1>3 DEF Init, Side
<1> HIDE DEF u, v
<1>5. Sound(u, v) /\ Sound(v, u)
  BY <1>4, UnboundFields, HasNothing DEF Sound
<1>6. Asked(password[q], u, v) /\ Asked(password[p], v, u)
  BY <1>4, UnboundFields, HasNothing DEF Asked
<1>7. Link(isInitiator(p, q), password[p], password[q], u, v)
  BY <1>5, <1>6 DEF Link
<1> QED
  BY <1>7 DEF u, v

(* LinkInv holds in every behaviour.                                        *)
LEMMA LinkHolds == Spec => [](TypeOK /\ LinkInv)
<1>1. Init => TypeOK /\ LinkInv
  BY InitTypeOK, InitLinkInv
<1>2. (TypeOK /\ LinkInv) /\ [Next]_vars => (TypeOK /\ LinkInv)'
  BY StepTypeOK, StepLinkInv
<1> QED
  BY <1>1, <1>2, PTL DEF Spec

(* What LinkInv says of both directions of a link, in terms of the actions. *)
LEMMA BothWays ==
  ASSUME TypeOK, LinkInv, NEW p \in Peers, NEW q \in Others(p)
  PROVE  /\ q \in Peers
         /\ Sound(Side(p, q), Side(q, p)) /\ Sound(Side(q, p), Side(p, q))
         /\ isInitiator(p, q) => Asked(password[q], Side(p, q), Side(q, p))
         /\ Side(p, q).at \in 0..2 /\ Side(q, p).at \in 0..2
         /\ Side(p, q).in \in Seq(Frames)
<1>1. q \in Peers
  BY Ends
<1>2. Side(p, q) \in Sides /\ Side(q, p) \in Sides
  BY <1>1, SideType
<1> QED
  BY <1>1, <1>2 DEF LinkInv, Link, Sides

(* room.ts and handshake.ts never admit one side only on first bindings:    *)
(* whoever is active there is connected to a side that has passed, whatever *)
(* has timed out, been rejected, lost or left elsewhere.                    *)
THEOREM AdmissionAgreementHolds == Spec => []AdmissionAgreement
<1>1. TypeOK /\ LinkInv => AdmissionAgreement
  <2> SUFFICES ASSUME TypeOK, LinkInv, NEW p \in Peers, NEW q \in Others(p),
                      hs[p][q].active, FirstBinding(p, q), hs[q][p].bound
               PROVE  hs[q][p].pass
    BY DEF AdmissionAgreement
  <2>1. /\ Side(p, q).st = hs[p][q] /\ Side(q, p).st = hs[q][p]
        /\ Side(q, p).at = attaches[q][p]
    BY DEF Side
  <2>2. Side(p, q).st.ready
    BY <2>1, BothWays DEF Sound
  <2>3. Side(q, p).at # 0
    BY <2>2, BothWays DEF Sound
  <2>4. Side(q, p).at = 1
    BY <2>1, <2>3, BothWays DEF FirstBinding
  <2> QED
    BY <2>1, <2>2, <2>4, BothWays DEF Sound
<1> QED
  BY <1>1, LinkHolds, PTL

(* canReceiveFromPeer drops no message on first bindings: when one is up    *)
(* for handling, its receiver has passed, and has read that the sender did. *)
THEOREM NoDataDroppedHolds == Spec => []NoDataDropped
<1>1. TypeOK /\ LinkInv => NoDataDropped
  <2> SUFFICES ASSUME TypeOK, LinkInv, NEW p \in Peers, NEW q \in Others(p),
                      FirstBinding(p, q), Handles(p, q, DataFrame)
               PROVE  hs[p][q].active
    BY DEF NoDataDropped
  <2> DEFINE u == Side(p, q)
             v == Side(q, p)
  <2>1. /\ u.st = hs[p][q] /\ u.up = shared[p][q] /\ u.at = attaches[p][q]
        /\ v.at = attaches[q][p] /\ u.in = pend[p][q] \o wire[q][p]
    BY DEF Side
  <2>2. Sound(u, v) /\ Sound(v, u) /\ u.at \in 0..2 /\ v.at \in 0..2
        /\ u.in \in Seq(Frames) /\ q \in Peers
    BY BothWays
  <2>3. u.in # <<>> /\ Head(u.in) = DataFrame
    <3>1. pend[p][q] \in Seq(Frames) /\ wire[q][p] \in Seq(Frames)
      BY <2>2, SideType
    <3>2. CASE pend[p][q] # <<>>
      <4>1. /\ pend[p][q] \o wire[q][p] # <<>>
            /\ Head(pend[p][q] \o wire[q][p]) = Head(pend[p][q])
        BY <3>1, <3>2, OneQueue
      <4> QED
        BY <3>2, <4>1, <2>1 DEF Handles, Incoming
    <3>3. CASE pend[p][q] = <<>>
      <4>1. \A s \in Seq(Frames) : <<>> \o s = s
        BY ConcatEmptySeq
      <4> QED
        BY <3>1, <3>3, <4>1, <2>1 DEF Handles, Incoming
    <3> QED
      BY <3>2, <3>3
  <2>4. u.st.bound /\ u.up
    BY <2>1 DEF Handles
  <2> HIDE DEF u, v
  <2>5. u.at = 1 /\ v.at <= 1
    BY <2>1, <2>2, <2>4 DEF FirstBinding, Sound
  <2>6. Kept(u)
    BY <2>4, <2>5 DEF Kept
  <2>7. Has(u.in, DataFrame) /\ ~ReadyLeads(u.in)
    BY <2>2, <2>3, HasTail
  <2>8. u.st.ready /\ u.st.pass
    BY <2>2, <2>5, <2>6, <2>7 DEF Sound
  <2> QED
    BY <2>1, <2>2, <2>8 DEF Sound
<1> QED
  BY <1>1, LinkHolds, PTL

(* On first bindings an initiator that shares the password is never told    *)
(* "incorrect password": the response it verifies answers its own challenge *)
(* with that password.                                                      *)
THEOREM NoFalseRejectionHolds == Spec => []NoFalseRejection
<1>1. TypeOK /\ LinkInv => NoFalseRejection
  <2> SUFFICES ASSUME TypeOK, LinkInv, NEW p \in Peers, NEW q \in Others(p),
                      hs[p][q].stage = "hash", isInitiator(p, q),
                      FirstBinding(p, q), password[p] = password[q]
               PROVE  hs[p][q].held = Response(hs[p][q].nonce, password[p])
    BY DEF NoFalseRejection
  <2>1. /\ Side(p, q).st = hs[p][q] /\ Side(p, q).at = attaches[p][q]
        /\ Side(q, p).at = attaches[q][p]
    BY DEF Side
  <2>2. Asked(password[q], Side(p, q), Side(q, p))
    BY BothWays
  <2> QED
    BY <2>1, <2>2 DEF Asked, FirstBinding
<1> QED
  BY <1>1, LinkHolds, PTL

=============================================================================
