-------------------------------- MODULE Peer --------------------------------
(***************************************************************************)
(* The two ends of one RTCPeerConnection (core/src/peer.ts): how they come *)
(* to agree on a session, and how they agree anew when one of them, or     *)
(* both at once, has tracks to add.                                        *)
(*                                                                         *)
(* The browser does what it is told in order: every call of an end that    *)
(* changes its descriptions or candidates joins its chain of operations    *)
(* and takes effect when its turn comes, and the handler that made the     *)
(* call goes on then.  What a handler reads before a call may have changed *)
(* by the time of its effect.                                              *)
(*                                                                         *)
(* Until the data channel is open, signals travel over relays, in any      *)
(* order; from then on over the channel itself, in order, as messages of   *)
(* the room that signals for the connection (room.ts, onPeer).             *)
(*                                                                         *)
(* The initiator comes from the pool of offers, where its offer may have   *)
(* been renewed: its ICE generation is then another, and candidates of the *)
(* old one are of no use any more.                                         *)
(*                                                                         *)
(* Abstracted: of a description, its type, its ICE generation, how many    *)
(* tracks its author sends by it and how many media sections it has;       *)
(* tracks are of one kind, so that an end's k-th track has the k-th        *)
(* section.  There is a candidate to a generation, and candidates are sent *)
(* as they come (trickleIce).  The relays are those of a peer whose room   *)
(* leads (Signaling has the others); the handshake of the rooms is over as *)
(* soon as the channel is open (Admission has it).                         *)
(***************************************************************************)
EXTENDS Naturals, SequencesExt

CONSTANTS
  MaxTracks,    \* tracks an end ever adds (bound)
  MaxRenewals,  \* how often the offer is renewed in the pool (bound)
  Plans         \* how often it may be, and what tracks may be added

ASSUME BoundsAssumption == MaxTracks \in Nat /\ MaxRenewals \in Nat
ASSUME RenewalsAssumption == \A p \in Plans : p.renewals \in 0..MaxRenewals

VARIABLES
  plan,    \* one of Plans, the same all along
  pc,      \* pc[e]: what the browser of e has
  chain,   \* chain[e]: the operations the browser of e has yet to do
  peer,    \* peer[e]: what e's PeerHandle keeps, and what is kept for it
  relays,  \* signals on their way over relays
  wire     \* wire[e]: what is on its way to e over the data channel


-----------------------------------------------------------------------------
Initiator == "initiator"
Responder == "responder"
Ends == {Initiator, Responder}
Other(e) == CHOOSE f \in Ends : f # e

Tracks == 0..MaxTracks
Generations == 1..MaxRenewals + 1
NoGeneration == 0

\* generation: that of the end's own descriptions; remote: that of the other
\* end's, NoGeneration when there is no remote description.  sending: the
\* tracks of the local description in force; offering: those of the one that
\* is being offered.  sections: the media sections agreed on; arrived: the
\* tracks that were received; added: the tracks to be sent.  needed: whether
\* the browser has asked for a negotiation since it was last stable.
Connections ==
  [state : {"stable", "have-local-offer", "have-remote-offer"},
   generation : Generations, remote : Generations \union {NoGeneration},
   sending : Tracks, offering : Tracks,
   sections : Tracks, arrived : Tracks, added : Tracks, needed : BOOLEAN]

\* held: the generations of pendingRemoteCandidates; buffered: those of
\* candidates that came before the offer; gathered: those of its own
\* candidates; applied: whether the browser has a candidate of the other end.
\* wanted: whether the PeerHandle is out of the pool, or made for an offer.
PeerHandles ==
  [makingOffer : BOOLEAN, isSettingRemoteAnswerPending : BOOLEAN,
   held : SUBSET Generations, buffered : SUBSET Generations,
   gathered : SUBSET Generations, applied : BOOLEAN, wanted : BOOLEAN,
   open : BOOLEAN, failed : BOOLEAN]

Signal(type, generation, tracks, sections) ==
  [type |-> type, generation |-> generation, tracks |-> tracks,
   sections |-> sections]
Candidate(g) == Signal("candidate", g, 0, 0)
Signals ==
  [type : {"offer", "answer", "candidate"}, generation : Generations,
   tracks : Tracks, sections : Tracks]

\* An operation, and the handler that waits for it: "offer" or "answer" for
\* peer.signal with one, "create" for createOffer, "restart" for that with
\* restartIce, "none" for a candidate that came by itself.
Op(do, s, for) == [do |-> do, signal |-> s, for |-> for]
Local(for) == Op("local", Candidate(1), for)
Rollback(for) == Op("rollback", Candidate(1), for)
Operations ==
  [do : {"local", "rollback", "remote", "candidate"}, signal : Signals,
   for : {"offer", "answer", "create", "restart", "none"}]

Larger(m, n) == IF m > n THEN m ELSE n
Smaller(m, n) == IF m < n THEN m ELSE n

Init ==
  /\ plan \in Plans
  /\ pc = [e \in Ends |->
             [state |-> "stable", generation |-> 1,
              remote |-> NoGeneration, sending |-> 0, offering |-> 0,
              sections |-> 0, arrived |-> 0, added |-> 0,
              needed |-> FALSE]]
  /\ chain = [e \in Ends |-> <<>>]
  /\ peer = [e \in Ends |->
               [makingOffer |-> FALSE,
                isSettingRemoteAnswerPending |-> FALSE, held |-> {},
                buffered |-> {}, gathered |-> {}, applied |-> FALSE,
                wanted |-> FALSE, open |-> FALSE, failed |-> FALSE]]
  /\ relays = {}
  /\ wire = [e \in Ends |-> <<>>]

-----------------------------------------------------------------------------
\* emitSignal: until the peer is wanted, the initiator's only handler is that of
\* offerPromise, which has no use for candidates, and they are lost.  Then to
\* the signal handlers, and so to a relay; and to the room, and so over the
\* channel, once it is open.
emitSignal(e, s) ==
  /\ relays' = IF peer[e].wanted /\ ~peer[e].open
                 THEN relays \union {<<Other(e), s>>}
                 ELSE relays
  /\ wire' = IF peer[e].open
               THEN [wire EXCEPT ![Other(e)] = Append(@, s)]
               ELSE wire

\* The session lacks the data channel, or tracks of e.
NeedsNegotiation(e) ==
  \/ e = Initiator /\ pc[e].remote = NoGeneration
  \/ pc[e].added > pc[e].sending

\* onnegotiationneeded, and the microtask of the initiator that anticipates
\* it: createOffer(false).
createOffer(e) ==
  /\ pc[e].state = "stable" /\ chain[e] = <<>> /\ ~pc[e].needed
  /\ NeedsNegotiation(e)
  /\ pc' = [pc EXCEPT ![e].needed = TRUE]
  /\ peer' = [peer EXCEPT ![e].makingOffer = TRUE]
  /\ chain' = [chain EXCEPT ![e] = <<Local("create")>>]
  /\ UNCHANGED <<relays, wire>>

\* getOffer(true): the pool renews an offer that nobody has answered.
renewOffer(e) ==
  /\ ~peer[e].wanted
  /\ pc[e].state = "have-local-offer" /\ chain[e] = <<>>
  /\ pc[e].generation <= plan.renewals
  /\ peer' = [peer EXCEPT ![e].makingOffer = TRUE]
  /\ chain' = [chain EXCEPT ![e] = <<Rollback("restart")>>]
  /\ UNCHANGED <<pc, relays, wire>>

\* ensureOffer: the pool hands the peer out and its offer is sent, which is the
\* local description as it was read: with the candidate found before, which here
\* goes as a signal of its own, or without one found since, which is lost.
sendOffer(e) ==
  /\ ~peer[e].wanted
  /\ pc[e].state = "have-local-offer" /\ chain[e] = <<>>
  /\ peer' = [peer EXCEPT ![e].wanted = TRUE]
  /\ \E described \in SUBSET (peer[e].gathered \intersect {pc[e].generation}) :
       relays' = relays
         \union {<<Other(e), Signal("offer", pc[e].generation, 0, 0)>>}
         \union {<<Other(e), Candidate(g)>> : g \in described}
  /\ UNCHANGED <<pc, chain, wire>>

\* Whether the browser knows the generation of a candidate.
canApplyRemoteCandidate(e, g) == pc[e].remote = g

\* Mutant of Settled: the flag stays.
neverSettled(e, for) == peer

\* What peer.signal does when the candidates are flushed: an answer is made to
\* an offer, and an answer is settled.
Settled(e, for) ==
  IF for = "answer"
    THEN [peer EXCEPT ![e].isSettingRemoteAnswerPending = FALSE]
    ELSE peer
Then(e, for) == IF for = "offer" THEN <<Local("offer")>> ELSE <<>>

\* Mutant of flushPendingRemoteCandidates: they stay where they are.
flushNothing(e, remote, for) ==
  /\ chain' = [chain EXCEPT ![e] = Tail(@) \o Then(e, for)]
  /\ peer' = Settled(e, for)

\* flushPendingRemoteCandidates, with a new remote description: those it
\* admits are applied, the others are kept.
flushPendingRemoteCandidates(e, remote, for) ==
  IF remote \in peer[e].held
    THEN /\ chain' = [chain EXCEPT ![e] =
              Append(Tail(@), Op("candidate", Candidate(remote), for))]
         /\ peer' = [peer EXCEPT ![e].held = @ \ {remote}]
    ELSE /\ chain' = [chain EXCEPT ![e] = Tail(@) \o Then(e, for)]
         /\ peer' = Settled(e, for)

\* An operation the browser rejects: the handler reports an error, which ends
\* the connection.
reject(e) ==
  /\ peer' = [peer EXCEPT ![e].failed = TRUE]
  /\ chain' = [chain EXCEPT ![e] = <<>>]
  /\ UNCHANGED <<pc, relays, wire>>

\* addRemoteCandidate, for each of some candidates.
Add(e, candidates) ==
  LET now == {g \in candidates : canApplyRemoteCandidate(e, g)}
  IN  <<SetToSeq({Op("candidate", Candidate(g), "none") : g \in now}),
        candidates \ now>>

\* setLocalDescription(), which makes an offer or an answer as the state has
\* it; createOffer that restarts ICE has had an offer made.  The description
\* is emitted, whoever asked for it, and makingOffer ends with createOffer.
\* Once the first offer is answered, the candidates that came before it are
\* added (flushBufferedCandidates).
setLocalDescription(e) ==
  LET op == Head(chain[e])
      offers == pc[e].state # "have-remote-offer"
      generation == pc[e].generation + (IF op.for = "restart" THEN 1 ELSE 0)
      tracks == IF offers THEN pc[e].added
                          ELSE Smaller(pc[e].added, pc[e].sections)
      sections == IF offers THEN Larger(pc[e].sections, pc[e].added)
                            ELSE pc[e].sections
      buffered == IF op.for = "offer" THEN peer[e].buffered ELSE {}
  IN  /\ op.do = "local"
      /\ pc' = [pc EXCEPT ![e] =
           IF offers
             THEN [pc[e] EXCEPT !.state = "have-local-offer",
                                !.generation = generation,
                                !.offering = tracks]
             ELSE [pc[e] EXCEPT !.state = "stable", !.sending = tracks,
                                !.needed = FALSE]]
      /\ emitSignal(e, Signal(IF offers THEN "offer" ELSE "answer",
                              generation, tracks, sections))
      /\ peer' = [peer EXCEPT
           ![e].makingOffer = @ /\ op.for \notin {"create", "restart"},
           ![e].buffered = @ \ buffered,
           ![e].held = @ \union Add(e, buffered)[2]]
      /\ chain' = [chain EXCEPT ![e] = Tail(@) \o Add(e, buffered)[1]]

rollback(e) ==
  /\ Head(chain[e]).do = "rollback"
  /\ IF pc[e].state = "stable"
       THEN reject(e)
       ELSE /\ pc' = [pc EXCEPT ![e].state = "stable", ![e].needed = FALSE]
            /\ chain' = [chain EXCEPT ![e] = Tail(@) \o
                 (IF Head(@).for = "restart" THEN <<Local("restart")>>
                                             ELSE <<>>)]
            /\ UNCHANGED <<peer, relays, wire>>

\* setRemoteDescription, with the ontrack events of the tracks that are new.
\* An offer takes the place of one's own.
setRemoteDescription(e) ==
  LET op == Head(chain[e])
      d == op.signal
      described == [pc[e] EXCEPT !.remote = d.generation,
                                 !.sections = Larger(@, d.sections),
                                 !.arrived = Larger(@, d.tracks)]
  IN  /\ op.do = "remote"
      /\ IF d.type = "answer" /\ pc[e].state # "have-local-offer"
           THEN reject(e)
           ELSE /\ pc' = [pc EXCEPT ![e] =
                     IF d.type = "offer"
                       THEN [described EXCEPT !.state = "have-remote-offer"]
                       ELSE [described EXCEPT !.state = "stable",
                                              !.sending = pc[e].offering,
                                              !.needed = FALSE]]
                /\ flushPendingRemoteCandidates(e, d.generation, op.for)
                /\ UNCHANGED <<relays, wire>>

\* addIceCandidate, of a generation the browser knows.
addIceCandidate(e) ==
  LET op == Head(chain[e])
  IN  /\ op.do = "candidate"
      /\ IF op.signal.generation # pc[e].remote
           THEN reject(e)
           ELSE /\ chain' = [chain EXCEPT ![e] = Tail(@) \o Then(e, op.for)]
                /\ peer' = [Settled(e, op.for) EXCEPT ![e].applied = TRUE]
                /\ UNCHANGED <<pc, relays, wire>>

\* The browser has done the first operation of its chain.
complete(e) ==
  /\ chain[e] # <<>>
  /\ \/ setLocalDescription(e) \/ rollback(e)
     \/ setRemoteDescription(e) \/ addIceCandidate(e)

-----------------------------------------------------------------------------
\* onicecandidate, once there is a local description to gather for.
onicecandidate(e) ==
  /\ pc[e].generation \notin peer[e].gathered
  /\ \/ pc[e].state = "have-local-offer"
     \/ pc[e].state = "stable" /\ pc[e].remote # NoGeneration
  /\ peer' = [peer EXCEPT ![e].gathered = @ \union {pc[e].generation}]
  /\ emitSignal(e, Candidate(pc[e].generation))
  /\ UNCHANGED <<pc, chain>>

\* Mutant of signalOffer: offers that cross are taken, whoever made the other.
offerNeverIgnored(e, s) ==
  /\ s.type = "offer"
  /\ LET collides == \/ peer[e].makingOffer
                     \/ /\ pc[e].state # "stable"
                        /\ ~peer[e].isSettingRemoteAnswerPending
     IN  chain' = [chain EXCEPT ![e] = @ \o
           (IF collides THEN <<Rollback("offer")>> ELSE <<>>)
              \o <<Op("remote", s, "offer")>>]
  /\ UNCHANGED peer

\* peer.signal with an offer: when it crosses one's own the initiator ignores
\* it, and the other gives its own up.
signalOffer(e, s) ==
  /\ s.type = "offer"
  /\ LET collides == \/ peer[e].makingOffer
                     \/ /\ pc[e].state # "stable"
                        /\ ~peer[e].isSettingRemoteAnswerPending
     IN  chain' = [chain EXCEPT ![e] = @ \o
           CASE ~collides -> <<Op("remote", s, "offer")>>
             [] collides /\ e = Initiator -> <<>>
             [] collides /\ e = Responder ->
                  <<Rollback("offer"), Op("remote", s, "offer")>>]
  /\ UNCHANGED peer

\* peer.signal with an answer.
signalAnswer(e, s) ==
  /\ s.type = "answer"
  /\ chain' = [chain EXCEPT ![e] = Append(@, Op("remote", s, "answer"))]
  /\ peer' = [peer EXCEPT ![e].isSettingRemoteAnswerPending = TRUE]

\* peer.signal with a candidate: addRemoteCandidate.
signalCandidate(e, s) ==
  /\ s.type = "candidate"
  /\ chain' = [chain EXCEPT ![e] = @ \o Add(e, {s.generation})[1]]
  /\ peer' = [peer EXCEPT ![e].held = @ \union Add(e, {s.generation})[2]]

signal(e, s) ==
  signalOffer(e, s) \/ signalAnswer(e, s) \/ signalCandidate(e, s)

\* A relay delivers a signal.  The offer makes the responder's PeerHandle;
\* what comes before it is kept (handleCandidate), and what comes when the
\* peers are connected is ignored.
relayed(e) ==
  \E m \in relays :
    /\ m[1] = e
    /\ relays' = relays \ {m}
    /\ \/ /\ peer[e].open
          /\ UNCHANGED <<chain, peer>>
       \/ /\ ~peer[e].open /\ peer[e].wanted
          /\ signal(e, m[2])
       \/ /\ ~peer[e].wanted /\ m[2].type = "candidate"
          /\ peer' = [peer EXCEPT ![e].buffered = @ \union {m[2].generation}]
          /\ UNCHANGED chain
       \/ /\ ~peer[e].wanted /\ m[2].type = "offer"
          /\ peer' = [peer EXCEPT ![e].wanted = TRUE]
          /\ chain' = [chain EXCEPT ![e] = <<Op("remote", m[2], "offer")>>]
    /\ UNCHANGED <<pc, wire>>

\* A message of the room that signals for the connection.  A description
\* without media says nothing new.
signalled(e) ==
  /\ peer[e].open
  /\ wire[e] # <<>> /\ Head(wire[e]) \in Signals
  /\ wire' = [wire EXCEPT ![e] = Tail(@)]
  /\ IF Head(wire[e]).type # "candidate" /\ Head(wire[e]).sections = 0
       THEN UNCHANGED <<chain, peer>>
       ELSE signal(e, Head(wire[e]))
  /\ UNCHANGED <<pc, relays>>

\* The data channel opens: the ends have each other's description, and one has
\* a candidate of the other.
openChannel(e) ==
  /\ ~peer[e].open
  /\ \A f \in Ends : pc[f].remote # NoGeneration
  /\ \E f \in Ends : peer[f].applied
  /\ peer' = [peer EXCEPT ![e].open = TRUE]
  /\ UNCHANGED <<pc, chain, relays, wire>>

-----------------------------------------------------------------------------
\* The state has its type, and the flags that tell whether offers cross are
\* up only while the browser is at work.
PeerTypeOK ==
  /\ pc \in [Ends -> Connections]
  /\ peer \in [Ends -> PeerHandles]
  /\ \A e \in Ends : \A i \in DOMAIN chain[e] : chain[e][i] \in Operations
  /\ relays \subseteq Ends \X Signals
  /\ \A e \in Ends :
       peer[e].makingOffer \/ peer[e].isSettingRemoteAnswerPending
         => chain[e] # <<>>

\* No description is ever applied in a state that does not admit it: the
\* browser would reject it, the error would have the room give the peer up,
\* and the other end would go on as if nothing had happened.
NeverRejected == \A e \in Ends : ~peer[e].failed
=============================================================================
