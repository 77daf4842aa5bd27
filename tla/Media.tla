------------------------------- MODULE Media -------------------------------
(***************************************************************************)
(* Tracks and their metadata (core/src/media.ts, with the owners of tracks *)
(* of shared-peer.ts), over the connection of Peer.                        *)
(*                                                                         *)
(* A room that adds a track first sends the other side a message that says *)
(* what the track is, and then adds it to the connection, unless another   *)
(* room has.  The track itself arrives by a negotiation.  Every room of    *)
(* the receiver takes a track that arrives for the one it was told of      *)
(* first and has not seen yet; a track that has arrived already is found   *)
(* again by its id.                                                        *)
(*                                                                         *)
(* Abstracted: a room adds tracks in one order, the same for all rooms, as *)
(* an app does that gives each room the tracks it has; the message is sent *)
(* and the track added in one step; the rooms are active.  Streams         *)
(* (the same, with the stream for the track), removal and replacement of   *)
(* tracks are left out.                                                    *)
(***************************************************************************)
EXTENDS Peer

CONSTANT Rooms  \* rooms the two peers share

ASSUME TracksAssumption ==
  \A p \in Plans : p.tracks \in [Ends -> [Rooms -> Tracks]]

VARIABLES
  owned,   \* owned[e][r]: how many of e's tracks room r has added
  metas,   \* metas[e][r]: pendingTrackMetas of the peer in room r
  known,   \* known[e]: remote tracks by id, in the cache of the connection
  shown    \* shown[e]: what the apps were given, as [room, track, meta]

\* What the connection goes on beside.
mediaVars == <<plan, owned, metas, known, shown>>
vars == <<plan, pc, chain, peer, relays, wire, owned, metas, known, shown>>

Meta(r, t) == [room |-> r, track |-> t]
Metas == [room : Rooms, track : 1..MaxTracks]

MediaInit ==
  /\ Init
  /\ owned = [e \in Ends |-> [r \in Rooms |-> 0]]
  /\ metas = [e \in Ends |-> [r \in Rooms |-> <<>>]]
  /\ known = [e \in Ends |-> {}]
  /\ shown = [e \in Ends |-> {}]

\* addTrack: the metadata is sent, and the first room to own the track adds it
\* to the connection.
addTrack(e, r) ==
  LET t == owned[e][r] + 1
      shouldAttach == \A q \in Rooms : owned[e][q] < t
  IN  /\ \A f \in Ends : peer[f].open
      /\ t <= plan.tracks[e][r]
      /\ owned' = [owned EXCEPT ![e][r] = t]
      /\ wire' = [wire EXCEPT ![Other(e)] = Append(@, Meta(r, t))]
      /\ pc' = IF shouldAttach THEN [pc EXCEPT ![e].added = t] ELSE pc
      /\ UNCHANGED <<chain, peer, relays, plan, metas, known, shown>>

\* Mutant of receiveTrackMeta: the cache is not asked.
receiveMetaUncached(e) ==
  /\ peer[e].open
  /\ wire[e] # <<>> /\ Head(wire[e]) \in Metas
  /\ wire' = [wire EXCEPT ![e] = Tail(@)]
  /\ metas' = [metas EXCEPT ![e][Head(wire[e]).room] =
                 Append(@, Head(wire[e]).track)]
  /\ UNCHANGED <<pc, chain, peer, relays, plan, owned, known, shown>>

\* receiveTrackMeta: the track is there already, or will be the next without
\* metadata.
receiveTrackMeta(e) ==
  /\ peer[e].open
  /\ wire[e] # <<>> /\ Head(wire[e]) \in Metas
  /\ wire' = [wire EXCEPT ![e] = Tail(@)]
  /\ LET m == Head(wire[e])
     IN  IF m.track \in known[e]
           THEN /\ shown' = [shown EXCEPT ![e] = @ \union
                     {[room |-> m.room, track |-> m.track, meta |-> m.track]}]
                /\ UNCHANGED metas
           ELSE /\ metas' = [metas EXCEPT ![e][m.room] = Append(@, m.track)]
                /\ UNCHANGED shown
  /\ UNCHANGED <<pc, chain, peer, relays, plan, owned, known>>

\* Mutant of receiveRemoteTrack: the room takes what it was told of last.
receiveNewest(e, new) ==
  LET told == {r \in Rooms : metas[e][r] # <<>> /\ new # {}}
  IN  /\ shown' = [shown EXCEPT ![e] = @ \union
            {[room |-> r, track |-> t,
              meta |-> metas[e][r][Len(metas[e][r])]] : r \in told, t \in new}]
      /\ known' = [known EXCEPT ![e] = IF told = {} THEN @ ELSE @ \union new]
      /\ metas' = [metas EXCEPT ![e] = [r \in Rooms |->
            IF r \in told THEN SubSeq(metas[e][r], 1, Len(metas[e][r]) - 1)
                          ELSE metas[e][r]]]

\* dispatchTrack and receiveRemoteTrack, for the tracks that are new: the k-th
\* of them is taken by the rooms that have been told of k tracks.
receiveRemoteTrack(e, new) ==
  LET first == CHOOSE t \in new : \A u \in new : t <= u
      nth(t) == t - first + 1
      told(r, t) == nth(t) <= Len(metas[e][r])
  IN  IF new = {}
        THEN UNCHANGED <<metas, known, shown>>
        ELSE /\ shown' = [shown EXCEPT ![e] = @ \union
                  {[room |-> x[1], track |-> x[2],
                    meta |-> metas[e][x[1]][nth(x[2])]] :
                     x \in {y \in Rooms \X new : told(y[1], y[2])}}]
             /\ known' = [known EXCEPT ![e] = @ \union
                  {t \in new : \E r \in Rooms : told(r, t)}]
             /\ metas' = [metas EXCEPT ![e] = [r \in Rooms |->
                  SubSeq(metas[e][r], Cardinality(new) + 1,
                         Len(metas[e][r]))]]

\* The browser goes on with e's operations, and the tracks this brings.
negotiate(e) ==
  /\ complete(e)
  /\ receiveRemoteTrack(e, {t \in 1..MaxTracks :
                              pc[e].arrived < t /\ t <= pc'[e].arrived})
  /\ UNCHANGED <<plan, owned>>

Next ==
  \E e \in Ends :
    \/ negotiate(e)
    \/ createOffer(e) /\ UNCHANGED mediaVars
    \/ renewOffer(e) /\ UNCHANGED mediaVars
    \/ sendOffer(e) /\ UNCHANGED mediaVars
    \/ onicecandidate(e) /\ UNCHANGED mediaVars
    \/ relayed(e) /\ UNCHANGED mediaVars
    \/ openChannel(e) /\ UNCHANGED mediaVars
    \/ signalled(e) /\ UNCHANGED mediaVars
    \/ receiveTrackMeta(e)
    \/ \E r \in Rooms : addTrack(e, r)

Spec == MediaInit /\ [][Next]_vars

\* The browser, the relays and the channel get on with what they have to do,
\* and the offer is handed out some day.  Nobody has to add a track.
Fairness ==
  \A e \in Ends :
    /\ WF_vars(negotiate(e)) /\ WF_vars(receiveTrackMeta(e))
    /\ WF_vars(createOffer(e) /\ UNCHANGED mediaVars)
    /\ WF_vars(sendOffer(e) /\ UNCHANGED mediaVars)
    /\ WF_vars(onicecandidate(e) /\ UNCHANGED mediaVars)
    /\ WF_vars(relayed(e) /\ UNCHANGED mediaVars)
    /\ WF_vars(openChannel(e) /\ UNCHANGED mediaVars)
    /\ WF_vars(signalled(e) /\ UNCHANGED mediaVars)

FairSpec == Spec /\ Fairness

\* The state of the connection, and that of the tracks, have their types.
TypeOK ==
  /\ PeerTypeOK
  /\ owned \in [Ends -> [Rooms -> Tracks]]
  /\ \A e \in Ends : known[e] \subseteq 1..MaxTracks
  /\ \A e \in Ends, r \in Rooms : Len(metas[e][r]) <= MaxTracks

\* The metadata an app is given with a track is what was sent with it.
MetadataFits ==
  \A e \in Ends : \A x \in shown[e] : x.meta = x.track

\* The connection opens; and every track that is added in a room is shown in
\* that room on the other side, however the negotiations of the two ends
\* cross.
Opens == \A e \in Ends : <>peer[e].open
TracksShown ==
  \A e \in Ends, r \in Rooms, t \in 1..MaxTracks :
    owned[e][r] >= t
      ~> [room |-> r, track |-> t, meta |-> t] \in shown[Other(e)]
=============================================================================
