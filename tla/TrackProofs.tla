---------------------------- MODULE TrackProofs ----------------------------
(***************************************************************************)
(* Proofs about the tracks on a connection and their metadata, for any     *)
(* number of rooms and tracks and any plan of who adds what.               *)
(*                                                                         *)
(* MetadataFits is about two streams: the metadata come over the channel,  *)
(* the tracks by negotiation, and a room matches the two by their order    *)
(* alone.  That the orders agree is the invariant, TracksInv: what a room  *)
(* was told of and waits for are the tracks that come next (Told), what it *)
(* was not told of is on its way in order (Increasing), and a description  *)
(* with a track never overtakes the metadata of that track (Follows).      *)
(***************************************************************************)
EXTENDS MediaProofs

-----------------------------------------------------------------------------
(* Where a room of e is with the tracks it was told of; the numbers of tracks *)
(* that have arrived, or that some room was told of. *)
Top(e, r) == pc[e].arrived + Len(metas[e][r])
Reached(e) == {n \in Nat : \/ n <= pc[e].arrived
                           \/ \E r \in Rooms : n <= Top(e, r)}

(* The metadata of a room's tracks travel in their order, *)
Increasing(w) ==
  \A i, j \in DOMAIN w :
    w[i] \in Metas /\ w[j] \in Metas /\ w[i].room = w[j].room /\ i < j
      => w[i].track < w[j].track

(* and those of a track before any description that has it. *)
Follows(w, reached) ==
  \A i \in DOMAIN w : w[i] \in Signals =>
    \/ w[i].tracks \in reached
    \/ \E j \in DOMAIN w, r \in Rooms : j < i /\ w[j] = Meta(r, w[i].tracks)

(* What room r of e was told and waits for is what comes next; of the tracks *)
(* the room has on the other side, the metadata of the others are on their   *)
(* way. *)
Told(e, r) ==
  /\ \A k \in DOMAIN metas[e][r] : metas[e][r][k] = pc[e].arrived + k
  /\ metas[e][r] # <<>> => Top(e, r) <= owned[Other(e)][r]
  /\ \A x \in ToSet(wire[e]) : x \in Metas /\ x.room = r =>
       /\ x.track <= owned[Other(e)][r]
       /\ x.track <= pc[e].arrived \/ x.track > Top(e, r)
  /\ \A u \in Nat : Top(e, r) < u /\ u <= owned[Other(e)][r]
       => Meta(r, u) \in ToSet(wire[e])

(* The connection has the tracks of the room that has most. *)
Owning(e) ==
  /\ \A r \in Rooms : owned[e][r] <= pc[e].added
  /\ pc[e].added > 0 => \E r \in Rooms : owned[e][r] = pc[e].added

TracksTyped ==
  /\ metas \in [Ends -> [Rooms -> Seq(Nat)]]
  /\ known \in [Ends -> SUBSET Nat]
  /\ shown \in [Ends -> SUBSET [room : Rooms, track : Nat, meta : Nat]]

TracksInv ==
  /\ PeerInv /\ TracksTyped
  /\ \A e \in Ends :
       /\ known[e] = 1..pc[e].arrived
       /\ Increasing(wire[e]) /\ Follows(wire[e], Reached(e))
       /\ Owning(e)
       /\ \A r \in Rooms : Told(e, r)
       /\ \A o \in ToSet(chain[e]) :
            o.do = "remote" => o.signal.tracks \in Reached(e)
  /\ \A m \in relays : m[2].tracks = 0
  /\ MetadataFits

-----------------------------------------------------------------------------
\* There is nothing before an empty sequence's end.
LEMMA TracksSilence ==
  /\ Increasing(<<>>) /\ \A reached : Follows(<<>>, reached)
<1>1. DOMAIN <<>> = {}
  OBVIOUS
<1> QED  BY <1>1 DEF Increasing, Follows

\* What Meta is.
LEMMA MetaIs ==
  /\ \A r, t : Meta(r, t).room = r /\ Meta(r, t).track = t
  /\ \A r \in Rooms, t \in 1..MaxTracks : Meta(r, t) \in Metas
  /\ \A x \in Metas : /\ x.room \in Rooms /\ x.track \in Nat /\ x.track > 0
                      /\ x = Meta(x.room, x.track)
<1>1. \A x \in Metas : /\ x.room \in Rooms /\ x.track \in 1..MaxTracks
                       /\ x = Meta(x.room, x.track)
  BY DEF Metas, Meta
<1>2. \A t \in 1..MaxTracks : t \in Nat /\ t > 0
  BY BoundsAssumption
<1> QED  BY <1>1, <1>2 DEF Metas, Meta

\* A message is read: the others stay in order;
LEMMA IncreasingRead ==
  ASSUME NEW w \in Seq(Messages), w # <<>>, Increasing(w)
  PROVE  /\ Increasing(Tail(w))
         /\ ToSet(w) = ToSet(Tail(w)) \union {Head(w)}
         /\ Head(w) \in Metas => \A x \in ToSet(Tail(w)) :
              x \in Metas /\ x.room = Head(w).room => Head(w).track < x.track
<1> DEFINE v == Tail(w)
<1>1. /\ Len(w) \in Nat /\ Len(w) >= 1 /\ DOMAIN w = 1..Len(w)
      /\ DOMAIN v = 1..(Len(w) - 1) /\ Head(w) = w[1]
      /\ \A i \in 1..(Len(w) - 1) : v[i] = w[i + 1]
  BY Shorter
<1> HIDE DEF v
<1>2. \A i \in DOMAIN v : i \in Nat /\ i + 1 \in DOMAIN w /\ v[i] = w[i + 1] /\ 1 < i + 1
  BY <1>1
<1>3. \A i, j \in DOMAIN v : i < j => i + 1 < j + 1
  BY <1>2
<1>4. Increasing(v)
  BY <1>2, <1>3 DEF Increasing
<1>5. ToSet(w) = ToSet(v) \union {w[1]}
  <2>1. \A i \in DOMAIN w : i = 1 \/ (i - 1 \in DOMAIN v /\ v[i - 1] = w[i])
    BY <1>1
  <2>2. 1 \in DOMAIN w
    BY <1>1
  <2> QED  BY <1>2, <2>1, <2>2 DEF ToSet
<1>6. ASSUME w[1] \in Metas, NEW x \in ToSet(v), x \in Metas, x.room = w[1].room
      PROVE  w[1].track < x.track
  <2>1. PICK i \in DOMAIN v : x = v[i]
    BY DEF ToSet
  <2>2. 1 \in DOMAIN w
    BY <1>1
  <2> QED  BY <1>2, <1>6, <2>1, <2>2 DEF Increasing
<1> QED  BY <1>1, <1>4, <1>5, <1>6 DEF v

\* and what a description needs is read before it.
LEMMA FollowsRead ==
  ASSUME NEW w \in Seq(Messages), w # <<>>, NEW reached, NEW reached2,
         reached \subseteq reached2, Follows(w, reached),
         Head(w) \in Metas => Head(w).track \in reached2
  PROVE  /\ Follows(Tail(w), reached2)
         /\ Head(w) \in Signals => Head(w).tracks \in reached
<1> DEFINE v == Tail(w)
<1>1. /\ Len(w) \in Nat /\ Len(w) >= 1 /\ DOMAIN w = 1..Len(w)
      /\ DOMAIN v = 1..(Len(w) - 1) /\ Head(w) = w[1]
      /\ \A i \in 1..(Len(w) - 1) : v[i] = w[i + 1]
      /\ w[1] \in Messages
  BY Shorter
<1> HIDE DEF v
<1>2. ASSUME NEW i \in DOMAIN v, v[i] \in Signals, v[i].tracks \notin reached2
      PROVE  \E j \in DOMAIN v, r \in Rooms : j < i /\ v[j] = Meta(r, v[i].tracks)
  <2>1. i + 1 \in DOMAIN w /\ v[i] = w[i + 1]
    BY <1>1
  <2>2. PICK j \in DOMAIN w, r \in Rooms : j < i + 1 /\ w[j] = Meta(r, v[i].tracks)
    BY <1>2, <2>1 DEF Follows
  <2>3. CASE j = 1
    <3>1. w[1] \notin Signals
      <4>1. \A x \in Signals : DOMAIN x = {"type", "generation", "tracks", "sections"}
        BY DEF Signals
      <4>2. DOMAIN w[1] = {"room", "track"}
        BY <2>2, <2>3 DEF Meta
      <4> QED  BY <4>1, <4>2
    <3>2. w[1] \in Metas /\ w[1].track = v[i].tracks
      BY <1>1, <2>2, <2>3, <3>1, MetaIs DEF Messages
    <3> QED  BY <1>1, <1>2, <3>2
  <2>4. CASE j # 1
    <3>1. j - 1 \in DOMAIN v /\ v[j - 1] = w[j] /\ j - 1 < i
      BY <1>1, <2>2, <2>4
    <3> QED  BY <2>2, <3>1
  <2> QED  BY <2>3, <2>4
<1>3. ASSUME w[1] \in Signals
      PROVE  w[1].tracks \in reached
  <2>1. 1 \in DOMAIN w /\ \A j \in DOMAIN w : ~(j < 1)
    BY <1>1
  <2> QED  BY <1>3, <2>1 DEF Follows
<1> QED  BY <1>1, <1>2, <1>3 DEF Follows, v

\* A message is sent: metadata are of a later track than those before;
LEMMA IncreasingSent ==
  ASSUME NEW w \in Seq(Messages), NEW x \in Messages, Increasing(w),
         x \in Metas => \A y \in ToSet(w) :
           y \in Metas /\ y.room = x.room => y.track < x.track
  PROVE  Increasing(Append(w, x))
<1> DEFINE v == Append(w, x)
<1>1. /\ Len(w) \in Nat /\ DOMAIN w = 1..Len(w)
      /\ DOMAIN v = 1..(Len(w) + 1)
      /\ \A i \in 1..Len(w) : v[i] = w[i]
      /\ v[Len(w) + 1] = x
  BY Longer
<1> HIDE DEF v
<1>2. \A i, j \in DOMAIN v : i < j =>
        i \in DOMAIN w /\ v[i] = w[i] /\ v[i] \in ToSet(w)
        /\ (j = Len(w) + 1 \/ (j \in DOMAIN w /\ v[j] = w[j]))
  BY <1>1 DEF ToSet
<1> QED  BY <1>1, <1>2 DEF Increasing, v

\* and a description has no track that was not told before.
LEMMA FollowsSent ==
  ASSUME NEW w \in Seq(Messages), NEW x \in Messages, NEW reached, Follows(w, reached),
         x \in Signals => \/ x.tracks \in reached
                          \/ \E r \in Rooms : Meta(r, x.tracks) \in ToSet(w)
  PROVE  Follows(Append(w, x), reached)
<1> DEFINE v == Append(w, x)
<1>1. /\ Len(w) \in Nat /\ DOMAIN w = 1..Len(w)
      /\ DOMAIN v = 1..(Len(w) + 1)
      /\ \A i \in 1..Len(w) : v[i] = w[i]
      /\ v[Len(w) + 1] = x
  BY Longer
<1> HIDE DEF v
<1>2. ASSUME NEW i \in DOMAIN v, v[i] \in Signals, v[i].tracks \notin reached
      PROVE  \E j \in DOMAIN v, r \in Rooms : j < i /\ v[j] = Meta(r, v[i].tracks)
  <2>1. \A j \in DOMAIN w : j \in DOMAIN v /\ v[j] = w[j] /\ j < Len(w) + 1
    BY <1>1
  <2>2. CASE i = Len(w) + 1
    <3>1. PICK r \in Rooms : Meta(r, x.tracks) \in ToSet(w)
      BY <1>1, <1>2, <2>2
    <3>2. PICK j \in DOMAIN w : w[j] = Meta(r, x.tracks)
      BY <3>1 DEF ToSet
    <3> QED  BY <1>1, <2>1, <2>2, <3>2
  <2>3. CASE i # Len(w) + 1
    <3>1. i \in DOMAIN w /\ v[i] = w[i]
      BY <1>1, <2>3
    <3> QED  BY <1>2, <2>1, <3>1 DEF Follows
  <2> QED  BY <2>2, <2>3
<1> QED  BY <1>2 DEF Follows, v

\* Of two chains in one.
LEMMA Joint ==
  ASSUME NEW S, NEW s \in Seq(S), NEW t \in Seq(S)
  PROVE  ToSet(s \o t) \subseteq ToSet(s) \union ToSet(t)
<1>1. /\ Len(s) \in Nat /\ Len(t) \in Nat
      /\ DOMAIN s = 1..Len(s) /\ DOMAIN t = 1..Len(t)
      /\ DOMAIN (s \o t) = 1..(Len(s) + Len(t))
      /\ \A i \in 1..(Len(s) + Len(t)) :
           (s \o t)[i] = IF i <= Len(s) THEN s[i] ELSE t[i - Len(s)]
  OBVIOUS
<1>2. \A i \in DOMAIN (s \o t) :
        \/ i \in DOMAIN s /\ (s \o t)[i] = s[i]
        \/ i - Len(s) \in DOMAIN t /\ (s \o t)[i] = t[i - Len(s)]
  BY <1>1
<1> QED  BY <1>2 DEF ToSet

\* What is on a chain of one, or none.
LEMMA FewOf ==
  ASSUME NEW S, NEW x \in S
  PROVE  /\ <<>> \in Seq(S) /\ ToSet(<<>>) = {}
         /\ <<x>> \in Seq(S) /\ ToSet(<<x>>) = {x}
<1>1. DOMAIN <<>> = {} /\ DOMAIN <<x>> = {1} /\ <<x>>[1] = x
  OBVIOUS
<1> QED  BY <1>1 DEF ToSet

-----------------------------------------------------------------------------
\* What follows from the types.
TrackFacts(f) ==
  /\ pc[f].arrived \in Nat /\ pc[f].added \in Nat
  /\ wire[f] \in Seq(Messages)
  /\ \A r \in Rooms : /\ metas[f][r] \in Seq(Nat) /\ Len(metas[f][r]) \in Nat
                      /\ Top(f, r) \in Nat /\ Top(f, r) >= pc[f].arrived
                      /\ owned[f][r] \in Nat /\ owned[f][r] <= MaxTracks

LEMMA TrackTypes ==
  ASSUME TracksInv
  PROVE  \A f \in Ends : TrackFacts(f)
<1> TAKE f \in Ends
<1>1. /\ pc[f] \in Connections /\ wire[f] \in Seq(Messages)
      /\ \A r \in Rooms : metas[f][r] \in Seq(Nat) /\ owned[f][r] \in Tracks
  BY DEF TracksInv, TracksTyped, PeerInv, Typed
<1>2. pc[f].arrived \in Nat /\ pc[f].added \in Nat
  BY <1>1, BoundsAssumption DEF Connections, Tracks
<1>3. \A r \in Rooms : owned[f][r] \in Nat /\ owned[f][r] <= MaxTracks
  BY <1>1, BoundsAssumption DEF Tracks
<1>4. \A r \in Rooms : metas[f][r] \in Seq(Nat) /\ Len(metas[f][r]) \in Nat
  BY <1>1
<1>5. \A r \in Rooms : Top(f, r) \in Nat /\ Top(f, r) >= pc[f].arrived
  BY <1>2, <1>4 DEF Top
<1> QED  BY <1>1, <1>2, <1>3, <1>4, <1>5 DEF TrackFacts

\* A connection begins without tracks.
LEMMA TracksInvStarts ==
  ASSUME MediaInit
  PROVE  TracksInv
<1>1. PeerInv
  BY PeerInvStarts
<1>2. \A e \in Ends : /\ chain[e] = <<>> /\ wire[e] = <<>>
                      /\ ToSet(chain[e]) = {} /\ ToSet(wire[e]) = {}
                      /\ pc[e].arrived = 0 /\ pc[e].added = 0
                      /\ known[e] = {} /\ shown[e] = {}
                      /\ \A r \in Rooms : metas[e][r] = <<>> /\ owned[e][r] = 0
  <2>1. \A e \in Ends : /\ chain[e] = <<>> /\ wire[e] = <<>>
                        /\ pc[e].arrived = 0 /\ pc[e].added = 0
                        /\ known[e] = {} /\ shown[e] = {}
                        /\ \A r \in Rooms : metas[e][r] = <<>> /\ owned[e][r] = 0
    BY DEF MediaInit, Init
  <2> QED  BY <2>1, Silence
<1>3. TracksTyped
  BY DEF MediaInit, TracksTyped
<1>4. \A e \in Ends, r \in Rooms : Told(e, r)
  <2> SUFFICES ASSUME NEW e \in Ends, NEW r \in Rooms PROVE Told(e, r)
    OBVIOUS
  <2>1. Other(e) \in Ends /\ owned[Other(e)][r] = 0 /\ metas[e][r] = <<>>
        /\ ToSet(wire[e]) = {} /\ pc[e].arrived = 0
    BY <1>2, TwoEnds
  <2>2. Top(e, r) = 0 /\ DOMAIN metas[e][r] = {}
    BY <2>1 DEF Top
  <2> QED  BY <2>1, <2>2 DEF Told
<1>5. \A e \in Ends : /\ known[e] = 1..pc[e].arrived
                      /\ Increasing(wire[e]) /\ Follows(wire[e], Reached(e))
                      /\ Owning(e)
  <2> TAKE e \in Ends
  <2>1. 1..0 = {}
    OBVIOUS
  <2>2. known[e] = 1..pc[e].arrived
    BY <1>2, <2>1
  <2>3. \A reached : Increasing(wire[e]) /\ Follows(wire[e], reached)
    BY <1>2, TracksSilence
  <2>4. Owning(e)
    BY <1>2 DEF Owning
  <2> QED  BY <2>2, <2>3, <2>4
<1>6. relays = {} /\ MetadataFits
  BY <1>2 DEF MediaInit, Init, MetadataFits
<1> QED  BY <1>1, <1>2, <1>3, <1>4, <1>5, <1>6 DEF TracksInv

(* One end hears of something or says something, but not of a new track. *)
Goes ==
  /\ known' = known /\ metas' = metas /\ shown' = shown /\ owned' = owned
  /\ \A f \in Ends : pc'[f].arrived = pc[f].arrived /\ pc'[f].added = pc[f].added
  /\ \A f \in Ends :
       \/ wire'[f] = wire[f]
       \/ wire[f] # <<>> /\ Head(wire[f]) \in Signals /\ wire'[f] = Tail(wire[f])
       \/ \E x \in Signals : /\ x.tracks <= pc[Other(f)].added
                             /\ wire'[f] = Append(wire[f], x)
  /\ \A f \in Ends : \A o \in ToSet(chain'[f]) : o.do = "remote" =>
       \/ o \in ToSet(chain[f])
       \/ o.signal.tracks = 0
       \/ wire[f] # <<>> /\ Head(wire[f]) \in Signals /\ o.signal = Head(wire[f])
  /\ \A m \in relays' : m[2].tracks = 0

\* What has been told of, or is being, of the tracks that are added.
LEMMA AddedIsTold ==
  ASSUME TracksInv, NEW f \in Ends, NEW n \in Nat, n <= pc[Other(f)].added
  PROVE  n \in Reached(f) \/ \E r \in Rooms : Meta(r, n) \in ToSet(wire[f])
<1>1. TrackFacts(f) /\ TrackFacts(Other(f)) /\ Other(f) \in Ends
  BY TrackTypes, TwoEnds
<1>2. CASE pc[Other(f)].added = 0
  BY <1>1, <1>2 DEF TrackFacts, Reached
<1>3. CASE pc[Other(f)].added # 0
  <2>1. PICK r \in Rooms : owned[Other(f)][r] = pc[Other(f)].added
    BY <1>1, <1>3 DEF TracksInv, Owning, TrackFacts
  <2>2. CASE n <= Top(f, r)
    BY <2>1, <2>2 DEF Reached
  <2>3. CASE Top(f, r) < n
    BY <2>1, <2>3 DEF TracksInv, Told
  <2> QED  BY <1>1, <2>1, <2>2, <2>3 DEF TrackFacts
<1> QED  BY <1>2, <1>3

LEMMA GoesKeeps ==
  ASSUME TracksInv, PeerInv', Goes
  PROVE  TracksInv'
<1>1. \A f \in Ends : TrackFacts(f)
  BY TrackTypes
<1>2. /\ \A f \in Ends : Reached(f)' = Reached(f)
      /\ \A f \in Ends, r \in Rooms : Top(f, r)' = Top(f, r)
  BY DEF Goes, Reached, Top
<1>3. TracksTyped' /\ MetadataFits'
  BY DEF TracksInv, TracksTyped, MetadataFits, Goes
<1>4. ASSUME NEW f \in Ends
      PROVE  /\ Increasing(wire'[f]) /\ Follows(wire'[f], Reached(f))
             /\ \A x \in Metas : x \in ToSet(wire'[f]) <=> x \in ToSet(wire[f])
             /\ wire[f] # <<>> /\ Head(wire[f]) \in Signals
                  => Head(wire[f]).tracks \in Reached(f)
  <2>1. /\ wire[f] \in Seq(Messages)
        /\ Increasing(wire[f]) /\ Follows(wire[f], Reached(f))
    BY <1>1 DEF TracksInv, TrackFacts
  <2>2. wire[f] # <<>> /\ Head(wire[f]) \in Signals => Head(wire[f]).tracks \in Reached(f)
    <3>1. Head(wire[f]) \in Signals => Head(wire[f]) \notin Metas
      BY MetasApart
    <3> QED  BY <2>1, <3>1, FollowsRead
  <2>3. CASE wire'[f] = wire[f]
    BY <2>1, <2>2, <2>3
  <2>4. CASE wire[f] # <<>> /\ Head(wire[f]) \in Signals /\ wire'[f] = Tail(wire[f])
    <3>1. Head(wire[f]) \notin Metas
      BY <2>4, MetasApart
    <3>2. Increasing(Tail(wire[f])) /\ ToSet(wire[f]) = ToSet(Tail(wire[f])) \union {Head(wire[f])}
      BY <2>1, <2>4, IncreasingRead
    <3>3. Follows(Tail(wire[f]), Reached(f))
      BY <2>1, <2>4, <3>1, FollowsRead
    <3> QED  BY <2>2, <2>4, <3>1, <3>2, <3>3
  <2>5. ASSUME NEW x \in Signals, x.tracks <= pc[Other(f)].added,
               wire'[f] = Append(wire[f], x)
        PROVE  /\ Increasing(wire'[f]) /\ Follows(wire'[f], Reached(f))
               /\ \A y \in Metas : y \in ToSet(wire'[f]) <=> y \in ToSet(wire[f])
    <3>1. x \in Messages /\ x \notin Metas /\ x.tracks \in Nat
      BY MetasApart, BoundsAssumption DEF Messages, Signals, Tracks
    <3>2. \/ x.tracks \in Reached(f)
          \/ \E r \in Rooms : Meta(r, x.tracks) \in ToSet(wire[f])
      BY <2>5, <3>1, AddedIsTold
    <3>3. Increasing(Append(wire[f], x))
      BY <2>1, <3>1, IncreasingSent
    <3>4. Follows(Append(wire[f], x), Reached(f))
      BY <2>1, <3>1, <3>2, FollowsSent
    <3>5. ToSet(Append(wire[f], x)) = ToSet(wire[f]) \union {x}
      BY <2>1, <3>1, Longer
    <3> QED  BY <2>5, <3>1, <3>3, <3>4, <3>5
  <2> QED  BY <2>2, <2>3, <2>4, <2>5 DEF Goes
<1>5. ASSUME NEW f \in Ends, NEW r \in Rooms
      PROVE  Told(f, r)'
  <2>1. \A x \in Metas : x \in ToSet(wire'[f]) <=> x \in ToSet(wire[f])
    BY <1>4
  <2>2. Told(f, r)
    BY DEF TracksInv
  <2>3. owned[Other(f)][r] \in Nat /\ owned[Other(f)][r] <= MaxTracks
        /\ Top(f, r) \in Nat
    BY <1>1, TwoEnds DEF TrackFacts
  <2>4. \A u \in Nat : Top(f, r) < u /\ u <= owned[Other(f)][r] => Meta(r, u) \in Metas
    BY <2>3, MetaIs, BoundsAssumption
  <2>5. /\ pc'[f].arrived = pc[f].arrived /\ metas' = metas /\ owned' = owned
        /\ Top(f, r)' = Top(f, r)
    BY <1>2 DEF Goes
  <2> QED  BY <2>1, <2>2, <2>4, <2>5 DEF Told
<1>6. ASSUME NEW f \in Ends
      PROVE  /\ known'[f] = 1..pc'[f].arrived
             /\ Follows(wire'[f], Reached(f)')
             /\ Owning(f)'
             /\ \A o \in ToSet(chain'[f]) :
                  o.do = "remote" => o.signal.tracks \in Reached(f)'
  <2>1. 0 \in Reached(f)
    BY <1>1 DEF Reached, TrackFacts
  <2>2. known'[f] = 1..pc'[f].arrived /\ Owning(f)'
    BY DEF Goes, TracksInv, Owning
  <2>3. \A o \in ToSet(chain'[f]) :
                  o.do = "remote" => o.signal.tracks \in Reached(f)
    BY <1>4, <2>1 DEF Goes, TracksInv
  <2> QED  BY <1>2, <1>4, <2>2, <2>3
<1>7. \A m \in relays' : m[2].tracks = 0
  BY DEF Goes
<1> QED  BY <1>3, <1>4, <1>5, <1>6, <1>7 DEF TracksInv

-----------------------------------------------------------------------------
\* Nothing is said, and nothing heard that describes.
LEMMA QuietGoes ==
  ASSUME TracksInv, NEW e \in Ends,
         UNCHANGED <<relays, wire, known, metas, shown, owned>>,
         \A f \in Ends : pc'[f].arrived = pc[f].arrived /\ pc'[f].added = pc[f].added,
         \A f \in Ends : f # e => chain'[f] = chain[f],
         \A o \in ToSet(chain'[e]) : o.do = "remote" => o \in ToSet(chain[e])
  PROVE  Goes
  BY DEF Goes, TracksInv

\* A signal that joins a chain joins it as it is.
LEMMA SignalGoes ==
  ASSUME TracksInv, NEW e \in Ends, NEW s \in Signals, signal(e, s)
  PROVE  /\ \A f \in Ends : f # e => chain'[f] = chain[f]
         /\ \A o \in ToSet(chain'[e]) :
              o.do = "remote" => o \in ToSet(chain[e]) \/ o.signal = s
<1>1. /\ chain \in [Ends -> Seq(Operations)] /\ chain[e] \in Seq(Operations)
  BY DEF TracksInv, PeerInv, Typed
<1>2. ASSUME NEW t \in Seq(Operations), chain' = [chain EXCEPT ![e] = @ \o t],
             \A o \in ToSet(t) : o.do = "remote" => o.signal = s
      PROVE  /\ \A f \in Ends : f # e => chain'[f] = chain[f]
             /\ \A o \in ToSet(chain'[e]) :
                  o.do = "remote" => o \in ToSet(chain[e]) \/ o.signal = s
  <2>1. ToSet(chain[e] \o t) \subseteq ToSet(chain[e]) \union ToSet(t)
    BY <1>1, Joint
  <2>2. chain'[e] = chain[e] \o t /\ \A f \in Ends : f # e => chain'[f] = chain[f]
    BY <1>1, <1>2
  <2> QED  BY <1>2, <2>1, <2>2
<1>3. CASE signalOffer(e, s)
  <2> DEFINE x == Op("remote", s, "offer")
             y == Rollback("offer")
  <2>1. /\ x \in Operations /\ x.signal = s
        /\ y \in Operations /\ y.do = "rollback"
    BY OperationTypes DEF Op, Rollback
  <2>2. /\ <<>> \in Seq(Operations) /\ ToSet(<<>>) = {}
        /\ <<x>> \in Seq(Operations) /\ ToSet(<<x>>) = {x}
        /\ <<y, x>> \in Seq(Operations) /\ ToSet(<<y, x>>) = {y, x}
    <3> HIDE DEF x, y
    <3>1. x \in Operations /\ y \in Operations
      BY <2>1
    <3>2. /\ <<>> \in Seq(Operations) /\ ToSet(<<>>) = {}
          /\ <<x>> \in Seq(Operations) /\ ToSet(<<x>>) = {x}
      BY <3>1, FewOf
    <3>3. <<y, x>> \in Seq(Operations) /\ ToSet(<<y, x>>) = {y, x}
      <4>1. DOMAIN <<y, x>> = {1, 2} /\ <<y, x>>[1] = y /\ <<y, x>>[2] = x
        OBVIOUS
      <4> QED  BY <3>1, <4>1 DEF ToSet
    <3> QED  BY <3>2, <3>3
  <2>3. \/ chain' = [chain EXCEPT ![e] = @ \o <<x>>]
        \/ chain' = [chain EXCEPT ![e] = @ \o <<>>]
        \/ chain' = [chain EXCEPT ![e] = @ \o <<y, x>>]
    <3> DEFINE crosses == \/ peer[e].makingOffer
                          \/ /\ pc[e].state # "stable"
                             /\ ~peer[e].isSettingRemoteAnswerPending
    <3>1. chain' = [chain EXCEPT ![e] = @ \o
             CASE ~crosses -> <<x>>
               [] crosses /\ e = Initiator -> <<>>
               [] crosses /\ e = Responder -> <<y, x>>]
      BY <1>3 DEF signalOffer
    <3> HIDE DEF crosses, x, y
    <3> QED  BY <3>1, TwoEnds
  <2> HIDE DEF x, y
  <2>4. CASE chain' = [chain EXCEPT ![e] = @ \o <<x>>]
    BY <1>2, <2>1, <2>2, <2>4
  <2>5. CASE chain' = [chain EXCEPT ![e] = @ \o <<>>]
    BY <1>2, <2>2, <2>5
  <2>6. CASE chain' = [chain EXCEPT ![e] = @ \o <<y, x>>]
    BY <1>2, <2>1, <2>2, <2>6
  <2> QED  BY <2>3, <2>4, <2>5, <2>6
<1>4. CASE signalAnswer(e, s)
  <2> DEFINE x == Op("remote", s, "answer")
  <2>1. x \in Operations /\ x.signal = s
    BY OperationTypes DEF Op
  <2>2. chain' = [chain EXCEPT ![e] = Append(chain[e], x)]
    BY <1>4 DEF signalAnswer
  <2> HIDE DEF x
  <2>3. Append(chain[e], x) \in Seq(Operations)
        /\ ToSet(Append(chain[e], x)) = ToSet(chain[e]) \union {x}
    BY <1>1, <2>1, Longer
  <2> QED  BY <1>1, <2>1, <2>2, <2>3
<1>5. CASE signalCandidate(e, s)
  <2> DEFINE x == Op("candidate", Candidate(pc[e].remote), "none")
  <2>1. chain' = [chain EXCEPT ![e] = @ \o Add(e, {s.generation})[1]]
    BY <1>5 DEF signalCandidate
  <2>2. s.generation \in Generations
    BY DEF Signals
  <2>3. Add(e, {s.generation})[1] = IF pc[e].remote \in {s.generation} THEN <<x>> ELSE <<>>
    BY Added
  <2>4. pc[e].remote \in {s.generation} => x \in Operations /\ x.do = "candidate"
    BY <2>2, CandidateKinds
  <2> HIDE DEF x
  <2>5. /\ <<>> \in Seq(Operations) /\ ToSet(<<>>) = {}
        /\ x \in Operations => <<x>> \in Seq(Operations) /\ ToSet(<<x>>) = {x}
    BY FewOf, OperationTypes
  <2>6. Add(e, {s.generation})[1] \in Seq(Operations)
        /\ \A o \in ToSet(Add(e, {s.generation})[1]) : o.do = "candidate"
    BY <2>3, <2>4, <2>5
  <2> QED  BY <1>2, <2>1, <2>6
<1> QED  BY <1>3, <1>4, <1>5 DEF signal

\* createOffer, renewOffer, openChannel.
LEMMA quietlyGoes ==
  ASSUME TracksInv, NEW e \in Ends, UNCHANGED <<plan, owned, metas, known, shown>>,
         createOffer(e) \/ renewOffer(e) \/ openChannel(e)
  PROVE  Goes
<1>1. /\ chain \in [Ends -> Seq(Operations)] /\ pc \in [Ends -> Connections]
      /\ pc[e] \in Connections
  BY DEF TracksInv, PeerInv, Typed
<1>2. CASE createOffer(e)
  <2>1. /\ relays' = relays /\ wire' = wire
        /\ pc' = [pc EXCEPT ![e] = [pc[e] EXCEPT !.needed = TRUE]]
        /\ chain' = [chain EXCEPT ![e] = <<Local("create")>>]
    BY <1>1, <1>2 DEF createOffer
  <2>2. ToSet(<<Local("create")>>) = {Local("create")} /\ Local("create").do = "local"
    BY OperationTypes, FewOf DEF Local, Op
  <2>3. \A f \in Ends : pc'[f].arrived = pc[f].arrived /\ pc'[f].added = pc[f].added
    BY <1>1, <2>1 DEF Connections
  <2> QED  BY <1>1, <2>1, <2>2, <2>3, QuietGoes
<1>3. CASE renewOffer(e)
  <2>1. /\ relays' = relays /\ wire' = wire /\ pc' = pc
        /\ chain' = [chain EXCEPT ![e] = <<Rollback("restart")>>]
    BY <1>3 DEF renewOffer
  <2>2. ToSet(<<Rollback("restart")>>) = {Rollback("restart")}
        /\ Rollback("restart").do = "rollback"
    BY OperationTypes, FewOf DEF Rollback, Op
  <2> QED  BY <1>1, <2>1, <2>2, QuietGoes
<1>4. CASE openChannel(e)
  BY <1>4, QuietGoes DEF openChannel
<1> QED  BY <1>2, <1>3, <1>4

\* sendOffer, onicecandidate: signals without tracks.
LEMMA signalsGo ==
  ASSUME TracksInv, NEW e \in Ends, UNCHANGED <<plan, owned, metas, known, shown>>,
         sendOffer(e) \/ onicecandidate(e)
  PROVE  Goes
<1>1. /\ \A m \in relays : m[2].tracks = 0
      /\ wire \in [Ends -> Seq(Messages)] /\ pc[e] \in Connections
      /\ \A f \in Ends : pc[f].added \in Nat
  BY TrackTypes DEF TracksInv, TrackFacts, PeerInv, Typed
<1>2. CASE sendOffer(e)
  <2>1. pc' = pc /\ chain' = chain /\ wire' = wire
    BY <1>2 DEF sendOffer
  <2>2. PICK described \in SUBSET peer[e].gathered :
           relays' = relays
             \union {<<Other(e), Signal("offer", pc[e].generation, 0, 0)>>}
             \union {<<Other(e), Candidate(g)>> : g \in described}
    BY <1>2 DEF sendOffer
  <2>3. \A m \in relays' : m[2].tracks = 0
    BY <1>1, <2>2 DEF Signal, Candidate
  <2> QED  BY <1>1, <2>1, <2>3 DEF Goes
<1>3. CASE onicecandidate(e)
  <2> DEFINE x == Candidate(pc[e].generation)
  <2>1. /\ pc' = pc /\ chain' = chain
        /\ relays' = IF peer[e].wanted /\ ~peer[e].open
                       THEN relays \union {<<Other(e), x>>} ELSE relays
        /\ wire' = IF peer[e].open
                     THEN [wire EXCEPT ![Other(e)] = Append(@, x)] ELSE wire
    BY <1>3 DEF onicecandidate, emitSignal
  <2>2. x \in Signals /\ x.tracks = 0
    BY <1>1, OperationTypes DEF Connections, Candidate, Signal
  <2> HIDE DEF x
  <2>3. \A m \in relays' : m[2].tracks = 0
    BY <1>1, <2>1, <2>2
  <2>4. \A f \in Ends : \/ wire'[f] = wire[f]
                        \/ wire'[f] = Append(wire[f], x)
    BY <1>1, <2>1
  <2>5. \A f \in Ends : Other(f) \in Ends /\ x.tracks <= pc[Other(f)].added
    BY <1>1, <2>2, TwoEnds
  <2> QED  BY <2>1, <2>2, <2>3, <2>4, <2>5 DEF Goes
<1> QED  BY <1>2, <1>3

\* relayed, signalled.
LEMMA heardGoes ==
  ASSUME TracksInv, NEW e \in Ends, UNCHANGED <<plan, owned, metas, known, shown>>,
         relayed(e) \/ signalled(e)
  PROVE  Goes
<1>1. /\ \A m \in relays : m[2].tracks = 0
      /\ wire \in [Ends -> Seq(Messages)] /\ chain \in [Ends -> Seq(Operations)]
      /\ relays \subseteq Ends \X Signals
  BY DEF TracksInv, PeerInv, Typed
<1>2. CASE relayed(e)
  <2>1. PICK m \in relays :
          /\ relays' = relays \ {m}
          /\ \/ chain' = chain
             \/ signal(e, m[2])
             \/ chain' = [chain EXCEPT ![e] = <<Op("remote", m[2], "offer")>>]
          /\ pc' = pc /\ wire' = wire
    BY <1>2 DEF relayed
  <2>2. m[2] \in Signals /\ m[2].tracks = 0
    BY <1>1
  <2>3. CASE chain' = chain
    BY <1>1, <2>1, <2>3 DEF Goes
  <2>4. CASE signal(e, m[2])
    <3>1. /\ \A f \in Ends : f # e => chain'[f] = chain[f]
          /\ \A o \in ToSet(chain'[e]) :
               o.do = "remote" => o \in ToSet(chain[e]) \/ o.signal = m[2]
      BY <2>2, <2>4, SignalGoes
    <3> QED  BY <1>1, <2>1, <2>2, <3>1 DEF Goes
  <2>5. CASE chain' = [chain EXCEPT ![e] = <<Op("remote", m[2], "offer")>>]
    <3> DEFINE x == Op("remote", m[2], "offer")
    <3>1. x \in Operations /\ x.signal = m[2]
      BY <2>2, OperationTypes DEF Op
    <3> HIDE DEF x
    <3>2. ToSet(<<x>>) = {x}
      BY <3>1, FewOf
    <3>3. /\ \A f \in Ends : f # e => chain'[f] = chain[f]
          /\ \A o \in ToSet(chain'[e]) : o.signal = m[2]
      BY <1>1, <2>5, <3>1, <3>2 DEF x
    <3> QED  BY <1>1, <2>1, <2>2, <3>3 DEF Goes
  <2> QED  BY <2>1, <2>3, <2>4, <2>5
<1>3. CASE signalled(e)
  <2> DEFINE s == Head(wire[e])
  <2>1. /\ wire[e] # <<>> /\ s \in Signals
        /\ wire' = [wire EXCEPT ![e] = Tail(@)]
        /\ chain' = chain \/ signal(e, s)
        /\ pc' = pc /\ relays' = relays
    BY <1>3 DEF signalled
  <2>2. /\ \A f \in Ends : f # e => chain'[f] = chain[f]
        /\ \A o \in ToSet(chain'[e]) :
             o.do = "remote" => o \in ToSet(chain[e]) \/ o.signal = s
    BY <2>1, SignalGoes
  <2>3. \A f \in Ends : \/ wire'[f] = wire[f]
                        \/ f = e /\ wire'[f] = Tail(wire[f])
    BY <1>1, <2>1
  <2> QED  BY <1>1, <2>1, <2>2, <2>3 DEF Goes
<1> QED  BY <1>2, <1>3

\* addTrack: the metadata of the next track of the room come last on the wire.
LEMMA addTrackTells ==
  ASSUME TracksInv, PeerInv', NEW e \in Ends, NEW r \in Rooms, addTrack(e, r)
  PROVE  TracksInv'
<1> DEFINE t == owned[e][r] + 1
           o == Other(e)
           x == Meta(r, t)
<1>1. /\ (\A f \in Ends : TrackFacts(f)) /\ o \in Ends /\ e # o /\ Other(o) = e
      /\ owned \in [Ends -> [Rooms -> Tracks]] /\ wire \in [Ends -> Seq(Messages)]
      /\ pc \in [Ends -> Connections] /\ pc[e] \in Connections
      /\ plan \in Plans /\ wire[o] \in Seq(Messages)
  BY TrackTypes, TwoEnds DEF TracksInv, PeerInv, Typed
<1>2. t \in 1..MaxTracks
  <2>1. plan.tracks[e][r] \in Tracks
    BY <1>1, TracksAssumption
  <2> QED  BY <1>1, <2>1, BoundsAssumption DEF addTrack, TrackFacts, Tracks
<1>3. /\ x \in Metas /\ x \in Messages /\ x.room = r /\ x.track = t
      /\ x \notin Signals
  BY <1>2, MetaIs, MetasApart DEF Messages
<1>4. /\ owned' = [owned EXCEPT ![e][r] = t]
      /\ wire' = [wire EXCEPT ![o] = Append(@, x)]
      /\ pc' = IF \A q \in Rooms : owned[e][q] < t
                 THEN [pc EXCEPT ![e].added = t] ELSE pc
      /\ chain' = chain /\ relays' = relays
      /\ metas' = metas /\ known' = known /\ shown' = shown
  BY DEF addTrack
<1>5. /\ owned'[e][r] = t /\ \A q \in Rooms : q # r => owned'[e][q] = owned[e][q]
      /\ owned'[o] = owned[o]
  BY <1>1, <1>4
<1> HIDE DEF x, o
<1>6. /\ wire'[o] = Append(wire[o], x) /\ wire'[e] = wire[e]
      /\ ToSet(wire'[o]) = ToSet(wire[o]) \union {x}
  <2>1. ToSet(Append(wire[o], x)) = ToSet(wire[o]) \union {x}
    BY <1>1, <1>3, Longer
  <2> QED  BY <1>1, <1>4, <2>1
<1>7. /\ \A f \in Ends : pc'[f].arrived = pc[f].arrived
      /\ \A f \in Ends : f # e => pc'[f].added = pc[f].added
      /\ pc'[e].added = IF \A q \in Rooms : owned[e][q] < t THEN t ELSE pc[e].added
  <2>1. CASE \A q \in Rooms : owned[e][q] < t
    <3>1. pc' = [pc EXCEPT ![e] = [pc[e] EXCEPT !.added = t]]
      BY <1>1, <1>4, <2>1
    <3> QED  BY <1>1, <2>1, <3>1 DEF Connections
  <2>2. CASE ~(\A q \in Rooms : owned[e][q] < t)
    BY <1>4, <2>2
  <2> QED  BY <2>1, <2>2
<1>8. /\ \A f \in Ends : Reached(f)' = Reached(f)
      /\ \A f \in Ends, q \in Rooms : Top(f, q)' = Top(f, q)
  BY <1>4, <1>7 DEF Reached, Top
<1>9. TracksTyped' /\ MetadataFits'
  BY <1>4 DEF TracksInv, TracksTyped, MetadataFits
<1>10. Owning(e)'
  <2>1. /\ \A q \in Rooms : owned[e][q] <= pc[e].added
        /\ \A q \in Rooms : owned[e][q] \in Nat
        /\ pc[e].added \in Nat
        /\ pc[e].added > 0 => \E q \in Rooms : owned[e][q] = pc[e].added
    BY <1>1 DEF TracksInv, Owning, TrackFacts
  <2>2. CASE \A q \in Rooms : owned[e][q] < t
    <3>1. pc'[e].added = t
      BY <1>7, <2>2
    <3>2. \A q \in Rooms : owned'[e][q] <= t
      BY <1>2, <1>5, <2>1, <2>2
    <3>3. owned'[e][r] = t
      BY <1>5
    <3> QED  BY <3>1, <3>2, <3>3 DEF Owning
  <2>3. ASSUME NEW p \in Rooms, ~(owned[e][p] < t)
        PROVE  Owning(e)'
    <3>1. pc'[e].added = pc[e].added
      BY <1>7, <2>3
    <3>2. t <= pc[e].added
      BY <1>2, <2>1, <2>3
    <3>3. \A q \in Rooms : owned'[e][q] <= pc[e].added
      BY <1>5, <2>1, <3>2
    <3>4. PICK q \in Rooms : owned[e][q] = pc[e].added
      BY <1>2, <2>1, <3>2
    <3>5. q # r
      BY <2>1, <3>2, <3>4
    <3>6. owned'[e][q] = pc[e].added
      BY <1>5, <3>4, <3>5
    <3> QED  BY <3>1, <3>3, <3>6 DEF Owning
  <2> QED  BY <2>2, <2>3
<1>11. Owning(o)'
  BY <1>1, <1>5, <1>7 DEF TracksInv, Owning
<1>12. Increasing(wire'[o]) /\ Follows(wire'[o], Reached(o))
  <2>1. Increasing(wire[o]) /\ Follows(wire[o], Reached(o))
    BY <1>1 DEF TracksInv
  <2>2. \A y \in ToSet(wire[o]) : y \in Metas /\ y.room = x.room => y.track < x.track
    <3>1. \A y \in ToSet(wire[o]) : y \in Metas /\ y.room = r => y.track <= owned[e][r]
      BY <1>1 DEF TracksInv, Told
    <3>2. \A y \in Metas : y.track \in Nat
      BY MetaIs
    <3> QED  BY <1>1, <1>3, <3>1, <3>2 DEF TrackFacts
  <2>3. Increasing(Append(wire[o], x))
    BY <1>1, <1>3, <2>1, <2>2, IncreasingSent
  <2>4. Follows(Append(wire[o], x), Reached(o))
    BY <1>1, <1>3, <2>1, FollowsSent
  <2> QED  BY <1>6, <2>3, <2>4
<1>13. ASSUME NEW q \in Rooms PROVE Told(o, q)'
  <2>1. Told(o, q)
    BY <1>1 DEF TracksInv
  <2>2. /\ pc'[o].arrived = pc[o].arrived /\ metas' = metas
        /\ Top(o, q)' = Top(o, q) /\ Other(o) = e
    BY <1>1, <1>4, <1>7, <1>8
  <2>3. CASE q # r
    BY <1>3, <1>5, <1>6, <2>1, <2>2, <2>3 DEF Told
  <2>4. CASE q = r
    <3>1. /\ pc[o].arrived \in Nat /\ Top(o, r) \in Nat /\ owned[e][r] \in Nat
          /\ metas[o][r] = <<>> => Top(o, r) = pc[o].arrived
          /\ metas[o][r] # <<>> => Top(o, r) <= owned[e][r]
      BY <1>1, <2>1, <2>4 DEF TrackFacts, Top, Told
    <3>2. t <= pc[o].arrived \/ t > Top(o, r)
      BY <3>1
    <3>3. /\ metas[o][r] # <<>> => Top(o, r) <= t
          /\ \A y \in ToSet(wire'[o]) : y \in Metas /\ y.room = r =>
               /\ y.track <= t
               /\ y.track <= pc[o].arrived \/ y.track > Top(o, r)
      <4>1. \A y \in Metas : y.track \in Nat
        BY MetaIs
      <4>2. \A y \in ToSet(wire[o]) : y \in Metas /\ y.room = r =>
               /\ y.track <= owned[e][r]
               /\ y.track <= pc[o].arrived \/ y.track > Top(o, r)
        BY <2>1, <2>2, <2>4 DEF Told
      <4> QED  BY <1>3, <1>6, <3>1, <3>2, <4>1, <4>2
    <3>4. \A u \in Nat : Top(o, r) < u /\ u <= t => Meta(r, u) \in ToSet(wire'[o])
      <4>1. \A u \in Nat : Top(o, r) < u /\ u <= owned[e][r] => Meta(r, u) \in ToSet(wire[o])
        BY <2>1, <2>2, <2>4 DEF Told
      <4>2. \A u \in Nat : u <= t => u <= owned[e][r] \/ u = t
        BY <3>1
      <4> QED  BY <1>6, <4>1, <4>2 DEF x
    <3>5. \A k \in DOMAIN metas[o][r] : metas[o][r][k] = pc[o].arrived + k
      BY <2>1, <2>4 DEF Told
    <3> HIDE DEF t
    <3> QED  BY <1>5, <2>2, <2>4, <3>3, <3>4, <3>5 DEF Told
  <2> QED  BY <2>3, <2>4
<1>14. ASSUME NEW q \in Rooms PROVE Told(e, q)'
  BY <1>4, <1>5, <1>6, <1>7, <1>8 DEF TracksInv, Told, o
<1>15. /\ known'[e] = 1..pc'[e].arrived /\ known'[o] = 1..pc'[o].arrived
       /\ \A f \in Ends : \A p \in ToSet(chain'[f]) :
            p.do = "remote" => p.signal.tracks \in Reached(f)'
       /\ \A m \in relays' : m[2].tracks = 0
  BY <1>1, <1>4, <1>7, <1>8 DEF TracksInv
<1>16. Increasing(wire'[e]) /\ Follows(wire'[e], Reached(e))
  BY <1>6 DEF TracksInv
<1>17. \A f \in Ends : f = e \/ f = o
  BY TwoEnds DEF o
<1> QED
  BY <1>8, <1>9, <1>10, <1>11, <1>12, <1>13, <1>14, <1>15, <1>16, <1>17 DEF TracksInv

\* receiveTrackMeta: the track has arrived, or its metadata are kept for it.
LEMMA receiveTrackMetaTells ==
  ASSUME TracksInv, PeerInv', NEW e \in Ends, receiveTrackMeta(e)
  PROVE  TracksInv'
<1> DEFINE m == Head(wire[e])
           v == Tail(wire[e])
<1>1. /\ (\A f \in Ends : TrackFacts(f)) /\ Other(e) \in Ends
      /\ wire \in [Ends -> Seq(Messages)] /\ wire[e] \in Seq(Messages)
      /\ TracksTyped /\ wire[e] # <<>> /\ m \in Metas
      /\ Increasing(wire[e]) /\ Follows(wire[e], Reached(e))
      /\ \A q \in Rooms : Told(e, q)
      /\ known[e] = 1..pc[e].arrived
  BY TrackTypes, TwoEnds DEF TracksInv, PeerInv, Typed, receiveTrackMeta
<1>2. PICK r \in Rooms, t \in Nat :
        t > 0 /\ m = Meta(r, t) /\ m.room = r /\ m.track = t
  BY <1>1, MetaIs
<1> DEFINE own == owned[Other(e)][r]
<1>3. /\ wire' = [wire EXCEPT ![e] = v]
      /\ pc' = pc /\ chain' = chain /\ relays' = relays
      /\ owned' = owned /\ known' = known
      /\ IF t \in known[e]
           THEN /\ shown' = [shown EXCEPT ![e] = @ \union
                     {[room |-> r, track |-> t, meta |-> t]}]
                /\ metas' = metas
           ELSE /\ metas' = [metas EXCEPT ![e][r] = Append(@, t)]
                /\ shown' = shown
  BY <1>2 DEF receiveTrackMeta
<1>4. /\ wire'[e] = v /\ \A f \in Ends : f # e => wire'[f] = wire[f]
      /\ Increasing(v) /\ ToSet(wire[e]) = ToSet(v) \union {m}
      /\ \A x \in ToSet(v) : x \in Metas /\ x.room = r => t < x.track
  BY <1>1, <1>2, <1>3, IncreasingRead
<1>5. /\ Told(e, r) /\ own \in Nat /\ pc[e].arrived \in Nat /\ Top(e, r) \in Nat
      /\ Top(e, r) >= pc[e].arrived /\ metas[e][r] \in Seq(Nat)
      /\ Top(e, r) = pc[e].arrived + Len(metas[e][r])
      /\ t <= own /\ (t <= pc[e].arrived \/ t > Top(e, r))
  BY <1>1, <1>2, <1>4 DEF TrackFacts, Told, Top
<1> HIDE DEF m, v
<1>6. CASE t \in known[e]
  <2>1. t <= pc[e].arrived
    BY <1>1, <1>5, <1>6
  <2>2. /\ \A f \in Ends : Reached(f)' = Reached(f)
        /\ \A f \in Ends, q \in Rooms : Top(f, q)' = Top(f, q)
    BY <1>3, <1>6 DEF Reached, Top
  <2>3. TracksTyped'
    <3> DEFINE x == [room |-> r, track |-> t, meta |-> t]
    <3>1. x \in [room : Rooms, track : Nat, meta : Nat]
      BY <1>2
    <3>2. shown' = [shown EXCEPT ![e] = @ \union {x}] /\ metas' = metas
      BY <1>3, <1>6
    <3> HIDE DEF x
    <3> QED  BY <1>1, <1>3, <3>1, <3>2 DEF TracksTyped
  <2>4. MetadataFits'
    <3>1. \A x \in shown'[e] : x \in shown[e] \/ x.meta = x.track
      BY <1>1, <1>3, <1>6 DEF TracksTyped
    <3>2. \A f \in Ends : f # e => shown'[f] = shown[f]
      BY <1>1, <1>3, <1>6 DEF TracksTyped
    <3> QED  BY <3>1, <3>2 DEF TracksInv, MetadataFits
  <2>5. Follows(v, Reached(e))
    <3>1. t \in Reached(e)
      BY <1>2, <2>1 DEF Reached
    <3> QED  BY <1>1, <1>2, <3>1, FollowsRead DEF m, v
  <2>6. ASSUME NEW q \in Rooms PROVE Told(e, q)'
    <3>1. Told(e, q) /\ Top(e, q) >= pc[e].arrived /\ Top(e, q) \in Nat
      BY <1>1 DEF TrackFacts
    <3>2. \A u \in Nat : Top(e, q) < u => Meta(q, u) # m
      <4>1. \A u \in Nat : Meta(q, u) = m => u = t
        BY <1>2, MetaIs
      <4> QED  BY <1>5, <2>1, <3>1, <4>1
    <3> QED  BY <1>3, <1>4, <1>6, <2>2, <3>1, <3>2 DEF Told
  <2>7. ASSUME NEW f \in Ends, f # e
        PROVE  /\ Increasing(wire'[f]) /\ Follows(wire'[f], Reached(f))
               /\ \A q \in Rooms : Told(f, q)'
    BY <1>3, <1>4, <1>6, <2>2, <2>7 DEF TracksInv, Told
  <2>8. /\ \A f \in Ends : /\ known'[f] = 1..pc'[f].arrived /\ Owning(f)'
                           /\ \A o \in ToSet(chain'[f]) :
                                o.do = "remote" => o.signal.tracks \in Reached(f)
        /\ \A n \in relays' : n[2].tracks = 0
    BY <1>3 DEF TracksInv, Owning
  <2> QED
    BY <1>4, <2>2, <2>3, <2>4, <2>5, <2>6, <2>7, <2>8 DEF TracksInv
<1>7. CASE t \notin known[e]
  <2>1. t > Top(e, r)
    BY <1>1, <1>2, <1>5, <1>7
  <2>2. t = Top(e, r) + 1
    <3>1. SUFFICES ASSUME t # Top(e, r) + 1 PROVE FALSE
      OBVIOUS
    <3>2. Top(e, r) < Top(e, r) + 1 /\ Top(e, r) + 1 <= own /\ Top(e, r) + 1 < t
          /\ Top(e, r) + 1 \in Nat
      BY <1>2, <1>5, <2>1, <3>1
    <3>3. Meta(r, Top(e, r) + 1) \in ToSet(wire[e])
      BY <1>5, <3>2 DEF Told
    <3>4. Meta(r, Top(e, r) + 1) # m
      BY <1>2, <3>1, MetaIs
    <3>5. Top(e, r) + 1 <= MaxTracks /\ Top(e, r) + 1 \in 1..MaxTracks
      BY <1>1, <1>2, <1>5, <3>2, BoundsAssumption DEF TrackFacts
    <3>6. Meta(r, Top(e, r) + 1) \in Metas
      BY <1>2, <3>5, MetaIs
    <3>7. t < Top(e, r) + 1
      BY <1>4, <3>3, <3>4, <3>6, MetaIs
    <3> QED  BY <1>2, <1>5, <3>2, <3>7
  <2>3. /\ metas' = [metas EXCEPT ![e] = [metas[e] EXCEPT ![r] = Append(metas[e][r], t)]]
        /\ shown' = shown
        /\ metas \in [Ends -> [Rooms -> Seq(Nat)]] /\ metas[e] \in [Rooms -> Seq(Nat)]
    BY <1>1, <1>3, <1>7 DEF TracksTyped
  <2>4. /\ Append(metas[e][r], t) \in Seq(Nat)
        /\ Len(Append(metas[e][r], t)) = Len(metas[e][r]) + 1
        /\ Append(metas[e][r], t) # <<>>
        /\ \A k \in DOMAIN Append(metas[e][r], t) :
             \/ k \in DOMAIN metas[e][r] /\ Append(metas[e][r], t)[k] = metas[e][r][k]
             \/ k = Len(metas[e][r]) + 1 /\ Append(metas[e][r], t)[k] = t
    <3> DEFINE s == metas[e][r]
    <3>1. s \in Seq(Nat)
      BY <1>5
    <3> HIDE DEF s
    <3>2. /\ Append(s, t) \in Seq(Nat)
          /\ Len(s) \in Nat /\ DOMAIN s = 1..Len(s)
          /\ Len(Append(s, t)) = Len(s) + 1
          /\ DOMAIN Append(s, t) = 1..(Len(s) + 1)
          /\ \A i \in 1..Len(s) : Append(s, t)[i] = s[i]
          /\ Append(s, t)[Len(s) + 1] = t
      BY <1>2, <3>1, Longer
    <3>3. Append(s, t) # <<>>
      BY <3>2
    <3>4. \A k \in DOMAIN Append(s, t) :
            \/ k \in DOMAIN s /\ Append(s, t)[k] = s[k]
            \/ k = Len(s) + 1 /\ Append(s, t)[k] = t
      BY <3>2
    <3> QED  BY <3>2, <3>3, <3>4 DEF s
  <2>5. /\ metas'[e][r] = Append(metas[e][r], t)
        /\ \A q \in Rooms : q # r => metas'[e][q] = metas[e][q]
        /\ \A f \in Ends : f # e => metas'[f] = metas[f]
        /\ metas' \in [Ends -> [Rooms -> Seq(Nat)]]
    BY <1>2, <2>3, <2>4
  <2>6. /\ Top(e, r)' = t
        /\ \A q \in Rooms : q # r => Top(e, q)' = Top(e, q)
        /\ \A f \in Ends : f # e =>
             Reached(f)' = Reached(f) /\ \A q \in Rooms : Top(f, q)' = Top(f, q)
    <3>1. Top(e, r)' = t
      <4>1. Len(metas'[e][r]) = Len(metas[e][r]) + 1 /\ pc'[e].arrived = pc[e].arrived
        BY <1>3, <2>4, <2>5
      <4>2. Len(metas[e][r]) \in Nat
        BY <1>5
      <4>3. Top(e, r)' = pc[e].arrived + (Len(metas[e][r]) + 1)
        BY <4>1 DEF Top
      <4> QED  BY <1>5, <2>2, <4>2, <4>3
    <3>2. \A f \in Ends, q \in Rooms : f # e \/ q # r => Top(f, q)' = Top(f, q)
      BY <1>3, <2>5 DEF Top
    <3>3. \A f \in Ends : f # e => Reached(f)' = Reached(f)
      BY <1>3, <3>2 DEF Reached
    <3> QED  BY <3>1, <3>2, <3>3
  <2>7. Reached(e) \subseteq Reached(e)' /\ t \in Reached(e)'
    <3>1. \A q \in Rooms : Top(e, q) \in Nat /\ Top(e, q)' \in Nat /\ Top(e, q) <= Top(e, q)'
      <4>1. \A q \in Rooms : Top(e, q) \in Nat
        BY <1>1 DEF TrackFacts
      <4>2. t \in Nat /\ Top(e, r) <= t
        BY <1>2, <1>5, <2>1
      <4> QED  BY <2>6, <4>1, <4>2
    <3>2. \A n \in Nat, q \in Rooms : n <= Top(e, q) => n <= Top(e, q)'
      BY <3>1
    <3>3. t <= Top(e, r)'
      BY <1>2, <2>6
    <3> QED  BY <1>2, <1>3, <3>2, <3>3 DEF Reached
  <2>8. TracksTyped' /\ MetadataFits'
    BY <1>1, <1>3, <2>3, <2>5 DEF TracksInv, TracksTyped, MetadataFits
  <2>9. Follows(v, Reached(e)')
    BY <1>1, <1>2, <2>7, FollowsRead DEF m, v
  <2>10. Told(e, r)'
    <3>1. \A k \in DOMAIN metas'[e][r] : metas'[e][r][k] = pc'[e].arrived + k
      <4>1. \A k \in DOMAIN metas[e][r] : metas[e][r][k] = pc[e].arrived + k
        BY <1>5 DEF Told
      <4>2. t = pc[e].arrived + (Len(metas[e][r]) + 1)
        <5>1. Len(metas[e][r]) \in Nat
          BY <1>5
        <5> QED  BY <1>5, <2>2, <5>1
      <4> QED  BY <1>3, <2>4, <2>5, <4>1, <4>2
    <3>2. Top(e, r)' <= owned'[Other(e)][r]
      BY <1>3, <1>5, <2>6
    <3>3. \A x \in ToSet(wire'[e]) : x \in Metas /\ x.room = r =>
            /\ x.track <= owned'[Other(e)][r]
            /\ x.track > Top(e, r)'
      <4>1. \A x \in ToSet(v) : x \in Metas /\ x.room = r => t < x.track
        BY <1>4
      <4>2. \A x \in ToSet(v) : x \in Metas /\ x.room = r => x.track <= owned[Other(e)][r]
        BY <1>4, <1>5 DEF Told
      <4>3. \A x \in Metas : x.track \in Nat
        BY MetaIs
      <4> QED  BY <1>2, <1>3, <1>4, <2>6, <4>1, <4>2, <4>3
    <3>4. \A u \in Nat : Top(e, r)' < u /\ u <= owned'[Other(e)][r]
            => Meta(r, u) \in ToSet(wire'[e])
      <4> SUFFICES ASSUME NEW u \in Nat, t < u, u <= owned[Other(e)][r]
                   PROVE  Meta(r, u) \in ToSet(v)
        BY <1>3, <1>4, <2>6
      <4>1. Top(e, r) < u
        BY <1>2, <1>5, <2>1
      <4>2. Meta(r, u) \in ToSet(wire[e])
        BY <1>5, <4>1 DEF Told
      <4>3. t # u
        BY <1>2
      <4>4. Meta(r, u) # m
        BY <1>2, <4>3, MetaIs
      <4> QED  BY <1>4, <4>2, <4>4
    <3> QED  BY <3>1, <3>2, <3>3, <3>4 DEF Told
  <2>11. ASSUME NEW q \in Rooms, q # r PROVE Told(e, q)'
    <3>1. Told(e, q)
      BY <1>1
    <3>2. \A u \in Nat : Meta(q, u) # m
      BY <1>2, <2>11, MetaIs
    <3>3. /\ metas'[e][q] = metas[e][q] /\ Top(e, q)' = Top(e, q)
          /\ wire'[e] = v /\ owned' = owned /\ pc' = pc
      BY <1>3, <1>4, <2>5, <2>6, <2>11
    <3>4. m \notin ToSet(v) \/ m \in ToSet(wire[e])
      BY <1>4
    <3> QED  BY <1>4, <3>1, <3>2, <3>3 DEF Told
  <2>12. ASSUME NEW f \in Ends, f # e
         PROVE  /\ Increasing(wire'[f]) /\ Follows(wire'[f], Reached(f)')
                /\ \A q \in Rooms : Told(f, q)'
    BY <1>3, <1>4, <2>5, <2>6, <2>12 DEF TracksInv, Told
  <2>13. /\ \A f \in Ends : /\ known'[f] = 1..pc'[f].arrived /\ Owning(f)'
                            /\ \A o \in ToSet(chain'[f]) :
                                 o.do = "remote" => o.signal.tracks \in Reached(f)'
         /\ \A n \in relays' : n[2].tracks = 0
    <3>1. \A f \in Ends : Reached(f) \subseteq Reached(f)'
      BY <2>6, <2>7
    <3> QED  BY <1>3, <3>1 DEF TracksInv, Owning
  <2> QED
    BY <1>4, <2>8, <2>9, <2>10, <2>11, <2>12, <2>13 DEF TracksInv
<1> QED  BY <1>6, <1>7

-----------------------------------------------------------------------------
\* What operations a chain has when the first is done and others join.
LEMMA RemoteKept ==
  ASSUME TracksInv, NEW e \in Ends, chain[e] # <<>>, NEW t \in Seq(Operations),
         chain' = [chain EXCEPT ![e] = Tail(@) \o t],
         \A o \in ToSet(t) : o.do # "remote"
  PROVE  /\ \A f \in Ends : f # e => chain'[f] = chain[f]
         /\ \A o \in ToSet(chain'[e]) : o.do = "remote" => o \in ToSet(chain[e])
<1>1. /\ chain \in [Ends -> Seq(Operations)] /\ chain[e] \in Seq(Operations)
  BY DEF TracksInv, PeerInv, Typed
<1>2. Tail(chain[e]) \in Seq(Operations) /\ ToSet(Tail(chain[e])) \subseteq ToSet(chain[e])
  BY <1>1, Shorter
<1>3. ToSet(Tail(chain[e]) \o t) \subseteq ToSet(Tail(chain[e])) \union ToSet(t)
  BY <1>2, Joint
<1>4. chain'[e] = Tail(chain[e]) \o t /\ \A f \in Ends : f # e => chain'[f] = chain[f]
  BY <1>1
<1> QED  BY <1>2, <1>3, <1>4

\* setLocalDescription: a description has the tracks that are added, and none
\* as long as it goes over relays.
LEMMA setLocalGoes ==
  ASSUME TracksInv, NEW e \in Ends, chain[e] # <<>>, setLocalDescription(e),
         UNCHANGED <<owned, metas, known, shown>>
  PROVE  Goes
<1> DEFINE op == Head(chain[e])
           offers == pc[e].state # "have-remote-offer"
           generation == pc[e].generation + (IF op.for = "restart" THEN 1 ELSE 0)
           tracks == IF offers THEN pc[e].added
                               ELSE Smaller(pc[e].added, pc[e].sections)
           sections == IF offers THEN Larger(pc[e].sections, pc[e].added)
                                 ELSE pc[e].sections
           buffered == IF op.for = "offer" THEN peer[e].buffered ELSE {}
           x == Signal(IF offers THEN "offer" ELSE "answer",
                       generation, tracks, sections)
<1>1. /\ chain \in [Ends -> Seq(Operations)] /\ wire \in [Ends -> Seq(Messages)]
      /\ pc \in [Ends -> Connections] /\ pc[e] \in Connections
      /\ \A m \in relays : m[2].tracks = 0
      /\ PeerInv /\ Other(e) \in Ends /\ Other(Other(e)) = e
      /\ (\A f \in Ends : Facts(f))
  BY PeerFacts, TwoEnds DEF TracksInv, PeerInv, Typed
<1>2. /\ op.do = "local"
      /\ pc' = [pc EXCEPT ![e] =
           IF offers
             THEN [pc[e] EXCEPT !.state = "have-local-offer",
                                !.generation = generation,
                                !.offering = tracks]
             ELSE [pc[e] EXCEPT !.state = "stable", !.sending = tracks,
                                !.needed = FALSE]]
      /\ emitSignal(e, x)
      /\ chain' = [chain EXCEPT ![e] = Tail(@) \o Add(e, buffered)[1]]
  BY DEF setLocalDescription
<1>3. \A f \in Ends : pc'[f].arrived = pc[f].arrived /\ pc'[f].added = pc[f].added
  <2> HIDE DEF offers, generation, tracks
  <2>1. CASE offers
    BY <1>1, <1>2, <2>1 DEF Connections
  <2>2. CASE ~offers
    BY <1>1, <1>2, <2>2 DEF Connections
  <2> QED  BY <2>1, <2>2
<1>4. /\ \A f \in Ends : f # e => chain'[f] = chain[f]
      /\ \A o \in ToSet(chain'[e]) : o.do = "remote" => o \in ToSet(chain[e])
  <2> DEFINE y == Op("candidate", Candidate(pc[e].remote), "none")
  <2>1. buffered \subseteq Generations
    <3>1. peer[e] \in PeerHandles
      BY <1>1 DEF Facts
    <3> QED  BY <3>1 DEF PeerHandles
  <2> HIDE DEF buffered
  <2>2. Add(e, buffered)[1] = IF pc[e].remote \in buffered THEN <<y>> ELSE <<>>
    BY Added
  <2>3. pc[e].remote \in buffered => y \in Operations /\ y.do = "candidate"
    BY <2>1, CandidateKinds
  <2> HIDE DEF y
  <2>4. /\ <<>> \in Seq(Operations) /\ ToSet(<<>>) = {}
        /\ y \in Operations => <<y>> \in Seq(Operations) /\ ToSet(<<y>>) = {y}
    BY FewOf, OperationTypes
  <2>5. /\ Add(e, buffered)[1] \in Seq(Operations)
        /\ \A o \in ToSet(Add(e, buffered)[1]) : o.do # "remote"
    BY <2>2, <2>3, <2>4
  <2> QED  BY <1>2, <2>5, RemoteKept
<1>5. /\ tracks \in Tracks /\ tracks <= pc[e].added /\ sections \in Tracks
      /\ x.tracks = tracks
  <2>1. pc[e].added \in Tracks /\ pc[e].sections \in Tracks
    BY <1>1 DEF Connections
  <2> QED  BY <2>1, BoundsAssumption DEF Tracks, Smaller, Larger, Signal
<1>6. peer[e].open => x \in Signals
  <2>1. SUFFICES ASSUME peer[e].open PROVE generation \in Generations
    BY <1>5 DEF Signal, Signals
  <2>2. peer[e].wanted
    BY <1>1, <2>1 DEF Facts
  <2>3. op = Local("create") \/ op = Local("offer")
    <3>1. Head(chain[e]) = chain[e][1]
      BY <1>1, FirstKind
    <3>2. chain[e][1].do = "local"
      BY <1>2, <3>1
    <3>3. Creating(chain[e][1]) \/ chain[e][1] = Local("offer")
      BY <1>1, <2>2, <3>2, FirstKind DEF Reviving
    <3> QED  BY <3>1, <3>3 DEF Creating
  <2>4. op.for # "restart"
    BY <2>3 DEF Local, Op
  <2> QED  BY <1>1, <2>4 DEF Facts
<1>7. ~peer[e].open => tracks = 0
  <2>1. SUFFICES ASSUME ~peer[e].open PROVE tracks = 0
    OBVIOUS
  <2>2. ~Both
    BY <2>1, TwoEnds DEF Both
  <2>3. pc[e].added = 0
    BY <1>1, <2>2 DEF PeerInv, Opening
  <2> QED  BY <1>5, <2>3 DEF Tracks
<1> HIDE DEF x, tracks
<1>8. \A m \in relays' : m[2].tracks = 0
  BY <1>1, <1>2, <1>5, <1>7 DEF emitSignal
<1>9. \A f \in Ends :
        \/ wire'[f] = wire[f]
        \/ x \in Signals /\ x.tracks <= pc[Other(f)].added
           /\ wire'[f] = Append(wire[f], x)
  BY <1>1, <1>2, <1>5, <1>6 DEF emitSignal
<1> QED  BY <1>1, <1>3, <1>4, <1>8, <1>9 DEF Goes

\* setRemoteDescription, when the browser takes the description: the tracks that
\* have arrived are those of some description that was told of.
LEMMA RemoteDone ==
  ASSUME TracksInv, NEW e \in Ends, chain[e] # <<>>, setRemoteDescription(e)
  PROVE  \/ reject(e)
         \/ /\ relays' = relays /\ wire' = wire
            /\ \A f \in Ends : pc'[f].added = pc[f].added
            /\ \A f \in Ends : f # e => pc'[f].arrived = pc[f].arrived
            /\ \E n \in Reached(e) :
                 n \in Tracks /\ pc'[e].arrived = Larger(pc[e].arrived, n)
            /\ \A f \in Ends : f # e => chain'[f] = chain[f]
            /\ \A o \in ToSet(chain'[e]) : o.do = "remote" => o \in ToSet(chain[e])
<1> DEFINE op == chain[e][1]
           d == op.signal
           a == Larger(pc[e].arrived, d.tracks)
           l == Larger(pc[e].sections, d.sections)
<1>1. /\ Head(chain[e]) = op /\ op \in ToSet(chain[e]) /\ op \in Operations
      /\ op.do = "remote" => Taking(op) \/ Settling(op)
      /\ pc \in [Ends -> Connections] /\ pc[e] \in Connections
      /\ Tail(chain[e]) \in Seq(Operations)
      /\ ToSet(Tail(chain[e])) \subseteq ToSet(chain[e])
  BY FirstKind DEF TracksInv, PeerInv, Typed
<1>2. /\ op.do = "remote" /\ d \in Signals /\ d.generation \in Generations
      /\ d.tracks \in Tracks /\ d.sections \in Tracks
      /\ op.for \in {"offer", "answer"}
      /\ d.tracks \in Reached(e)
  <2>1. op.do = "remote"
    BY <1>1 DEF setRemoteDescription
  <2>2. op.for \in {"offer", "answer"}
    BY <1>1, <2>1 DEF Taking, Settling
  <2> QED  BY <1>1, <2>1, <2>2 DEF TracksInv, Operations, Signals
<1>3. CASE d.type = "answer" /\ pc[e].state # "have-local-offer"
  BY <1>1, <1>3 DEF setRemoteDescription
<1>4. CASE ~(d.type = "answer" /\ pc[e].state # "have-local-offer")
  <2>1. /\ pc' = [pc EXCEPT ![e] =
             IF d.type = "offer"
               THEN [pc[e] EXCEPT !.remote = d.generation, !.sections = l,
                                  !.arrived = a, !.state = "have-remote-offer"]
               ELSE [pc[e] EXCEPT !.remote = d.generation, !.sections = l,
                                  !.arrived = a, !.state = "stable",
                                  !.sending = pc[e].offering, !.needed = FALSE]]
        /\ flushPendingRemoteCandidates(e, d.generation, op.for)
        /\ relays' = relays /\ wire' = wire
    BY <1>1, <1>4 DEF setRemoteDescription
  <2>2. /\ \A f \in Ends : pc'[f].added = pc[f].added
        /\ \A f \in Ends : f # e => pc'[f].arrived = pc[f].arrived
        /\ pc'[e].arrived = a
    <3> HIDE DEF l, a
    <3>1. CASE d.type = "offer"
      BY <1>1, <2>1, <3>1 DEF Connections
    <3>2. CASE d.type # "offer"
      BY <1>1, <2>1, <3>2 DEF Connections
    <3> QED  BY <3>1, <3>2
  <2> DEFINE x == Op("candidate", Candidate(d.generation), op.for)
             y == Local("offer")
  <2>3. x \in Operations /\ x.do = "candidate" /\ y \in Operations /\ y.do = "local"
    BY <1>2, CandidateKinds, OperationTypes DEF Local, Op
  <2>4. /\ \A f \in Ends : f # e => chain'[f] = chain[f]
        /\ \/ chain'[e] = Append(Tail(chain[e]), x)
           \/ chain'[e] = Tail(chain[e]) \o <<y>>
           \/ chain'[e] = Tail(chain[e]) \o <<>>
    <3>1. \A f \in Ends : f # e => chain'[f] = chain[f]
      BY <1>2, <2>1, FlushedSo DEF TracksInv
    <3>2. Flushed(e, d.generation, op.for)
      BY <1>2, <2>1, FlushedSo DEF TracksInv
    <3> QED  BY <3>1, <3>2 DEF Flushed, Then
  <2>5. \A o \in ToSet(chain'[e]) : o.do = "remote" => o \in ToSet(chain[e])
    <3> HIDE DEF x, y, op
    <3>1. ToSet(Append(Tail(chain[e]), x)) = ToSet(Tail(chain[e])) \union {x}
      <4> DEFINE s == Tail(chain[e])
      <4>1. s \in Seq(Operations) /\ x \in Operations
        BY <1>1, <2>3
      <4> HIDE DEF s
      <4>2. ToSet(Append(s, x)) = ToSet(s) \union {x}
        BY <4>1, Longer
      <4> QED  BY <4>2 DEF s
    <3>2. /\ <<y>> \in Seq(Operations) /\ ToSet(<<y>>) = {y}
          /\ <<>> \in Seq(Operations) /\ ToSet(<<>>) = {}
      BY <2>3, FewOf
    <3>3. ToSet(Tail(chain[e]) \o <<y>>) \subseteq ToSet(Tail(chain[e])) \union {y}
      BY <1>1, <3>2, Joint
    <3>4. Tail(chain[e]) \o <<>> = Tail(chain[e])
      BY <1>1
    <3> QED  BY <1>1, <2>3, <2>4, <3>1, <3>3, <3>4
  <2> QED  BY <1>2, <2>1, <2>2, <2>4, <2>5
<1> QED  BY <1>3, <1>4

\* An operation after which nothing has arrived.
LEMMA quietlyDone ==
  ASSUME TracksInv, NEW e \in Ends, chain[e] # <<>>, UNCHANGED <<owned, metas, known, shown>>,
         \/ rollback(e)
         \/ addIceCandidate(e)
         \/ setRemoteDescription(e) /\ pc'[e].arrived = pc[e].arrived
  PROVE  Goes
<1>1. /\ chain \in [Ends -> Seq(Operations)] /\ chain[e] \in Seq(Operations)
      /\ pc \in [Ends -> Connections] /\ pc[e] \in Connections
  BY DEF TracksInv, PeerInv, Typed
<1>2. /\ <<>> \in Seq(Operations) /\ ToSet(<<>>) = {}
      /\ <<Local("offer")>> \in Seq(Operations)
      /\ ToSet(<<Local("offer")>>) = {Local("offer")}
      /\ <<Local("restart")>> \in Seq(Operations)
      /\ ToSet(<<Local("restart")>>) = {Local("restart")}
      /\ Local("offer").do = "local" /\ Local("restart").do = "local"
  BY OperationTypes, FewOf DEF Local, Op
<1>3. \A for : Then(e, for) \in Seq(Operations)
               /\ \A o \in ToSet(Then(e, for)) : o.do # "remote"
  BY <1>2 DEF Then
<1>4. CASE reject(e)
  <2>1. /\ chain' = [chain EXCEPT ![e] = <<>>] /\ pc' = pc /\ relays' = relays
        /\ wire' = wire
    BY <1>4 DEF reject
  <2> QED  BY <1>1, <1>2, <2>1, QuietGoes
<1>5. CASE rollback(e) /\ ~reject(e)
  <2>1. /\ pc' = [pc EXCEPT ![e] = [pc[e] EXCEPT !.state = "stable", !.needed = FALSE]]
        /\ relays' = relays /\ wire' = wire
        /\ chain' = [chain EXCEPT ![e] = Tail(@) \o
             (IF Head(@).for = "restart" THEN <<Local("restart")>> ELSE <<>>)]
    BY <1>1, <1>5 DEF rollback
  <2> DEFINE t == IF Head(chain[e]).for = "restart" THEN <<Local("restart")>> ELSE <<>>
  <2>2. t \in Seq(Operations) /\ \A o \in ToSet(t) : o.do # "remote"
    BY <1>2
  <2>3. chain' = [chain EXCEPT ![e] = Tail(@) \o t]
    BY <2>1
  <2> HIDE DEF t
  <2>4. /\ \A f \in Ends : f # e => chain'[f] = chain[f]
        /\ \A o \in ToSet(chain'[e]) : o.do = "remote" => o \in ToSet(chain[e])
    BY <2>2, <2>3, RemoteKept
  <2>5. \A f \in Ends : pc'[f].arrived = pc[f].arrived /\ pc'[f].added = pc[f].added
    BY <1>1, <2>1 DEF Connections
  <2> QED  BY <2>1, <2>4, <2>5, QuietGoes
<1>6. CASE addIceCandidate(e) /\ ~reject(e)
  <2>1. /\ pc' = pc /\ relays' = relays /\ wire' = wire
        /\ chain' = [chain EXCEPT ![e] = Tail(@) \o Then(e, Head(chain[e]).for)]
    BY <1>6 DEF addIceCandidate
  <2>2. /\ \A f \in Ends : f # e => chain'[f] = chain[f]
        /\ \A o \in ToSet(chain'[e]) : o.do = "remote" => o \in ToSet(chain[e])
    BY <1>3, <2>1, RemoteKept
  <2> QED  BY <2>1, <2>2, QuietGoes
<1>7. CASE setRemoteDescription(e) /\ pc'[e].arrived = pc[e].arrived /\ ~reject(e)
  <2>1. /\ relays' = relays /\ wire' = wire
        /\ \A f \in Ends : pc'[f].added = pc[f].added
        /\ \A f \in Ends : pc'[f].arrived = pc[f].arrived
        /\ \A f \in Ends : f # e => chain'[f] = chain[f]
        /\ \A o \in ToSet(chain'[e]) : o.do = "remote" => o \in ToSet(chain[e])
    BY <1>7, RemoteDone
  <2> QED  BY <2>1, QuietGoes
<1> QED  BY <1>4, <1>5, <1>6, <1>7

-----------------------------------------------------------------------------
\* The first of the tracks that are new, and how many they are.
LEMMA NewTracks ==
  ASSUME NEW a \in Nat, NEW n \in Nat, a < n
  PROVE  /\ (CHOOSE t \in a + 1..n : \A u \in a + 1..n : t <= u) = a + 1
         /\ Cardinality(a + 1..n) = n - a
         /\ a + 1..n # {}
<1>1. /\ a + 1 \in a + 1..n /\ \A u \in a + 1..n : a + 1 <= u
      /\ \A t \in a + 1..n : (\A u \in a + 1..n : t <= u) => t = a + 1
  OBVIOUS
<1>2. (CHOOSE t \in a + 1..n : \A u \in a + 1..n : t <= u) = a + 1
  BY <1>1
<1>3. Cardinality(a + 1..n) = n - a
  <2>1. a + 1 \in Int /\ n \in Int /\ ~(a + 1 > n)
    OBVIOUS
  <2>2. Cardinality(a + 1..n) = n - (a + 1) + 1
    BY <2>1, FS_Interval
  <2> QED  BY <2>2
<1> QED  BY <1>1, <1>2, <1>3

\* What remains of a sequence when its first c are taken.
LEMMA Remaining ==
  ASSUME NEW s \in Seq(Nat), NEW c \in Nat, NEW t, t = SubSeq(s, c + 1, Len(s))
  PROVE  /\ t \in Seq(Nat) /\ Len(t) \in Nat
         /\ DOMAIN t = 1..(Len(s) - c)
         /\ Len(t) = IF c <= Len(s) THEN Len(s) - c ELSE 0
         /\ \A i \in DOMAIN t : i + c \in DOMAIN s /\ t[i] = s[i + c]
<1>1. Len(s) \in Nat /\ DOMAIN s = 1..Len(s)
  OBVIOUS
<1>2. CASE c <= Len(s)
  <2>1. /\ t \in Seq(Nat) /\ DOMAIN t = 1..(Len(s) - c)
        /\ Len(t) = Len(s) - c
        /\ \A i \in 1..(Len(s) - c) : t[i] = s[i + c]
    BY <1>2
  <2>2. Len(s) - c \in Nat /\ \A i \in 1..(Len(s) - c) : i + c \in 1..Len(s)
    BY <1>1, <1>2
  <2>3. \A i \in DOMAIN t : i + c \in DOMAIN s /\ t[i] = s[i + c]
    BY <1>1, <2>1, <2>2
  <2> QED  BY <1>2, <2>1, <2>2, <2>3
<1>3. CASE c > Len(s)
  <2>1. t = <<>>
    BY <1>3
  <2>2. 1..(Len(s) - c) = {}
    BY <1>1, <1>3
  <2>3. DOMAIN <<>> = {} /\ Len(<<>>) = 0 /\ <<>> \in Seq(Nat)
    OBVIOUS
  <2> QED  BY <1>1, <1>3, <2>1, <2>2, <2>3
<1> QED  BY <1>1, <1>2, <1>3

\* receiveRemoteTrack: every room takes its next track for what it was told of
\* next.
LEMMA receiveRemoteTrackFits ==
  ASSUME TracksInv, NEW e \in Ends, NEW n \in Nat, pc[e].arrived < n,
         NEW r0 \in Rooms, n <= Top(e, r0),
         receiveRemoteTrack(e, pc[e].arrived + 1..n)
  PROVE  /\ TracksTyped' /\ MetadataFits'
         /\ known'[e] = 1..n /\ \A f \in Ends : f # e => known'[f] = known[f]
         /\ \A f \in Ends : f # e => metas'[f] = metas[f]
         /\ \A r \in Rooms :
              /\ Len(metas'[e][r]) =
                   IF n <= Top(e, r) THEN Top(e, r) - n ELSE 0
              /\ \A k \in DOMAIN metas'[e][r] : metas'[e][r][k] = n + k
              /\ metas'[e][r] # <<>> => Len(metas'[e][r]) > 0
<1> DEFINE a == pc[e].arrived
           new == a + 1..n
           first == CHOOSE t \in new : \A u \in new : t <= u
           rest(r) == SubSeq(metas[e][r], Cardinality(new) + 1, Len(metas[e][r]))
           some == {t \in new : \E r \in Rooms : t - first + 1 <= Len(metas[e][r])}
           pairs == {y \in Rooms \X new : y[2] - first + 1 <= Len(metas[e][y[1]])}
           seen == {[room |-> x[1], track |-> x[2],
                     meta |-> metas[e][x[1]][x[2] - first + 1]] : x \in pairs}
<1>1. /\ a \in Nat /\ a < n /\ n <= Top(e, r0)
      /\ \A r \in Rooms :
           /\ metas[e][r] \in Seq(Nat) /\ Len(metas[e][r]) \in Nat
           /\ Top(e, r) = a + Len(metas[e][r])
           /\ \A k \in DOMAIN metas[e][r] : metas[e][r][k] = a + k
      /\ TracksTyped
  BY TrackTypes DEF TrackFacts, TracksInv, Told, Top
<1>2. new # {} /\ first = a + 1 /\ Cardinality(new) = n - a
  BY <1>1, NewTracks
<1>3. /\ shown' = [shown EXCEPT ![e] = @ \union seen]
      /\ known' = [known EXCEPT ![e] = @ \union some]
      /\ metas' = [metas EXCEPT ![e] = [r \in Rooms |-> rest(r)]]
  BY <1>2 DEF receiveRemoteTrack
<1>4. \A r \in Rooms :
        /\ rest(r) \in Seq(Nat)
        /\ Len(rest(r)) = IF n <= Top(e, r) THEN Top(e, r) - n ELSE 0
        /\ \A k \in DOMAIN rest(r) : rest(r)[k] = n + k
        /\ rest(r) # <<>> => Len(rest(r)) > 0
  <2> TAKE r \in Rooms
  <2> DEFINE s == metas[e][r]
             c == n - a
             t == SubSeq(s, c + 1, Len(s))
  <2>1. rest(r) = t
    BY <1>2
  <2>2. s \in Seq(Nat) /\ c \in Nat /\ Len(s) \in Nat
    BY <1>1
  <2>3. \A k \in DOMAIN s : s[k] = a + k
    BY <1>1
  <2>4. Top(e, r) = a + Len(s)
    BY <1>1
  <2> HIDE DEF s, rest
  <2>5. /\ t \in Seq(Nat) /\ Len(t) \in Nat
        /\ DOMAIN t = 1..(Len(s) - c)
        /\ Len(t) = IF c <= Len(s) THEN Len(s) - c ELSE 0
        /\ \A i \in DOMAIN t : i + c \in DOMAIN s /\ t[i] = s[i + c]
    <3>1. t = SubSeq(s, c + 1, Len(s))
      OBVIOUS
    <3> HIDE DEF c, t
    <3> QED  BY <2>2, <3>1, Remaining
  <2> HIDE DEF t
  <2>6. Len(t) = IF n <= Top(e, r) THEN Top(e, r) - n ELSE 0
    BY <1>1, <2>2, <2>4, <2>5
  <2>7. ASSUME NEW k \in DOMAIN t PROVE t[k] = n + k
    <3>1. k \in Nat /\ t[k] = a + (k + c)
      BY <2>2, <2>3, <2>5
    <3> QED  BY <1>1, <3>1
  <2>8. t # <<>> => Len(t) > 0
    BY <2>5
  <2> QED  BY <2>1, <2>5, <2>6, <2>7, <2>8
<1>5. some = new
  <2>1. \A t \in new : t - (a + 1) + 1 <= Len(metas[e][r0])
    BY <1>1
  <2> QED  BY <1>2, <2>1
<1>6. 1..a \union new = 1..n
  BY <1>1
<1>7. \A t \in new : /\ t \in Nat /\ t - (a + 1) + 1 = t - a /\ t - a \in Nat
                      /\ t - a >= 1 /\ a + (t - a) = t
  <2> HIDE DEF a
  <2> QED  BY <1>1
<1>8. \A z \in seen : /\ z \in [room : Rooms, track : Nat, meta : Nat]
                      /\ z.meta = z.track
  <2> SUFFICES ASSUME NEW x \in pairs
               PROVE  /\ x[1] \in Rooms /\ x[2] \in Nat
                      /\ metas[e][x[1]][x[2] - first + 1] = x[2]
    OBVIOUS
  <2>1. x[1] \in Rooms /\ x[2] \in new /\ x[2] - first + 1 <= Len(metas[e][x[1]])
    OBVIOUS
  <2>2. /\ x[2] \in Nat /\ x[2] - (a + 1) + 1 = x[2] - a /\ x[2] - a \in Nat
        /\ x[2] - a >= 1 /\ a + (x[2] - a) = x[2]
    BY <1>7, <2>1
  <2>3. x[2] - first + 1 = x[2] - a
    BY <1>2, <2>2
  <2>4. x[2] - a \in DOMAIN metas[e][x[1]]
    <3>1. DOMAIN metas[e][x[1]] = 1..Len(metas[e][x[1]]) /\ Len(metas[e][x[1]]) \in Nat
      BY <1>1, <2>1
    <3>2. x[2] - a \in Nat /\ x[2] - a >= 1 /\ x[2] - a <= Len(metas[e][x[1]])
      BY <2>1, <2>2, <2>3
    <3> QED  BY <3>1, <3>2
  <2>5. metas[e][x[1]][x[2] - a] = x[2]
    BY <1>1, <2>1, <2>2, <2>4
  <2> QED  BY <2>1, <2>2, <2>3, <2>5
<1> HIDE DEF seen, some, rest, new, pairs, first
<1>9. /\ shown'[e] = shown[e] \union seen /\ known'[e] = known[e] \union some
      /\ metas'[e] = [r \in Rooms |-> rest(r)]
      /\ \A f \in Ends : f # e => /\ metas'[f] = metas[f] /\ known'[f] = known[f]
                                  /\ shown'[f] = shown[f]
      /\ DOMAIN metas' = Ends /\ DOMAIN known' = Ends /\ DOMAIN shown' = Ends
  BY <1>1, <1>3 DEF TracksTyped
<1>10. known'[e] = 1..n
  BY <1>5, <1>6, <1>9 DEF TracksInv
<1>11. [r \in Rooms |-> rest(r)] \in [Rooms -> Seq(Nat)]
  BY <1>4
<1>12. TracksTyped'
  <2>1. metas' \in [Ends -> [Rooms -> Seq(Nat)]]
    BY <1>1, <1>3, <1>11 DEF TracksTyped
  <2>2. known[e] \union some \in SUBSET Nat
    BY <1>1, <1>5 DEF TracksTyped, new
  <2>3. known' \in [Ends -> SUBSET Nat]
    BY <1>1, <1>3, <2>2 DEF TracksTyped
  <2>4. shown[e] \union seen \in SUBSET [room : Rooms, track : Nat, meta : Nat]
    BY <1>1, <1>8 DEF TracksTyped
  <2>5. shown' \in [Ends -> SUBSET [room : Rooms, track : Nat, meta : Nat]]
    BY <1>1, <1>3, <2>4 DEF TracksTyped
  <2> QED  BY <2>1, <2>3, <2>5 DEF TracksTyped
<1>13. MetadataFits'
  BY <1>8, <1>9 DEF MetadataFits, TracksInv
<1> QED  BY <1>4, <1>9, <1>10, <1>12, <1>13

\* Nothing but a description of the other end brings tracks.
LEMMA ArrivesBy ==
  ASSUME TracksInv, NEW e \in Ends, complete(e), pc'[e].arrived # pc[e].arrived
  PROVE  setRemoteDescription(e) /\ ~reject(e)
<1>1. pc \in [Ends -> Connections] /\ pc[e] \in Connections
  BY DEF TracksInv, PeerInv, Typed
<1>2. ~reject(e)
  BY DEF reject
<1>3. ~addIceCandidate(e)
  BY DEF addIceCandidate, reject
<1>4. ASSUME rollback(e) PROVE FALSE
  <2>1. pc' = [pc EXCEPT ![e] = [pc[e] EXCEPT !.state = "stable", !.needed = FALSE]]
    BY <1>1, <1>2, <1>4 DEF rollback
  <2> QED  BY <1>1, <2>1 DEF Connections
<1>5. ASSUME setLocalDescription(e) PROVE FALSE
  <2>1. PICK generation, tracks :
          \/ pc' = [pc EXCEPT ![e] = [pc[e] EXCEPT !.state = "have-local-offer",
                                                   !.generation = generation,
                                                   !.offering = tracks]]
          \/ pc' = [pc EXCEPT ![e] = [pc[e] EXCEPT !.state = "stable",
                                                   !.sending = tracks,
                                                   !.needed = FALSE]]
    BY <1>5 DEF setLocalDescription
  <2>2. pc'[e].arrived = pc[e].arrived
    BY <1>1, <2>1 DEF Connections
  <2> QED  BY <2>2
<1> QED  BY <1>2, <1>3, <1>4, <1>5 DEF complete

\* The browser goes on with the operations of an end, and takes the tracks that
\* a description brings for those the rooms were told of.
LEMMA negotiateTells ==
  ASSUME TracksInv, PeerInv', NEW e \in Ends, negotiate(e)
  PROVE  TracksInv'
<1>1. /\ complete(e) /\ owned' = owned /\ plan' = plan /\ chain[e] # <<>>
      /\ receiveRemoteTrack(e, {t \in 1..MaxTracks :
                                  pc[e].arrived < t /\ t <= pc'[e].arrived})
  BY DEF negotiate, complete
<1>2. \A f \in Ends : TrackFacts(f)
  BY TrackTypes
<1>3. CASE pc'[e].arrived = pc[e].arrived
  <2>1. {t \in 1..MaxTracks : pc[e].arrived < t /\ t <= pc[e].arrived} = {}
    BY <1>2 DEF TrackFacts
  <2>2. UNCHANGED <<owned, metas, known, shown>>
    BY <1>1, <1>3, <2>1 DEF receiveRemoteTrack
  <2>3. Goes
    BY <1>1, <1>3, <2>2, setLocalGoes, quietlyDone DEF complete
  <2> QED  BY <2>3, GoesKeeps
<1>4. CASE pc'[e].arrived # pc[e].arrived
  <2> DEFINE a == pc[e].arrived
  <2>1. setRemoteDescription(e) /\ ~reject(e)
    BY <1>1, <1>4, ArrivesBy
  <2>2. /\ relays' = relays /\ wire' = wire
        /\ \A f \in Ends : pc'[f].added = pc[f].added
        /\ \A f \in Ends : f # e => pc'[f].arrived = pc[f].arrived
        /\ \E n \in Reached(e) : n \in Tracks /\ pc'[e].arrived = Larger(a, n)
        /\ \A f \in Ends : f # e => chain'[f] = chain[f]
        /\ \A o \in ToSet(chain'[e]) : o.do = "remote" => o \in ToSet(chain[e])
    BY <1>1, <2>1, RemoteDone
  <2>3. PICK n \in Reached(e) : n \in Tracks /\ pc'[e].arrived = Larger(a, n)
    BY <2>2
  <2>4. a \in Nat /\ n \in Nat /\ n <= MaxTracks /\ a < n /\ pc'[e].arrived = n
    BY <1>2, <1>4, <2>3, BoundsAssumption DEF TrackFacts, Larger, Tracks
  <2>5. PICK r0 \in Rooms : n <= Top(e, r0)
    BY <2>3, <2>4 DEF Reached
  <2>6. {t \in 1..MaxTracks : a < t /\ t <= pc'[e].arrived} = a + 1..n
    BY <2>4, BoundsAssumption
  <2>7. receiveRemoteTrack(e, a + 1..n)
    BY <1>1, <2>6
  <2>8. /\ TracksTyped' /\ MetadataFits'
        /\ known'[e] = 1..n /\ \A f \in Ends : f # e => known'[f] = known[f]
        /\ \A f \in Ends : f # e => metas'[f] = metas[f]
        /\ \A r \in Rooms :
             /\ Len(metas'[e][r]) = IF n <= Top(e, r) THEN Top(e, r) - n ELSE 0
             /\ \A k \in DOMAIN metas'[e][r] : metas'[e][r][k] = n + k
             /\ metas'[e][r] # <<>> => Len(metas'[e][r]) > 0
    BY <2>4, <2>5, <2>7, receiveRemoteTrackFits
  <2>9. /\ \A r \in Rooms : Top(e, r)' = Larger(n, Top(e, r))
        /\ \A f \in Ends : f # e => \A r \in Rooms : Top(f, r)' = Top(f, r)
    <3>1. \A r \in Rooms : Top(e, r)' = Larger(n, Top(e, r))
      <4> TAKE r \in Rooms
      <4>1. Top(e, r)' = n + Len(metas'[e][r])
        BY <2>4 DEF Top
      <4>2. Top(e, r) \in Nat
        BY <1>2 DEF TrackFacts
      <4>3. Len(metas'[e][r]) = IF n <= Top(e, r) THEN Top(e, r) - n ELSE 0
        BY <2>8
      <4> QED  BY <2>4, <4>1, <4>2, <4>3 DEF Larger
    <3>2. \A f \in Ends : f # e => \A r \in Rooms : Top(f, r)' = Top(f, r)
      BY <2>2, <2>8 DEF Top
    <3> QED  BY <3>1, <3>2
  <2>10. \A f \in Ends : Reached(f) \subseteq Reached(f)'
    <3>1. Reached(e) \subseteq Reached(e)'
      <4>1. \A r \in Rooms : Top(e, r) \in Nat
        BY <1>2 DEF TrackFacts
      <4>2. \A r \in Rooms, m \in Nat : m <= Top(e, r) => m <= Top(e, r)'
        BY <2>4, <2>9, <4>1 DEF Larger
      <4>3. \A m \in Nat : m <= a => m <= n
        BY <2>4
      <4> QED  BY <2>4, <4>2, <4>3 DEF Reached
    <3>2. \A f \in Ends : f # e => Reached(f)' = Reached(f)
      BY <2>2, <2>9 DEF Reached
    <3> QED  BY <3>1, <3>2
  <2>11. ASSUME NEW r \in Rooms PROVE Told(e, r)'
    <3>1. Told(e, r) /\ Top(e, r) \in Nat /\ Top(e, r) = a + Len(metas[e][r])
          /\ metas[e][r] \in Seq(Nat)
      BY <1>2 DEF TracksInv, TrackFacts, Top
    <3>2. \A k \in DOMAIN metas'[e][r] : metas'[e][r][k] = pc'[e].arrived + k
      BY <2>4, <2>8
    <3>3. metas'[e][r] # <<>> => Top(e, r)' <= owned'[Other(e)][r]
      <4>1. SUFFICES ASSUME metas'[e][r] # <<>>
                     PROVE  Top(e, r)' <= owned'[Other(e)][r]
        OBVIOUS
      <4>2. n < Top(e, r)
        BY <2>4, <2>8, <3>1, <4>1
      <4>3. Top(e, r)' = Top(e, r)
        BY <2>4, <2>9, <3>1, <4>2 DEF Larger
      <4>4. metas[e][r] # <<>>
        BY <2>4, <3>1, <4>2
      <4> QED  BY <1>1, <3>1, <4>3, <4>4 DEF Told
    <3>4. ASSUME NEW x \in ToSet(wire[e]), x \in Metas, x.room = r
          PROVE  /\ x.track <= owned[Other(e)][r]
                 /\ x.track <= n \/ x.track > Top(e, r)'
      <4>1. /\ x.track <= owned[Other(e)][r]
            /\ x.track <= a \/ x.track > Top(e, r)
        BY <3>1, <3>4 DEF Told
      <4>2. x.track \in Nat
        BY <3>4, MetaIs
      <4> QED  BY <2>4, <2>9, <3>1, <4>1, <4>2 DEF Larger
    <3>5. ASSUME NEW u \in Nat, Top(e, r)' < u, u <= owned[Other(e)][r]
          PROVE  Meta(r, u) \in ToSet(wire[e])
      <4>1. Top(e, r) < u
        BY <2>4, <2>9, <3>1, <3>5 DEF Larger
      <4> QED  BY <3>1, <3>5, <4>1 DEF Told
    <3> QED  BY <1>1, <2>2, <2>4, <3>2, <3>3, <3>4, <3>5 DEF Told
  <2>12. ASSUME NEW f \in Ends, f # e, NEW r \in Rooms PROVE Told(f, r)'
    <3>1. Told(f, r) /\ Top(f, r)' = Top(f, r) /\ pc'[f].arrived = pc[f].arrived
          /\ metas'[f] = metas[f]
      BY <2>2, <2>8, <2>9, <2>12 DEF TracksInv
    <3> QED  BY <1>1, <2>2, <3>1 DEF Told
  <2>13. ASSUME NEW f \in Ends
         PROVE  /\ known'[f] = 1..pc'[f].arrived
                /\ Increasing(wire'[f]) /\ Follows(wire'[f], Reached(f)')
                /\ Owning(f)'
                /\ \A o \in ToSet(chain'[f]) :
                     o.do = "remote" => o.signal.tracks \in Reached(f)'
    <3>1. /\ Increasing(wire[f]) /\ Follows(wire[f], Reached(f)) /\ Owning(f)
          /\ known[f] = 1..pc[f].arrived
          /\ \A o \in ToSet(chain[f]) : o.do = "remote" => o.signal.tracks \in Reached(f)
      BY DEF TracksInv
    <3>2. Follows(wire[f], Reached(f)')
      BY <2>10, <3>1 DEF Follows
    <3>3. Owning(f)'
      BY <1>1, <2>2, <3>1 DEF Owning
    <3>4. known'[f] = 1..pc'[f].arrived
      BY <2>2, <2>4, <2>8, <3>1
    <3>5. \A o \in ToSet(chain'[f]) : o.do = "remote" => o.signal.tracks \in Reached(f)'
      BY <2>2, <2>10, <3>1
    <3> QED  BY <2>2, <3>1, <3>2, <3>3, <3>4, <3>5
  <2>14. \A m \in relays' : m[2].tracks = 0
    BY <2>2 DEF TracksInv
  <2> QED  BY <2>8, <2>11, <2>12, <2>13, <2>14 DEF TracksInv
<1> QED  BY <1>3, <1>4

-----------------------------------------------------------------------------
\* What the rooms of an end were told of is what comes next, and the metadata
\* of the tracks they were not told of are on their way before the tracks.
THEOREM TracksKeepOrder == Spec => []TracksInv
<1>1. Spec => MediaInit /\ [][Next]_vars
  BY DEF Spec
<1>2. MediaInit => TracksInv
  BY TracksInvStarts
<1>3. TracksInv /\ PeerInv' /\ [Next]_vars => TracksInv'
  <2> SUFFICES ASSUME TracksInv, PeerInv', [Next]_vars PROVE TracksInv'
    OBVIOUS
  <2>1. ASSUME NEW e \in Ends, negotiate(e) PROVE TracksInv'
    BY <2>1, negotiateTells
  <2>2. ASSUME NEW e \in Ends, UNCHANGED mediaVars,
               createOffer(e) \/ renewOffer(e) \/ openChannel(e)
        PROVE  TracksInv'
    BY <2>2, quietlyGoes, GoesKeeps DEF mediaVars
  <2>3. ASSUME NEW e \in Ends, UNCHANGED mediaVars, sendOffer(e) \/ onicecandidate(e)
        PROVE  TracksInv'
    BY <2>3, signalsGo, GoesKeeps DEF mediaVars
  <2>4. ASSUME NEW e \in Ends, UNCHANGED mediaVars, relayed(e) \/ signalled(e)
        PROVE  TracksInv'
    BY <2>4, heardGoes, GoesKeeps DEF mediaVars
  <2>5. ASSUME NEW e \in Ends, receiveTrackMeta(e) PROVE TracksInv'
    BY <2>5, receiveTrackMetaTells
  <2>6. ASSUME NEW e \in Ends, NEW r \in Rooms, addTrack(e, r) PROVE TracksInv'
    BY <2>6, addTrackTells
  <2>7. CASE UNCHANGED vars
    <3>1. Goes
      BY <2>7 DEF vars, Goes, TracksInv
    <3> QED  BY <3>1, GoesKeeps
  <2> QED  BY <2>1, <2>2, <2>3, <2>4, <2>5, <2>6, <2>7 DEF Next
<1> QED  BY <1>1, <1>2, <1>3, PeerKeepsOrder, PTL

\* media.ts, receiveRemoteTrack: the metadata an app is given with a track is
\* what was sent with it, whichever rooms share the connection.
THEOREM MetadataIsRight == Spec => []MetadataFits
<1>1. TracksInv => MetadataFits
  BY DEF TracksInv
<1> QED  BY <1>1, TracksKeepOrder, PTL

\* The state of a connection and of its tracks has its types; no room is told
\* of more tracks than there are.
THEOREM TypeCorrect == Spec => []TypeOK
<1>1. TracksInv /\ PeerTypeOK => TypeOK
  <2> SUFFICES ASSUME TracksInv, PeerTypeOK PROVE TypeOK
    OBVIOUS
  <2>1. /\ owned \in [Ends -> [Rooms -> Tracks]] /\ pc \in [Ends -> Connections]
    BY DEF TracksInv, PeerInv, Typed
  <2>2. \A e \in Ends : known[e] \subseteq 1..MaxTracks
    <3> TAKE e \in Ends
    <3>1. known[e] = 1..pc[e].arrived /\ pc[e].arrived \in Tracks
      BY <2>1 DEF TracksInv, Connections
    <3> QED  BY <3>1, BoundsAssumption DEF Tracks
  <2>3. \A e \in Ends, r \in Rooms : Len(metas[e][r]) <= MaxTracks
    <3> TAKE e \in Ends, r \in Rooms
    <3>1. /\ TrackFacts(e) /\ TrackFacts(Other(e)) /\ Told(e, r)
      BY TrackTypes, TwoEnds DEF TracksInv
    <3>2. CASE metas[e][r] = <<>>
      BY <3>2, BoundsAssumption
    <3>3. CASE metas[e][r] # <<>>
      <4>1. Top(e, r) <= owned[Other(e)][r] /\ owned[Other(e)][r] <= MaxTracks
            /\ owned[Other(e)][r] \in Nat /\ pc[e].arrived \in Nat
            /\ Len(metas[e][r]) \in Nat
        BY <3>1, <3>3 DEF Told, TrackFacts
      <4> QED  BY <4>1, BoundsAssumption DEF Top
    <3> QED  BY <3>2, <3>3
  <2> QED  BY <2>1, <2>2, <2>3 DEF TypeOK
<1> QED  BY <1>1, TracksKeepOrder, PeerTypes, PTL
=============================================================================
