-------------------------- MODULE SignalingProofs --------------------------
(***************************************************************************)
(* Proofs about Signaling, for any number of peers, rooms, relays and      *)
(* connections, and any setting: the types of its variables; that an       *)
(* answer is applied to the offer it was made for; that no connection is   *)
(* forgotten before it has said that it closes, nor kept by a room when    *)
(* the registry has given it up; and that one that works is not taken away *)
(* by another, unless the registry had dropped that unclosed.              *)
(***************************************************************************)
EXTENDS Signaling, FiniteSetTheorems, TLAPS

(* The lower id of the two leads. *)
Leads(s) == Me(s) < Them(s)

(* Connections are made, and rooms connected, by the sides in use. *)
Places ==
  /\ \A h \in Handles : Alive(h) => pc[h].side \in Joined
  /\ \A s \in Sides : st[s].connected # None => s \in Joined

SignalTypes == TypeOK /\ Places

(* What a side calls its offer, or its answer, is one, if it is alive. *)
Makers ==
  /\ \A s \in Sides : Alive(st[s].offerPeer) =>
       /\ pc[st[s].offerPeer].use = "offer" /\ pc[st[s].offerPeer].side = s
       /\ pc[st[s].offerPeer].remote # None => st[s].answered
  /\ \A s \in Sides : Alive(st[s].answering) =>
       pc[st[s].answering].use = "answer" /\ pc[st[s].answering].side = s
  /\ \A t \in tasks : t.step = "init" /\ Alive(t.offer) =>
       /\ t.relay = None /\ t.by = None
       /\ pc[t.offer].use = "offer" /\ pc[t.offer].side = t.side
       /\ pc[t.offer].remote = None
       /\ \A s \in Sides : st[s].offerPeer # t.offer

(* An offer of the tracker is answered once. *)
Leases ==
  /\ \A x \in Rooms \X Peers : \A h \in offers[x] :
       Tracker /\ (Alive(h) => /\ pc[h].use = "leased" /\ pc[h].remote = None
                               /\ Home(pc[h].side) = x)
  /\ \A h \in Handles : Alive(h) /\ pc[h].use = "leased" => Tracker
  /\ \A t \in tasks : Tracker /\ t.step = "answer" /\ Alive(t.offer) =>
       /\ pc[t.offer].use = "leased" /\ pc[t.offer].remote = None
       /\ \A x \in Rooms \X Peers : t.offer \notin offers[x]
       /\ \A u \in tasks : u.step = "answer" /\ u.offer = t.offer => u = t

(* a was made to answer o. *)
Made(o, a) ==
  /\ a \in Handles
  /\ Alive(a) => pc[a].remote = o /\ pc[a].use \in {"answer", "shared", "left"}

(* Whatever carries an answer carries it with the offer it was made for. *)
Answers ==
  /\ \A m \in net : m.type = "answer" => Made(m.offer, m.by)
  /\ \A t \in tasks : t.step \in {"publish", "answer"} => Made(t.offer, t.by)
  /\ \A t \in tasks : t.step = "apply" => t.by \in Handles
  /\ \A t \in tasks : t.step = "apply" /\ Alive(t.by) =>
       /\ pc[t.by].use = "answer" /\ pc[t.by].remote = None
       /\ \A u \in tasks : u.step = "apply" /\ u.by = t.by => u = t

LinkInv ==
  SignalTypes /\ Makers /\ Leases /\ Answers /\ AnswerFitsOffer

(* Without a tracker only the one that leads makes offers. *)
Leaders ==
  /\ \A s \in Sides : st[s].offerPeer # None \/ st[s].init # None => Leads(s)
  /\ \A t \in tasks : t.step \in {"init", "announce"} => Leads(t.side)
  /\ \A m \in net : m.type = "offer" /\ ~Tracker => ~Leads(m.to)

(* A connection on its way is the only one of its side, which knows it. *)
Single ==
  OneLink =>
    /\ \A h \in Handles : Alive(h) /\ pc[h].use \in {"offer", "answer"} =>
         /\ shared[Pair(pc[h].side)] = None
         /\ st[pc[h].side].connected = None
         /\ pc[h].use = "offer" =>
              /\ Leads(pc[h].side)
              /\ h \in {st[pc[h].side].offerPeer, st[pc[h].side].init}
         /\ pc[h].use = "answer" =>
              ~Leads(pc[h].side) /\ h = st[pc[h].side].answering
    /\ \A s \in Sides : st[s].offerPeer # None => st[s].init = None
    /\ \A t \in tasks : t.step = "init" =>
         /\ Alive(t.offer)
         /\ st[t.side].init = t.offer /\ st[t.side].offerPeer = None

(* The registry has connections that live, each for the peer it leads to. *)
Registered ==
  \A x \in Pairs : shared[x] # None =>
    /\ Alive(shared[x]) /\ pc[shared[x]].use = "shared"
    /\ Pair(pc[shared[x]].side) = x

(* It has all of them, when there is one link at a time and no error. *)
AllRegistered ==
  OneLink /\ "error" \notin setting.faults =>
    \A h \in Handles :
      Alive(h) /\ pc[h].use = "shared" => shared[Pair(pc[h].side)] = h

Registry == Single /\ Registered /\ AllRegistered /\ ConnectedIsShared

RegistryInv == LinkInv /\ Leaders /\ Registry

-----------------------------------------------------------------------------
(* A side has two ends, which are peers of a pair. *)
LEMMA SideFacts ==
  ASSUME NEW s \in Sides
  PROVE  /\ s[1] \in Rooms /\ Me(s) \in Peers /\ Them(s) \in Peers
         /\ Me(s) # Them(s) /\ s = <<s[1], Me(s), Them(s)>>
         /\ Pair(s) \in Pairs /\ Pair(s)[1] = Me(s)
         /\ Across(s) \in Sides /\ Home(s) \in Rooms \X Peers
         /\ Me(Across(s)) = Them(s) /\ Them(Across(s)) = Me(s)
<1>1. PICK r \in Rooms, pq \in Pairs : s = <<r, pq[1], pq[2]>>
  BY DEF Sides
<1>2. pq[1] \in Peers /\ pq[2] \in Peers /\ pq[1] # pq[2]
  BY DEF Pairs
<1>3. <<s[2], s[3]>> \in Pairs /\ <<s[3], s[2]>> \in Pairs
  BY <1>1, <1>2 DEF Pairs
<1>4. <<s[1], s[3], s[2]>> \in Sides
  <2>1. <<s[1], s[3], s[2]>> =
          <<s[1], <<s[3], s[2]>>[1], <<s[3], s[2]>>[2]>>
    OBVIOUS
  <2> QED
    BY <1>1, <1>3, <2>1 DEF Sides
<1> QED
  BY <1>1, <1>2, <1>3, <1>4 DEF Me, Them, Pair, Across, Home

(* In one room, there is one side for each pair. *)
LEMMA OneSide ==
  ASSUME setting \in Settings, Cardinality(setting.rooms) = 1,
         NEW s \in Joined, NEW u \in Joined, Pair(s) = Pair(u)
  PROVE  s = u
<1>1. setting.rooms \subseteq Rooms
  BY SettingsAssumption
<1>2. IsFiniteSet(setting.rooms)
  BY <1>1, FS_Subset, RoomsAssumption
<1>3. PICK r : setting.rooms = {r}
  BY <1>2, FS_Singleton
<1>4. s \in Sides /\ u \in Sides /\ s[1] = r /\ u[1] = r
  BY <1>3 DEF Joined
<1>5. s = <<s[1], Me(s), Them(s)>> /\ u = <<u[1], Me(u), Them(u)>>
  BY <1>4, SideFacts
<1>6. Me(s) = Me(u) /\ Them(s) = Them(u)
  BY DEF Pair, Me, Them
<1> QED
  BY <1>4, <1>5, <1>6

(* What the types say of the parts of the state. *)
LEMMA Handled ==
  None \notin Handles
BY HandlesAssumption DEF None

LEMMA ConnectionTyped ==
  ASSUME TypeOK, NEW h \in Handles
  PROVE  /\ pc[h] \in Connections /\ pc[h].use \in Uses
         /\ pc[h].side \in Sides \union {<<>>}
         /\ pc[h].remote \in Handles \union {None} /\ pc[h].open \in BOOLEAN
         /\ DOMAIN pc = Handles
BY DEF TypeOK, Connections

LEMMA StateTyped ==
  ASSUME TypeOK, NEW s \in Sides
  PROVE  /\ st[s] \in PeerStates
         /\ st[s].offerPeer \in Handles \union {None}
         /\ st[s].answered \in BOOLEAN /\ st[s].active \in BOOLEAN
         /\ st[s].init \in Handles \union {None}
         /\ st[s].expiry \in Handles \union {None}
         /\ st[s].relays \in [Relays -> {"free", "placeholder", "sent"}]
         /\ st[s].answering \in Handles \union {None}
         /\ st[s].connected \in Handles \union {None}
         /\ st[s].active => st[s].connected # None
         /\ DOMAIN st = Sides
BY DEF TypeOK, PeerStates

LEMMA TaskTyped ==
  ASSUME TypeOK, NEW t \in tasks
  PROVE  /\ t \in Tasks /\ t.side \in Sides
         /\ t.relay \in Relays \union {None}
         /\ t.offer \in Handles /\ t.by \in Handles \union {None}
         /\ t.step \in {"init", "announce", "apply", "publish", "answer"}
BY DEF TypeOK, Tasks

LEMMA MessageTyped ==
  ASSUME TypeOK, NEW m \in net
  PROVE  /\ m \in Messages /\ m.to \in Sides /\ m.offer \in Handles
         /\ m.by \in Handles \union {None} /\ m.type \in {"offer", "answer"}
BY DEF TypeOK, Messages

LEMMA SettingTyped ==
  ASSUME TypeOK
  PROVE  /\ setting.rooms \subseteq Rooms /\ setting.relays \subseteq Relays
         /\ setting.handles \subseteq Handles /\ setting.ahead \in Nat
         /\ setting.often \in Nat /\ setting \in Settings
BY SettingsAssumption DEF TypeOK

(* What may go wrong is counted up to the bound. *)
LEMMA FaultTyped ==
  ASSUME TypeOK, NEW k, Fault(k) \/ NoFault
  PROVE  /\ setting' = setting /\ setting' \in Settings
         /\ faults' \in 0 .. setting'.often
<1>1. setting.often \in Nat /\ setting \in Settings
  BY SettingTyped
<1>2. faults \in 0 .. setting.often
  BY DEF TypeOK
<1> QED
  BY <1>1, <1>2 DEF Fault, NoFault

(* A handle is taken when nothing mentions it. *)
LEMMA FreshFacts ==
  ASSUME TypeOK, NEW a \in Handles, Fresh(a)
  PROVE  /\ ~Alive(a)
         /\ \A m \in net \union tasks : m.offer # a /\ m.by # a
         /\ \A s \in Sides :
              /\ st[s].offerPeer # a /\ st[s].init # a /\ st[s].expiry # a
              /\ st[s].answering # a /\ st[s].connected # a
         /\ \A g \in Handles : Alive(g) => pc[g].remote # a
         /\ \A x \in Rooms \X Peers : a \notin offers[x]
         /\ \A x \in Pairs : shared[x] # a
<1>1. a \notin Mentioned
  BY DEF Fresh, Unused
<1>2. DOMAIN offers = Rooms \X Peers
  BY DEF TypeOK
<1> DEFINE Carried == {{m.offer, m.by} : m \in net \union tasks}
           Known == {{st[s].offerPeer, st[s].init, st[s].expiry,
                      st[s].answering, st[s].connected} : s \in Sides}
           Ends == {{h, pc[h].remote} : h \in {g \in Handles : Alive(g)}}
           Ahead == {offers[x] : x \in DOMAIN offers}
           Held == {shared[x] : x \in Pairs}
<1>0. /\ a \notin UNION Carried /\ a \notin UNION Known
      /\ a \notin UNION Ends /\ a \notin UNION Ahead /\ a \notin Held
  <2>1. Mentioned = (UNION Carried) \union (UNION Known) \union (UNION Ends)
                      \union (UNION Ahead) \union Held
    BY Zenon DEF Mentioned
  <2> HIDE DEF Carried, Known, Ends, Ahead, Held
  <2> QED
    BY <1>1, <2>1
<1>3. \A m \in net \union tasks : a \notin {m.offer, m.by}
  <2> SUFFICES ASSUME NEW m \in net \union tasks, a \in {m.offer, m.by}
               PROVE  FALSE
    OBVIOUS
  <2>1. {m.offer, m.by} \in Carried
    OBVIOUS
  <2> HIDE DEF Carried, Known, Ends, Ahead
  <2> QED
    BY <1>0, <2>1
<1>4. \A s \in Sides :
        a \notin {st[s].offerPeer, st[s].init, st[s].expiry,
                  st[s].answering, st[s].connected}
  <2> SUFFICES ASSUME NEW s \in Sides,
                      a \in {st[s].offerPeer, st[s].init, st[s].expiry,
                             st[s].answering, st[s].connected}
               PROVE  FALSE
    OBVIOUS
  <2>1. {st[s].offerPeer, st[s].init, st[s].expiry,
         st[s].answering, st[s].connected} \in Known
    OBVIOUS
  <2> HIDE DEF Carried, Known, Ends, Ahead
  <2> QED
    BY <1>0, <2>1
<1>5. \A g \in Handles : Alive(g) => a \notin {g, pc[g].remote}
  <2> SUFFICES ASSUME NEW g \in Handles, Alive(g), a \in {g, pc[g].remote}
               PROVE  FALSE
    OBVIOUS
  <2>1. {g, pc[g].remote} \in Ends
    OBVIOUS
  <2> HIDE DEF Carried, Known, Ends, Ahead
  <2> QED
    BY <1>0, <2>1
<1>6. \A x \in DOMAIN offers : a \notin offers[x]
  <2> SUFFICES ASSUME NEW x \in DOMAIN offers, a \in offers[x]
               PROVE  FALSE
    OBVIOUS
  <2>1. offers[x] \in Ahead
    OBVIOUS
  <2> HIDE DEF Carried, Known, Ends, Ahead
  <2> QED
    BY <1>0, <2>1
<1>7. \A x \in Pairs : shared[x] # a
  BY <1>0
<1> QED
  BY <1>2, <1>3, <1>4, <1>5, <1>6, <1>7

-----------------------------------------------------------------------------
(* Types.  What the steps put in the tables. *)
LEMMA UpdatesTyped ==
  ASSUME TypeOK
  PROVE  /\ \A gone : Destroy(gone) \in [Handles -> Connections]
         /\ \A s \in Sides, use \in Uses, r \in Handles \union {None} :
              New(use, s, r) \in Connections
         /\ \A s \in Sides : exited(s) \in PeerStates /\ ~exited(s).active
         /\ \A s \in Sides : /\ resetOfferState(s) \in PeerStates
                             /\ resetOfferState(s).active = st[s].active
                             /\ resetOfferState(s).connected = st[s].connected
         /\ \A s \in Sides : \A h \in Handles :
              /\ attached(s, h) \in PeerStates
              /\ attached(s, h).connected = h
<1>1. Ended \in Connections
  BY DEF Ended, Connections, Uses
<1>2. \A gone : Destroy(gone) \in [Handles -> Connections]
  BY <1>1 DEF Destroy, TypeOK
<1>3. ASSUME NEW s \in Sides, NEW use \in Uses, NEW r \in Handles \union {None}
      PROVE  New(use, s, r) \in Connections
  BY <1>3 DEF New, Connections
<1>4. NoRelays \in [Relays -> {"free", "placeholder", "sent"}]
  BY DEF NoRelays
<1>5. ASSUME NEW s \in Sides
      PROVE  /\ exited(s) \in PeerStates /\ ~exited(s).active
             /\ resetOfferState(s) \in PeerStates
             /\ resetOfferState(s).active = st[s].active
             /\ resetOfferState(s).connected = st[s].connected
  BY <1>4, <1>5, StateTyped DEF exited, resetOfferState, PeerStates
<1>6. ASSUME NEW s \in Sides, NEW h \in Handles
      PROVE  attached(s, h) \in PeerStates /\ attached(s, h).connected = h
  BY <1>5, <1>6 DEF attached, PeerStates
<1> QED
  BY <1>2, <1>3, <1>5, <1>6

(* One side of the table changes. *)
LEMMA SideChanged ==
  ASSUME TypeOK, NEW s \in Sides, NEW v \in PeerStates,
         v.active => v.connected # None, st' = [st EXCEPT ![s] = v]
  PROVE  /\ st' \in [Sides -> PeerStates]
         /\ \A u \in Sides : st'[u].active => st'[u].connected # None
BY DEF TypeOK

(* SharedPeerManager.clear keeps the types. *)
LEMMA ClearTyped ==
  ASSUME TypeOK, NEW x \in Pairs, clearShared(x)
  PROVE  /\ st' \in [Sides -> PeerStates]
         /\ shared' \in [Pairs -> Handles \union {None}]
         /\ stale' \in [Peers -> BOOLEAN]
         /\ \A s \in Sides : st'[s].active => st'[s].connected # None
<1>1. x[1] \in Peers
  BY DEF Pairs
<1>2. unbound(x) \in [Sides -> PeerStates]
  BY UpdatesTyped, StateTyped DEF unbound
<1>3. \A s \in Sides : unbound(x)[s].active => unbound(x)[s].connected # None
  BY UpdatesTyped, StateTyped DEF unbound
<1>4. Last(x) \in BOOLEAN
  BY DEF Last
<1> QED
  BY <1>1, <1>2, <1>3, <1>4 DEF clearShared, TypeOK

(* Steps of a side that only its state, and what it drops, is changed by. *)
LEMMA OwnTyped ==
  ASSUME SignalTypes, NEW s \in Joined,
         \/ attachShared(s) \/ clearConnectedPeer(s) \/ activate(s)
         \/ exitPeer(s) \/ expireOffer(s) \/ expireAnswer(s)
         \/ \E y \in setting.relays : prunePendingOffer(s, y)
  PROVE  TypeOK'
<1>0. TypeOK /\ s \in Sides /\ Pair(s) \in Pairs
  BY SideFacts DEF SignalTypes, Joined
<1>1. st[s] \in PeerStates /\ (st[s].active => st[s].connected # None)
  BY <1>0, StateTyped
<1>2. \A gone : Destroy(gone) \in [Handles -> Connections]
  BY <1>0, UpdatesTyped
<1>3. CASE attachShared(s)
  <2>1. shared[Pair(s)] \in Handles
    BY <1>0, <1>3 DEF attachShared, TypeOK
  <2>2. /\ attached(s, shared[Pair(s)]) \in PeerStates
        /\ attached(s, shared[Pair(s)]).connected # None
    BY <1>0, <2>1, UpdatesTyped, Handled
  <2>3. /\ st' \in [Sides -> PeerStates]
        /\ \A u \in Sides : st'[u].active => st'[u].connected # None
    BY <1>0, <1>3, <2>2, SideChanged DEF attachShared
  <2> QED
    BY <1>0, <1>2, <1>3, <2>3 DEF attachShared, TypeOK
<1>4. CASE clearConnectedPeer(s)
  <2>1. /\ st' \in [Sides -> PeerStates]
        /\ \A u \in Sides : st'[u].active => st'[u].connected # None
    BY <1>0, <1>4, UpdatesTyped, SideChanged DEF clearConnectedPeer
  <2> QED
    BY <1>0, <1>4, <2>1 DEF clearConnectedPeer, TypeOK
<1>5. CASE activate(s)
  <2>1. st[s].connected # None
    BY <1>5 DEF activate, Meet, Using
  <2>2. st' = [st EXCEPT ![s] = [st[s] EXCEPT !.active = TRUE]]
    BY <1>0, <1>5 DEF activate, TypeOK
  <2>3. /\ [st[s] EXCEPT !.active = TRUE] \in PeerStates
        /\ [st[s] EXCEPT !.active = TRUE].connected # None
    BY <1>1, <2>1 DEF PeerStates
  <2>4. /\ st' \in [Sides -> PeerStates]
        /\ \A u \in Sides : st'[u].active => st'[u].connected # None
    BY <1>0, <2>2, <2>3, SideChanged
  <2> QED
    BY <1>0, <1>5, <2>4 DEF activate, TypeOK
<1>6. CASE exitPeer(s)
  <2>1. /\ st' \in [Sides -> PeerStates]
        /\ \A u \in Sides : st'[u].active => st'[u].connected # None
    BY <1>0, <1>6, UpdatesTyped, SideChanged DEF exitPeer
  <2>2. setting' = setting /\ setting' \in Settings /\ faults' \in 0 .. setting'.often
    BY <1>0, <1>6, FaultTyped DEF exitPeer
  <2> QED
    BY <1>0, <1>6, <2>1, <2>2 DEF exitPeer, TypeOK
<1>7. CASE expireOffer(s)
  <2>1. setting' \in Settings /\ faults' \in 0 .. setting'.often
    BY <1>0, <1>7, FaultTyped DEF expireOffer, NoFault
  <2>2. pc' \in [Handles -> Connections]
    BY <1>0, <1>2, <1>7 DEF expireOffer, TypeOK
  <2>3. /\ [st[s] EXCEPT !.expiry = None] \in PeerStates
        /\ [st[s] EXCEPT !.expiry = None].active = st[s].active
        /\ [st[s] EXCEPT !.expiry = None].connected = st[s].connected
    BY <1>1 DEF PeerStates
  <2>4. \/ st' = [st EXCEPT ![s] = [st[s] EXCEPT !.expiry = None]]
        \/ st' = [st EXCEPT ![s] = resetOfferState(s)]
    BY <1>0, <1>7 DEF expireOffer, TypeOK
  <2>5. /\ st' \in [Sides -> PeerStates]
        /\ \A u \in Sides : st'[u].active => st'[u].connected # None
    BY <1>0, <1>1, <2>3, <2>4, UpdatesTyped, SideChanged
  <2> QED
    BY <1>0, <1>7, <2>1, <2>2, <2>5 DEF expireOffer, TypeOK
<1>8. CASE expireAnswer(s)
  <2>1. setting' \in Settings /\ faults' \in 0 .. setting'.often
    BY <1>0, <1>8, FaultTyped DEF expireAnswer
  <2>2. /\ [st[s] EXCEPT !.answering = None] \in PeerStates
        /\ [st[s] EXCEPT !.answering = None].active = st[s].active
        /\ [st[s] EXCEPT !.answering = None].connected = st[s].connected
    BY <1>1 DEF PeerStates
  <2>3. st' = [st EXCEPT ![s] = [st[s] EXCEPT !.answering = None]]
    BY <1>0, <1>8 DEF expireAnswer, TypeOK
  <2>4. /\ st' \in [Sides -> PeerStates]
        /\ \A u \in Sides : st'[u].active => st'[u].connected # None
    BY <1>0, <1>1, <2>2, <2>3, SideChanged
  <2> QED
    BY <1>0, <1>2, <1>8, <2>1, <2>4 DEF expireAnswer, TypeOK
<1>9. CASE \E y \in setting.relays : prunePendingOffer(s, y)
  <2>1. PICK y \in Relays : prunePendingOffer(s, y)
    BY <1>0, <1>9, SettingTyped
  <2> DEFINE v == [st[s] EXCEPT !.relays[y] = "free"]
  <2>2. v \in PeerStates /\ v.active = st[s].active /\ v.connected = st[s].connected
    BY <1>1 DEF PeerStates
  <2>3. st' = [st EXCEPT ![s] = v]
    BY <1>0, <2>1 DEF prunePendingOffer, TypeOK
  <2> HIDE DEF v
  <2>4. /\ st' \in [Sides -> PeerStates]
        /\ \A u \in Sides : st'[u].active => st'[u].connected # None
    BY <1>0, <1>1, <2>2, <2>3, SideChanged
  <2> QED
    BY <1>0, <2>1, <2>4 DEF prunePendingOffer, TypeOK
<1> QED
  BY <1>3, <1>4, <1>5, <1>6, <1>7, <1>8, <1>9

(* Tasks and messages that are made have the types of such. *)
LEMMA MadeTyped ==
  ASSUME TypeOK, NEW s \in Sides, NEW o \in Handles,
         NEW a \in Handles \union {None}, NEW y \in Relays \union {None}
  PROVE  /\ \A step \in {"init", "announce", "apply", "publish", "answer"} :
              Task(step, s, y, o, a) \in Tasks
         /\ Offer(s, o) \in Messages /\ Answer(s, o, a) \in Messages
<1>1. Across(s) \in Sides /\ None \in Handles \union {None}
  BY SideFacts
<1> QED
  BY <1>1 DEF Task, Tasks, Offer, Answer, Messages

LEMMA handleAnnouncementTyped ==
  ASSUME SignalTypes, NEW s \in Joined, NEW y \in setting.relays,
         handleAnnouncement(s, y)
  PROVE  TypeOK'
<1>0. TypeOK /\ s \in Sides /\ y \in Relays /\ None \in Relays \union {None}
      /\ None \in Handles \union {None}
  BY SettingTyped DEF SignalTypes, Joined
<1>1. st[s] \in PeerStates /\ (st[s].active => st[s].connected # None)
  BY <1>0, StateTyped
<1> DEFINE waiting == [st[s] EXCEPT !.relays[y] = "placeholder"]
           making(h) == [waiting EXCEPT !.init = h]
<1>2. /\ waiting \in PeerStates /\ waiting.active = st[s].active
      /\ waiting.connected = st[s].connected
  BY <1>0, <1>1 DEF PeerStates
<1>3. ASSUME NEW h \in Handles
      PROVE  /\ making(h) \in PeerStates /\ making(h).active = st[s].active
             /\ making(h).connected = st[s].connected
  <2> HIDE DEF waiting
  <2> QED
    BY <1>2, <1>3 DEF PeerStates
<1>4. ASSUME NEW h \in Handles
      PROVE  /\ Task("announce", s, y, h, None) \in Tasks
             /\ Task("init", s, None, h, None) \in Tasks
  BY <1>0, <1>4, MadeTyped
<1>5. tasks \subseteq Tasks
  BY <1>0 DEF TypeOK
<1>6. \E h \in Handles :
        /\ st' = [st EXCEPT ![s] = waiting] /\ pc' = pc
        /\ tasks' \subseteq tasks \union {Task("announce", s, y, h, None)}
      \/ /\ st' = [st EXCEPT ![s] = making(h)]
         /\ pc' = [pc EXCEPT ![h] = New("offer", s, None)]
         /\ tasks' \subseteq tasks \union {Task("init", s, None, h, None),
                                           Task("announce", s, y, h, None)}
  BY <1>0 DEF handleAnnouncement, TypeOK
<1>7. PICK h \in Handles :
        \/ /\ st' = [st EXCEPT ![s] = waiting] /\ pc' = pc
           /\ tasks' \subseteq tasks \union {Task("announce", s, y, h, None)}
        \/ /\ st' = [st EXCEPT ![s] = making(h)]
           /\ pc' = [pc EXCEPT ![h] = New("offer", s, None)]
           /\ tasks' \subseteq tasks \union {Task("init", s, None, h, None),
                                             Task("announce", s, y, h, None)}
  BY <1>6
<1> HIDE DEF waiting, making
<1>8. tasks' \subseteq Tasks
  BY <1>4, <1>5, <1>7
<1>9. New("offer", s, None) \in Connections
  BY <1>0, UpdatesTyped DEF Uses
<1>10. pc' \in [Handles -> Connections]
  BY <1>0, <1>7, <1>9 DEF TypeOK
<1>11. /\ st' \in [Sides -> PeerStates]
       /\ \A u \in Sides : st'[u].active => st'[u].connected # None
  <2>1. CASE st' = [st EXCEPT ![s] = waiting]
    BY <1>0, <1>1, <1>2, <2>1, SideChanged
  <2>2. CASE st' = [st EXCEPT ![s] = making(h)]
    BY <1>0, <1>1, <1>3, <2>2, SideChanged
  <2> QED
    BY <1>7, <2>1, <2>2
<1> QED
  BY <1>0, <1>8, <1>10, <1>11 DEF handleAnnouncement, TypeOK

(* The other handlers of a side, up to what they wait for and after it. *)
LEMMA ensureOfferTyped ==
  ASSUME SignalTypes, NEW s \in Joined, ensureOffer(s)
  PROVE  TypeOK'
<1>0. TypeOK /\ s \in Sides
  BY DEF SignalTypes, Joined
<1>1. st[s] \in PeerStates /\ (st[s].active => st[s].connected # None)
  BY <1>0, StateTyped
<1>2. PICK t \in tasks :
        /\ tasks' = tasks \ {t}
        /\ st' = [st EXCEPT ![s].offerPeer = t.offer, ![s].answered = FALSE,
                            ![s].expiry = t.offer, ![s].init = None]
        /\ UNCHANGED <<pc, shared, stale, offers, net, faults, setting>>
  BY DEF ensureOffer
<1> DEFINE v == [st[s] EXCEPT !.offerPeer = t.offer, !.answered = FALSE,
                              !.expiry = t.offer, !.init = None]
<1>3. st' = [st EXCEPT ![s] = v]
  BY <1>0, <1>2 DEF TypeOK
<1>4. v \in PeerStates /\ v.active = st[s].active /\ v.connected = st[s].connected
  BY <1>0, <1>1, TaskTyped DEF PeerStates
<1> HIDE DEF v
<1>5. /\ st' \in [Sides -> PeerStates]
      /\ \A u \in Sides : st'[u].active => st'[u].connected # None
  BY <1>0, <1>1, <1>3, <1>4, SideChanged
<1> QED
  BY <1>0, <1>2, <1>5 DEF TypeOK

LEMMA sendOfferTyped ==
  ASSUME SignalTypes, NEW s \in Joined, sendOffer(s)
  PROVE  TypeOK'
<1>0. TypeOK /\ s \in Sides
  BY DEF SignalTypes, Joined
<1>1. st[s] \in PeerStates /\ (st[s].active => st[s].connected # None)
  BY <1>0, StateTyped
<1>2. PICK t \in tasks :
        /\ tasks' = tasks \ {t}
        /\ \/ st' = st
           \/ /\ st[s].relays[t.relay] = "placeholder"
              /\ st' = [st EXCEPT ![s].relays[t.relay] = "free"]
           \/ st' = [st EXCEPT ![s].relays[t.relay] = "sent"]
        /\ net' \subseteq net \union {Offer(s, t.offer)}
        /\ UNCHANGED <<pc, shared, stale, offers, faults, setting>>
  BY DEF sendOffer
<1>3. Offer(s, t.offer) \in Messages
  BY <1>0, MadeTyped, TaskTyped
<1>4. ASSUME NEW w \in {"free", "sent"}
      PROVE  /\ [st[s] EXCEPT !.relays[t.relay] = w] \in PeerStates
             /\ [st[s] EXCEPT !.relays[t.relay] = w].active = st[s].active
             /\ [st[s] EXCEPT !.relays[t.relay] = w].connected = st[s].connected
  BY <1>1, <1>4 DEF PeerStates
<1>5. \/ st' = st
      \/ \E w \in {"free", "sent"} :
           st' = [st EXCEPT ![s] = [st[s] EXCEPT !.relays[t.relay] = w]]
  BY <1>0, <1>2 DEF TypeOK
<1>6. /\ st' \in [Sides -> PeerStates]
      /\ \A u \in Sides : st'[u].active => st'[u].connected # None
  <2>1. CASE st' = st
    BY <1>0, <2>1 DEF TypeOK
  <2>2. CASE \E w \in {"free", "sent"} :
               st' = [st EXCEPT ![s] = [st[s] EXCEPT !.relays[t.relay] = w]]
    BY <1>0, <1>1, <1>4, <2>2, SideChanged
  <2> QED
    BY <1>5, <2>1, <2>2
<1> QED
  BY <1>0, <1>2, <1>3, <1>6 DEF TypeOK

LEMMA announceOffersTyped ==
  ASSUME SignalTypes, NEW s \in Joined, announceOffers(s)
  PROVE  TypeOK'
<1>0. TypeOK /\ s \in Sides /\ Home(s) \in Rooms \X Peers
  BY SideFacts DEF SignalTypes, Joined
<1>1. PICK h \in Handles :
        /\ \/ UNCHANGED <<pc, offers>>
           \/ /\ offers' = [offers EXCEPT ![Home(s)] = @ \union {h}]
              /\ pc' = [pc EXCEPT ![h] = New("leased", s, None)]
        /\ net' = net \union {Offer(s, h)}
        /\ UNCHANGED <<st, shared, stale, tasks, faults, setting>>
  BY DEF announceOffers
<1>2. New("leased", s, None) \in Connections
  BY <1>0, UpdatesTyped DEF Uses
<1>3. Offer(s, h) \in Messages
  BY <1>0, MadeTyped
<1>4. offers' \in [Rooms \X Peers -> SUBSET Handles]
  BY <1>0, <1>1 DEF TypeOK
<1> QED
  BY <1>0, <1>1, <1>2, <1>3, <1>4 DEF TypeOK

LEMMA handleOfferTyped ==
  ASSUME SignalTypes, NEW s \in Joined, handleOffer(s)
  PROVE  TypeOK'
<1>0. TypeOK /\ s \in Sides /\ None \in Relays \union {None}
      /\ None \in Handles \union {None}
  BY DEF SignalTypes, Joined
<1>1. st[s] \in PeerStates /\ (st[s].active => st[s].connected # None)
  BY <1>0, StateTyped
<1>2. PICK m \in net :
        /\ Delivers(s, "offer", m)
        /\ \/ UNCHANGED <<pc, st, tasks>>
           \/ \E a \in Handles, gone \in {Dropped(s), {}},
                 v \in {st[s], resetOfferState(s)} :
                /\ pc' = [Destroy(gone) EXCEPT ![a] = New("answer", s, None)]
                /\ st' = [st EXCEPT ![s] = [v EXCEPT !.answering = a]]
                /\ tasks' = tasks \union {Task("apply", s, None, m.offer, a)}
        /\ UNCHANGED <<shared, stale, offers>>
  BY DEF handleOffer
<1>3. net' \subseteq Messages /\ (Fault("repeat") \/ NoFault)
  BY <1>0, <1>2 DEF Delivers, TypeOK
<1>4. setting' \in Settings /\ faults' \in 0 .. setting'.often
  BY <1>0, <1>3, FaultTyped
<1>5. CASE UNCHANGED <<pc, st, tasks>>
  BY <1>0, <1>2, <1>3, <1>4, <1>5 DEF TypeOK
<1>6. CASE \E a \in Handles, gone \in {Dropped(s), {}},
              v \in {st[s], resetOfferState(s)} :
             /\ pc' = [Destroy(gone) EXCEPT ![a] = New("answer", s, None)]
             /\ st' = [st EXCEPT ![s] = [v EXCEPT !.answering = a]]
             /\ tasks' = tasks \union {Task("apply", s, None, m.offer, a)}
  <2>1. PICK a \in Handles, gone \in {Dropped(s), {}},
             v \in {st[s], resetOfferState(s)} :
             /\ pc' = [Destroy(gone) EXCEPT ![a] = New("answer", s, None)]
             /\ st' = [st EXCEPT ![s] = [v EXCEPT !.answering = a]]
             /\ tasks' = tasks \union {Task("apply", s, None, m.offer, a)}
    BY <1>6
  <2>2. Task("apply", s, None, m.offer, a) \in Tasks
    BY <1>0, MadeTyped, MessageTyped
  <2>3. tasks' \subseteq Tasks
    BY <1>0, <2>1, <2>2 DEF TypeOK
  <2>4. /\ New("answer", s, None) \in Connections
        /\ Destroy(gone) \in [Handles -> Connections]
    BY <1>0, UpdatesTyped DEF Uses
  <2>5. pc' \in [Handles -> Connections]
    BY <2>1, <2>4
  <2>6. v \in PeerStates /\ (v.active => v.connected # None)
    BY <1>0, <1>1, UpdatesTyped
  <2>7. /\ [v EXCEPT !.answering = a] \in PeerStates
        /\ [v EXCEPT !.answering = a].active =>
             [v EXCEPT !.answering = a].connected # None
    BY <2>6 DEF PeerStates
  <2>8. /\ st' \in [Sides -> PeerStates]
        /\ \A u \in Sides : st'[u].active => st'[u].connected # None
    BY <1>0, <2>1, <2>7, SideChanged
  <2> QED
    BY <1>0, <1>2, <1>3, <1>4, <2>3, <2>5, <2>8 DEF TypeOK
<1> QED
  BY <1>2, <1>5, <1>6

LEMMA applyOfferTyped ==
  ASSUME SignalTypes, NEW s \in Joined, applyOffer(s)
  PROVE  TypeOK'
<1>0. TypeOK /\ s \in Sides /\ None \in Relays \union {None}
  BY DEF SignalTypes, Joined
<1>1. st[s] \in PeerStates /\ (st[s].active => st[s].connected # None)
  BY <1>0, StateTyped
<1>2. PICK t \in tasks :
        /\ IF Alive(t.by)
             THEN /\ pc' = [pc EXCEPT ![t.by].remote = t.offer]
                  /\ tasks' = (tasks \ {t})
                       \union {Task("publish", s, None, t.offer, t.by)}
                  /\ UNCHANGED st
             ELSE /\ tasks' = tasks \ {t}
                  /\ st' = IF st[s].answering = t.by
                             THEN [st EXCEPT ![s].answering = None]
                             ELSE st
                  /\ UNCHANGED pc
        /\ UNCHANGED <<shared, stale, offers, net, faults, setting>>
  BY DEF applyOffer
<1>3. t.offer \in Handles /\ t.by \in Handles \union {None}
  BY <1>0, TaskTyped
<1>4. CASE Alive(t.by)
  <2>1. t.by \in Handles
    BY <1>4 DEF Alive
  <2>2. Task("publish", s, None, t.offer, t.by) \in Tasks
    BY <1>0, <1>3, MadeTyped
  <2>3. tasks' \subseteq Tasks
    BY <1>0, <1>2, <1>4, <2>2 DEF TypeOK
  <2>4. [pc[t.by] EXCEPT !.remote = t.offer] \in Connections
    BY <1>0, <1>3, <2>1, ConnectionTyped DEF Connections
  <2>5. pc' = [pc EXCEPT ![t.by] = [pc[t.by] EXCEPT !.remote = t.offer]]
    BY <1>0, <1>2, <1>4, <2>1 DEF TypeOK
  <2>6. pc' \in [Handles -> Connections]
    BY <1>0, <2>4, <2>5 DEF TypeOK
  <2> QED
    BY <1>0, <1>2, <1>4, <2>3, <2>6 DEF TypeOK
<1>5. CASE ~Alive(t.by)
  <2>1. /\ [st[s] EXCEPT !.answering = None] \in PeerStates
        /\ [st[s] EXCEPT !.answering = None].active = st[s].active
        /\ [st[s] EXCEPT !.answering = None].connected = st[s].connected
    BY <1>1 DEF PeerStates
  <2>2. \/ st' = st
        \/ st' = [st EXCEPT ![s] = [st[s] EXCEPT !.answering = None]]
    BY <1>0, <1>2, <1>5 DEF TypeOK
  <2>3. /\ st' \in [Sides -> PeerStates]
        /\ \A u \in Sides : st'[u].active => st'[u].connected # None
    <3>1. CASE st' = st
      BY <1>0, <3>1 DEF TypeOK
    <3>2. CASE st' = [st EXCEPT ![s] = [st[s] EXCEPT !.answering = None]]
      BY <1>0, <1>1, <2>1, <3>2, SideChanged
    <3> QED
      BY <2>2, <3>1, <3>2
  <2> QED
    BY <1>0, <1>2, <1>5, <2>3 DEF TypeOK
<1> QED
  BY <1>4, <1>5

LEMMA publishAnswerTyped ==
  ASSUME SignalTypes, NEW s \in Joined, publishAnswer(s)
  PROVE  TypeOK'
<1>0. TypeOK /\ s \in Sides
  BY DEF SignalTypes, Joined
<1>1. PICK t \in tasks :
        /\ tasks' = tasks \ {t} /\ net' \subseteq net \union {Answer(s, t.offer, t.by)}
        /\ UNCHANGED <<pc, st, shared, stale, offers, faults, setting>>
  BY DEF publishAnswer
<1>2. Answer(s, t.offer, t.by) \in Messages
  BY <1>0, MadeTyped, TaskTyped
<1> QED
  BY <1>0, <1>1, <1>2 DEF TypeOK

LEMMA handleAnswerTyped ==
  ASSUME SignalTypes, NEW s \in Joined, handleAnswer(s)
  PROVE  TypeOK'
<1>0. TypeOK /\ s \in Sides /\ Home(s) \in Rooms \X Peers
      /\ None \in Relays \union {None}
  BY SideFacts DEF SignalTypes, Joined
<1>1. PICK m \in net :
        /\ Delivers(s, "answer", m)
        /\ offers' = [offers EXCEPT ![Home(s)] = @ \ {m.offer}]
        /\ tasks' \subseteq tasks \union {Task("answer", s, None, m.offer, m.by)}
        /\ UNCHANGED <<pc, st, shared, stale>>
  BY DEF handleAnswer
<1>2. Task("answer", s, None, m.offer, m.by) \in Tasks
  BY <1>0, MadeTyped, MessageTyped
<1>3. net' \subseteq Messages /\ (Fault("repeat") \/ NoFault)
  BY <1>0, <1>1 DEF Delivers, TypeOK
<1>4. setting' \in Settings /\ faults' \in 0 .. setting'.often
  BY <1>0, <1>3, FaultTyped
<1>5. offers' \in [Rooms \X Peers -> SUBSET Handles]
  BY <1>0, <1>1 DEF TypeOK
<1> QED
  BY <1>0, <1>1, <1>2, <1>3, <1>4, <1>5 DEF TypeOK

LEMMA applyAnswerTyped ==
  ASSUME SignalTypes, NEW s \in Joined, applyAnswer(s)
  PROVE  TypeOK'
<1>0. TypeOK /\ s \in Sides
  BY DEF SignalTypes, Joined
<1>1. st[s] \in PeerStates /\ (st[s].active => st[s].connected # None)
  BY <1>0, StateTyped
<1>2. PICK t \in tasks :
        /\ tasks' = tasks \ {t}
        /\ \/ /\ Alive(t.offer)
              /\ pc' = [pc EXCEPT ![t.offer].remote = t.by, ![t.offer].side = s]
              /\ UNCHANGED st
           \/ UNCHANGED <<pc, st>>
           \/ /\ st' = [st EXCEPT ![s].answered = TRUE, ![s].expiry = t.offer]
              /\ pc' = [pc EXCEPT ![t.offer].remote = t.by]
        /\ UNCHANGED <<shared, stale, offers, net, faults, setting>>
  BY DEF applyAnswer
<1>3. t.offer \in Handles /\ t.by \in Handles \union {None}
  BY <1>0, TaskTyped
<1> DEFINE c == [pc[t.offer] EXCEPT !.remote = t.by]
           d == [pc[t.offer] EXCEPT !.remote = t.by, !.side = s]
           v == [st[s] EXCEPT !.answered = TRUE, !.expiry = t.offer]
<1>4. c \in Connections /\ d \in Connections
  BY <1>0, <1>3, ConnectionTyped DEF Connections
<1>5. v \in PeerStates /\ v.active = st[s].active /\ v.connected = st[s].connected
  BY <1>1, <1>3 DEF PeerStates
<1>6. pc' = pc \/ pc' = [pc EXCEPT ![t.offer] = c] \/ pc' = [pc EXCEPT ![t.offer] = d]
  BY <1>0, <1>2, <1>3 DEF TypeOK
<1>7. st' = st \/ st' = [st EXCEPT ![s] = v]
  BY <1>0, <1>2 DEF TypeOK
<1> HIDE DEF c, d, v
<1>8. pc' \in [Handles -> Connections]
  BY <1>0, <1>4, <1>6 DEF TypeOK
<1>9. /\ st' \in [Sides -> PeerStates]
      /\ \A u \in Sides : st'[u].active => st'[u].connected # None
  <2>1. CASE st' = st
    BY <1>0, <2>1 DEF TypeOK
  <2>2. CASE st' = [st EXCEPT ![s] = v]
    BY <1>0, <1>1, <1>5, <2>2, SideChanged
  <2> QED
    BY <1>7, <2>1, <2>2
<1> QED
  BY <1>0, <1>2, <1>8, <1>9 DEF TypeOK

(* Steps of a connection.  What becomes of one that closes, and of its side. *)
Ends(h) ==
  \/ pc' = Destroy({h})
  \/ /\ pc[h].use = "shared"
     /\ pc' = [pc EXCEPT ![h] = [pc[h] EXCEPT !.use = "left"]]

Closing(h) ==
  /\ Alive(h) /\ pc[h].remote # None
  /\ UNCHANGED <<offers, tasks, net, setting>>
  /\ \/ /\ pc[h].use = "shared" /\ Ends(h)
        /\ shared[Pair(pc[h].side)] # None /\ clearShared(Pair(pc[h].side))
     \/ /\ st[pc[h].side].offerPeer = h /\ pc' = Destroy({h})
        /\ st' = [st EXCEPT ![pc[h].side] = resetOfferState(pc[h].side)]
        /\ UNCHANGED <<shared, stale>>
     \/ /\ st[pc[h].side].answering = h /\ pc' = Destroy({h})
        /\ st' = [st EXCEPT ![pc[h].side].answering = None]
        /\ UNCHANGED <<shared, stale>>
     \/ /\ ~(pc[h].use = "shared" /\ shared[Pair(pc[h].side)] # None)
        /\ Ends(h)
        /\ UNCHANGED <<st, shared, stale>>

LEMMA CloseSteps ==
  ASSUME TypeOK, NEW h \in Handles, notice(h) \/ fail(h) \/ flicker(h)
  PROVE  Closing(h) /\ (NoFault \/ \E k : Fault(k))
<1>0. None \notin Handles /\ pc \in [Handles -> Connections]
  BY Handled DEF TypeOK
<1>1. [pc EXCEPT ![h] = Ended] = Destroy({h})
  BY <1>0 DEF Destroy
<1>2. /\ Alive(h) /\ pc[h].remote # None /\ setting' = setting
      /\ NoFault \/ \E k : Fault(k)
  BY <1>0 DEF notice, fail, flicker, Linked, Fault, NoFault, Alive
<1>3. CASE emitClose(h, Ended)
  BY <1>1, <1>2, <1>3 DEF emitClose, Closing, Ends, clearShared
<1>4. CASE pc[h].use = "shared" /\ emitClose(h, [pc[h] EXCEPT !.use = "left"])
  BY <1>2, <1>4 DEF emitClose, Closing, Ends, clearShared
<1> QED
  BY <1>2, <1>3, <1>4 DEF notice, fail, flicker

LEMMA EndsTyped ==
  ASSUME TypeOK, NEW h \in Handles, Ends(h)
  PROVE  pc' \in [Handles -> Connections]
<1>1. CASE pc' = Destroy({h})
  BY <1>1, UpdatesTyped
<1>2. CASE pc' = [pc EXCEPT ![h] = [pc[h] EXCEPT !.use = "left"]]
  <2>1. [pc[h] EXCEPT !.use = "left"] \in Connections
    BY ConnectionTyped DEF Connections, Uses
  <2> QED
    BY <1>2, <2>1 DEF TypeOK
<1> QED
  BY <1>1, <1>2 DEF Ends

LEMMA ClosingTyped ==
  ASSUME SignalTypes, NEW h \in Handles, Closing(h), NoFault \/ \E k : Fault(k)
  PROVE  TypeOK'
<1>0. TypeOK /\ pc[h].side \in Sides
  BY DEF SignalTypes, Places, Joined, Closing
<1> DEFINE s == pc[h].side
<1>1. s \in Sides /\ Pair(s) \in Pairs
  BY <1>0, SideFacts
<1>2. st[s] \in PeerStates /\ (st[s].active => st[s].connected # None)
  BY <1>1, <1>0, StateTyped
<1>3. setting' \in Settings /\ faults' \in 0 .. setting'.often
  BY <1>0, FaultTyped
<1>4. pc' \in [Handles -> Connections]
  BY <1>0, EndsTyped DEF Closing, Ends
<1>5. /\ \/ clearShared(Pair(s))
         \/ /\ \/ st' = [st EXCEPT ![s] = resetOfferState(s)]
               \/ st' = [st EXCEPT ![s] = [st[s] EXCEPT !.answering = None]]
               \/ st' = st
            /\ UNCHANGED <<shared, stale>>
      /\ UNCHANGED <<offers, tasks, net>>
  BY <1>0, <1>1 DEF Closing, TypeOK
<1>6. /\ [st[s] EXCEPT !.answering = None] \in PeerStates
      /\ [st[s] EXCEPT !.answering = None].active = st[s].active
      /\ [st[s] EXCEPT !.answering = None].connected = st[s].connected
  BY <1>2 DEF PeerStates
<1>7. /\ resetOfferState(s) \in PeerStates
      /\ resetOfferState(s).active = st[s].active
      /\ resetOfferState(s).connected = st[s].connected
  BY <1>0, <1>1, UpdatesTyped
<1> HIDE DEF s
<1>8. CASE clearShared(Pair(s))
  BY <1>0, <1>1, <1>3, <1>4, <1>5, <1>8, ClearTyped DEF TypeOK
<1>9. CASE /\ \/ st' = [st EXCEPT ![s] = resetOfferState(s)]
              \/ st' = [st EXCEPT ![s] = [st[s] EXCEPT !.answering = None]]
              \/ st' = st
           /\ UNCHANGED <<shared, stale>>
  <2>1. /\ st' \in [Sides -> PeerStates]
        /\ \A u \in Sides : st'[u].active => st'[u].connected # None
    <3>1. CASE st' = st
      BY <1>0, <3>1 DEF TypeOK
    <3>2. CASE st' = [st EXCEPT ![s] = [st[s] EXCEPT !.answering = None]]
      BY <1>0, <1>1, <1>2, <1>6, <3>2, SideChanged
    <3>3. CASE st' = [st EXCEPT ![s] = resetOfferState(s)]
      BY <1>0, <1>1, <1>2, <1>7, <3>3, SideChanged
    <3> QED
      BY <1>9, <3>1, <3>2, <3>3
  <2> QED
    BY <1>0, <1>3, <1>4, <1>5, <1>9, <2>1 DEF TypeOK
<1> QED
  BY <1>5, <1>8, <1>9

LEMMA LinkTyped ==
  ASSUME SignalTypes,
         \/ \E h \in Handles :
              notice(h) \/ fail(h) \/ flicker(h) \/ peerError(h)
         \/ \E x \in Pairs : idle(x)
         \/ \E m \in net : lose(m)
  PROVE  TypeOK'
<1>0. TypeOK
  BY DEF SignalTypes
<1>1. ASSUME NEW h \in Handles, notice(h) \/ fail(h) \/ flicker(h)
      PROVE  TypeOK'
  BY <1>0, <1>1, CloseSteps, ClosingTyped
<1>3. ASSUME NEW h \in Handles, peerError(h) PROVE TypeOK'
  <2>1. Pair(pc[h].side) \in Pairs
    BY <1>3, SideFacts DEF peerError, SignalTypes, Places, Joined
  <2>2. setting' \in Settings /\ faults' \in 0 .. setting'.often
    BY <1>0, <1>3, FaultTyped DEF peerError
  <2>3. clearShared(Pair(pc[h].side)) /\ UNCHANGED <<pc, offers, tasks, net>>
    BY <1>3 DEF peerError
  <2> QED
    BY <1>0, <2>1, <2>2, <2>3, ClearTyped DEF TypeOK
<1>4. ASSUME NEW x \in Pairs, idle(x) PROVE TypeOK'
  <2>1. pc' \in [Handles -> Connections]
    BY <1>0, <1>4, UpdatesTyped DEF idle
  <2>2. clearShared(x) /\ UNCHANGED <<offers, tasks, net, faults, setting>>
    BY <1>4 DEF idle
  <2> QED
    BY <1>0, <2>1, <2>2, ClearTyped DEF TypeOK
<1>5. ASSUME NEW m \in net, lose(m) PROVE TypeOK'
  <2>1. setting' \in Settings /\ faults' \in 0 .. setting'.often
    BY <1>0, <1>5, FaultTyped DEF lose
  <2> QED
    BY <1>0, <1>5, <2>1 DEF lose, TypeOK
<1> QED
  BY <1>1, <1>3, <1>4, <1>5

LEMMA connectPeerTyped ==
  ASSUME SignalTypes, NEW h \in Handles, connectPeer(h)
  PROVE  TypeOK'
<1>0. TypeOK /\ Alive(h)
  BY DEF SignalTypes, connectPeer, Linked
<1> DEFINE s == pc[h].side
           x == Pair(s)
           known == IF stale[Me(s)] THEN None ELSE shared[x]
           opened == [pc EXCEPT ![h].open = TRUE]
           used == [pc[h] EXCEPT !.use = "shared", !.open = TRUE]
<1>1. s \in Sides /\ x \in Pairs
  BY <1>0, SideFacts DEF SignalTypes, Places, Joined
<1>2. /\ \A gone : Destroy(gone) \in [Handles -> Connections]
      /\ opened \in [Handles -> Connections] /\ used \in Connections
  <2>1. \A gone : Destroy(gone) \in [Handles -> Connections]
    BY <1>0, UpdatesTyped
  <2>2. /\ used \in Connections
        /\ [pc[h] EXCEPT !.open = TRUE] \in Connections
    BY <1>0, ConnectionTyped DEF Connections, Uses
  <2>3. opened = [pc EXCEPT ![h] = [pc[h] EXCEPT !.open = TRUE]]
    BY <1>0 DEF TypeOK
  <2> HIDE DEF used, opened
  <2>4. opened \in [Handles -> Connections]
    BY <1>0, <2>2, <2>3 DEF TypeOK
  <2> QED
    BY <2>1, <2>2, <2>4
<1>3. shared[x] \in Handles \union {None} /\ known \in Handles \union {None}
  BY <1>0, <1>1 DEF TypeOK
<1>4. UNCHANGED <<offers, tasks, net, faults, setting>>
  BY DEF connectPeer
<1>5. \/ /\ pc' = opened \/ pc' = Destroy({h})
         /\ UNCHANGED <<st, shared, stale>>
      \/ /\ known # None
         /\ st' = [st EXCEPT ![s] = attached(s, known)]
         /\ pc' = Destroy(Dropped(s) \union {h})
         /\ UNCHANGED <<shared, stale>>
      \/ /\ shared' = register(x, h)
         /\ st' = [unbound(x) EXCEPT ![s] = attached(s, h)]
         /\ pc' = [Destroy((Dropped(s) \union {shared[x]}) \ {h}) EXCEPT ![h] = used]
         /\ UNCHANGED stale
  BY DEF connectPeer
<1>6. \A g \in Handles : /\ attached(s, g) \in PeerStates
                         /\ attached(s, g).connected = g
  BY <1>0, <1>1, UpdatesTyped
<1>7. unbound(x) \in [Sides -> PeerStates]
      /\ \A u \in Sides : unbound(x)[u].active => unbound(x)[u].connected # None
  BY <1>0, UpdatesTyped, StateTyped DEF unbound
<1> HIDE DEF s, x, known, opened, used
<1>8. CASE (pc' = opened \/ pc' = Destroy({h})) /\ UNCHANGED <<st, shared, stale>>
  BY <1>0, <1>2, <1>4, <1>8 DEF TypeOK
<1>9. CASE /\ known # None
           /\ st' = [st EXCEPT ![s] = attached(s, known)]
           /\ pc' = Destroy(Dropped(s) \union {h})
           /\ UNCHANGED <<shared, stale>>
  <2>1. /\ st' \in [Sides -> PeerStates]
        /\ \A u \in Sides : st'[u].active => st'[u].connected # None
    BY <1>0, <1>1, <1>3, <1>6, <1>9, SideChanged
  <2> QED
    BY <1>0, <1>2, <1>4, <1>9, <2>1 DEF TypeOK
<1>10. CASE /\ shared' = register(x, h)
            /\ st' = [unbound(x) EXCEPT ![s] = attached(s, h)]
            /\ pc' = [Destroy((Dropped(s) \union {shared[x]}) \ {h})
                        EXCEPT ![h] = used]
            /\ UNCHANGED stale
  <2>1. /\ st' \in [Sides -> PeerStates]
        /\ \A u \in Sides : st'[u].active => st'[u].connected # None
    BY <1>1, <1>6, <1>7, <1>10, Handled
  <2>2. shared' \in [Pairs -> Handles \union {None}]
    BY <1>0, <1>1, <1>10 DEF register, TypeOK
  <2>3. pc' \in [Handles -> Connections]
    BY <1>2, <1>10
  <2> QED
    BY <1>0, <1>4, <1>10, <2>1, <2>2, <2>3 DEF TypeOK
<1> QED
  BY <1>5, <1>8, <1>9, <1>10

-----------------------------------------------------------------------------
(* Steps that only end and forget.  Connections keep what they were made    *)
(* for as long as they live, but that the registry is left by one it has.   *)
Ending ==
  \A h \in Handles : pc'[h].use # "ended" =>
    /\ pc[h].use # "ended"
    /\ \/ pc'[h].use = pc[h].use
       \/ pc[h].use = "shared" /\ pc'[h].use = "left"
    /\ pc'[h].side = pc[h].side /\ pc'[h].remote = pc[h].remote

(* Sides only forget, but for the one that gets connected. *)
SidesForget ==
  \A s \in Sides :
    /\ st'[s].offerPeer \in {st[s].offerPeer, None}
    /\ st'[s].init \in {st[s].init, None}
    /\ st'[s].answering \in {st[s].answering, None}
    /\ st'[s].offerPeer # None => st'[s].answered = st[s].answered
    /\ st'[s].connected # None => s \in Joined

Forgetting ==
  /\ Ending /\ SidesForget
  /\ tasks' \subseteq tasks /\ net' \subseteq net
  /\ \A x \in Rooms \X Peers : offers'[x] \subseteq offers[x]
  /\ setting' = setting

(* What is said of connections that live stays true. *)
LEMMA PlacesKept ==
  ASSUME Places, Ending, setting' = setting,
         \A s \in Sides : st'[s].connected # None => s \in Joined
  PROVE  Places'
BY DEF Places, Ending, Alive, Joined, Sides, Pairs

LEMMA MakersKept ==
  ASSUME TypeOK, Makers, Ending,
         \A t \in tasks' : t.step = "init" => t \in tasks,
         \A s \in Sides :
           /\ st'[s].offerPeer \in {st[s].offerPeer, None}
           /\ st'[s].answering \in {st[s].answering, None}
           /\ st'[s].offerPeer # None /\ st[s].answered => st'[s].answered
  PROVE  Makers'
<1>0. None \notin Handles
  BY Handled
<1>1. ASSUME NEW s \in Sides, Alive(st[s].offerPeer)'
      PROVE  /\ pc'[st'[s].offerPeer].use = "offer"
             /\ pc'[st'[s].offerPeer].side = s
             /\ pc'[st'[s].offerPeer].remote # None => st'[s].answered
  <2>1. st'[s].offerPeer \in Handles /\ pc'[st'[s].offerPeer].use # "ended"
    BY <1>1 DEF Alive
  <2>2. st'[s].offerPeer = st[s].offerPeer /\ st'[s].offerPeer # None
    BY <1>0, <2>1
  <2>3. Alive(st[s].offerPeer)
    BY <2>1, <2>2 DEF Alive, Ending
  <2> QED
    BY <2>1, <2>2, <2>3 DEF Makers, Ending
<1>2. ASSUME NEW s \in Sides, Alive(st[s].answering)'
      PROVE  /\ pc'[st'[s].answering].use = "answer"
             /\ pc'[st'[s].answering].side = s
  <2>1. st'[s].answering \in Handles /\ pc'[st'[s].answering].use # "ended"
    BY <1>2 DEF Alive
  <2>2. st'[s].answering = st[s].answering
    BY <1>0, <2>1
  <2>3. Alive(st[s].answering)
    BY <2>1, <2>2 DEF Alive, Ending
  <2> QED
    BY <2>1, <2>2, <2>3 DEF Makers, Ending
<1>3. ASSUME NEW t \in tasks', t.step = "init", Alive(t.offer)'
      PROVE  /\ t.relay = None /\ t.by = None
             /\ pc'[t.offer].use = "offer" /\ pc'[t.offer].side = t.side
             /\ pc'[t.offer].remote = None
             /\ \A s \in Sides : st'[s].offerPeer # t.offer
  <2>1. t \in tasks /\ t.offer \in Handles /\ pc'[t.offer].use # "ended"
    BY <1>3 DEF Alive
  <2>2. Alive(t.offer)
    BY <2>1 DEF Alive, Ending
  <2>3. t.offer # None
    BY <1>0, <2>1
  <2> QED
    BY <1>3, <2>1, <2>2, <2>3 DEF Makers, Ending
<1> QED
  BY <1>1, <1>2, <1>3 DEF Makers

LEMMA LeasesKept ==
  ASSUME TypeOK, Leases, Ending, setting' = setting,
         \A t \in tasks' : t.step = "answer" => t \in tasks,
         \A x \in Rooms \X Peers : offers'[x] \subseteq offers[x]
  PROVE  Leases'
<1>1. \A h \in Handles : Alive(h)' => Alive(h)
  BY DEF Alive, Ending
<1>2. ASSUME NEW x \in Rooms \X Peers, NEW h \in offers'[x]
      PROVE  /\ Tracker'
             /\ Alive(h)' => /\ pc'[h].use = "leased" /\ pc'[h].remote = None
                             /\ Home(pc'[h].side) = x
  BY <1>2, <1>1 DEF Leases, Ending, Tracker, Alive
<1>3. ASSUME NEW h \in Handles, Alive(h)', pc'[h].use = "leased"
      PROVE  Tracker'
  BY <1>1, <1>3 DEF Leases, Ending, Tracker, Alive
<1>4. ASSUME NEW t \in tasks', Tracker', t.step = "answer", Alive(t.offer)'
      PROVE  /\ pc'[t.offer].use = "leased" /\ pc'[t.offer].remote = None
             /\ \A x \in Rooms \X Peers : t.offer \notin offers'[x]
             /\ \A u \in tasks' : u.step = "answer" /\ u.offer = t.offer => u = t
  <2>1. t \in tasks /\ Tracker /\ t.offer \in Handles /\ pc'[t.offer].use # "ended"
    BY <1>4 DEF Tracker, Alive
  <2>2. Alive(t.offer)
    BY <2>1 DEF Alive, Ending
  <2> QED
    BY <1>4, <2>1, <2>2 DEF Leases, Ending
<1> QED
  BY <1>2, <1>3, <1>4 DEF Leases

LEMMA AnswersKept ==
  ASSUME TypeOK, Answers, Ending,
         \A t \in tasks' : t.step \in {"apply", "publish", "answer"} => t \in tasks,
         \A m \in net' : m.type = "answer" => m \in net
  PROVE  Answers'
<1>1. ASSUME NEW o, NEW a, Made(o, a)
      PROVE  /\ a \in Handles
             /\ Alive(a)' =>
                  pc'[a].remote = o /\ pc'[a].use \in {"answer", "shared", "left"}
  BY <1>1 DEF Made, Alive, Ending
<1>2. ASSUME NEW m \in net', m.type = "answer" PROVE Made(m.offer, m.by)'
  <2>1. Made(m.offer, m.by)
    BY <1>2 DEF Answers
  <2> QED
    BY <1>1, <2>1 DEF Made
<1>3. ASSUME NEW t \in tasks', t.step \in {"publish", "answer"}
      PROVE  Made(t.offer, t.by)'
  <2>1. Made(t.offer, t.by)
    BY <1>3 DEF Answers
  <2> QED
    BY <1>1, <2>1 DEF Made
<1>4. ASSUME NEW t \in tasks', t.step = "apply" PROVE t.by \in Handles
  BY <1>4 DEF Answers
<1>5. ASSUME NEW t \in tasks', t.step = "apply", Alive(t.by)'
      PROVE  /\ pc'[t.by].use = "answer" /\ pc'[t.by].remote = None
             /\ \A u \in tasks' : u.step = "apply" /\ u.by = t.by => u = t
  <2>1. t \in tasks /\ t.by \in Handles /\ pc'[t.by].use # "ended"
    BY <1>5 DEF Alive
  <2>2. Alive(t.by)
    BY <2>1 DEF Alive, Ending
  <2> QED
    BY <1>5, <2>1, <2>2 DEF Answers, Ending
<1> QED
  BY <1>2, <1>3, <1>4, <1>5 DEF Answers

LEMMA FitsKept ==
  ASSUME TypeOK, AnswerFitsOffer, Ending
  PROVE  AnswerFitsOffer'
BY ConnectionTyped DEF AnswerFitsOffer, Ending, Alive, Linked

LEMMA ForgettingKeeps ==
  ASSUME LinkInv, Leaders, TypeOK', Forgetting
  PROVE  LinkInv' /\ Leaders'
<1>0. TypeOK /\ Places /\ Makers /\ Leases /\ Answers /\ AnswerFitsOffer
  BY DEF LinkInv, SignalTypes
<1>1. Places'
  BY <1>0, PlacesKept DEF Forgetting, SidesForget
<1>2. Makers'
  BY <1>0, MakersKept DEF Forgetting, SidesForget
<1>3. Leases'
  BY <1>0, LeasesKept DEF Forgetting
<1>4. Answers'
  BY <1>0, AnswersKept DEF Forgetting
<1>5. AnswerFitsOffer'
  BY <1>0, FitsKept DEF Forgetting
<1>6. Leaders'
  BY DEF Leaders, Forgetting, SidesForget, Tracker
<1> QED
  BY <1>1, <1>2, <1>3, <1>4, <1>5, <1>6 DEF LinkInv, SignalTypes

(* Destroying connections is an end. *)
LEMMA DestroyEnds ==
  ASSUME NEW gone, pc' = Destroy(gone)
  PROVE  /\ Ending
         /\ \A h \in Handles : h \in gone => pc'[h].use = "ended"
         /\ \A h \in Handles : h \notin gone => pc'[h] = pc[h]
BY DEF Destroy, Ending, Ended

LEMMA NothingEnds ==
  ASSUME UNCHANGED pc
  PROVE  Ending
BY DEF Ending

(* The fields of what becomes of a side. *)
LEMMA ResetFields ==
  ASSUME TypeOK, NEW s \in Sides
  PROVE  /\ resetOfferState(s).offerPeer = None
         /\ resetOfferState(s).init = None
         /\ resetOfferState(s).answering = st[s].answering
         /\ resetOfferState(s).connected = st[s].connected
         /\ \A h : /\ attached(s, h).offerPeer = None
                   /\ attached(s, h).init = None
                   /\ attached(s, h).answering = None
                   /\ attached(s, h).connected = h
         /\ exited(s).offerPeer = st[s].offerPeer
         /\ exited(s).answered = st[s].answered
         /\ exited(s).init = st[s].init
         /\ exited(s).answering = st[s].answering
         /\ exited(s).connected = None
<1>1. st[s] \in PeerStates
  BY StateTyped
<1> QED
  BY <1>1 DEF resetOfferState, attached, exited, PeerStates

(* When a registered connection is cleared, sides only get disconnected. *)
LEMMA ClearFields ==
  ASSUME TypeOK, NEW x \in Pairs, clearShared(x)
  PROVE  /\ shared' = [shared EXCEPT ![x] = None]
         /\ \A s \in Sides :
              /\ st'[s].offerPeer = st[s].offerPeer
              /\ st'[s].answered = st[s].answered
              /\ st'[s].init = st[s].init
              /\ st'[s].answering = st[s].answering
              /\ st'[s].connected =
                   IF Pair(s) = x /\ st[s].connected = shared[x]
                     THEN None ELSE st[s].connected
         /\ \A p \in Peers : stale[p] => stale'[p]
<1>1. \A s \in Sides : st'[s] = IF Pair(s) = x /\ st[s].connected = shared[x]
                                  THEN exited(s) ELSE st[s]
  BY DEF clearShared, unbound
<1>2. \A p \in Peers : stale[p] => stale'[p]
  BY DEF clearShared, TypeOK
<1> QED
  BY <1>1, <1>2, ResetFields DEF clearShared

LEMMA OwnForgets ==
  ASSUME LinkInv, NEW s \in Joined,
         \/ attachShared(s) \/ clearConnectedPeer(s) \/ activate(s)
         \/ exitPeer(s) \/ expireOffer(s) \/ expireAnswer(s)
         \/ \E y \in setting.relays : prunePendingOffer(s, y)
  PROVE  Forgetting
<1>0. TypeOK /\ Places /\ s \in Sides
  BY DEF LinkInv, SignalTypes, Joined
<1>1. DOMAIN st = Sides /\ st[s] \in PeerStates
  BY <1>0, StateTyped
<1>2. \A u \in Sides : st[u].connected # None => u \in Joined
  BY <1>0 DEF Places
<1>3. CASE attachShared(s)
  BY <1>0, <1>1, <1>2, <1>3, DestroyEnds, ResetFields
  DEF attachShared, Forgetting, SidesForget
<1>4. CASE clearConnectedPeer(s)
  BY <1>0, <1>1, <1>2, <1>4, NothingEnds, ResetFields
  DEF clearConnectedPeer, Forgetting, SidesForget
<1>5. CASE activate(s)
  BY <1>0, <1>1, <1>2, <1>5, NothingEnds
  DEF activate, Forgetting, SidesForget, PeerStates
<1>6. CASE exitPeer(s)
  BY <1>0, <1>1, <1>2, <1>6, NothingEnds, ResetFields
  DEF exitPeer, Forgetting, SidesForget, Fault, NoFault
<1>7. CASE expireOffer(s)
  <2>1. Ending
    BY <1>7, NothingEnds, DestroyEnds DEF expireOffer
  <2>2. SidesForget
    BY <1>0, <1>1, <1>2, <1>7, ResetFields
    DEF expireOffer, SidesForget, PeerStates
  <2> QED
    BY <1>7, <2>1, <2>2 DEF expireOffer, Forgetting, Fault, NoFault
<1>8. CASE expireAnswer(s)
  <2>1. Ending
    BY <1>8, DestroyEnds DEF expireAnswer
  <2>2. SidesForget
    BY <1>0, <1>1, <1>2, <1>8 DEF expireAnswer, SidesForget, PeerStates
  <2> QED
    BY <1>8, <2>1, <2>2 DEF expireAnswer, Forgetting, Fault, NoFault
<1>9. CASE \E y \in setting.relays : prunePendingOffer(s, y)
  BY <1>0, <1>1, <1>2, <1>9, NothingEnds
  DEF prunePendingOffer, Forgetting, SidesForget, PeerStates
<1> QED
  BY <1>3, <1>4, <1>5, <1>6, <1>7, <1>8, <1>9

LEMMA EndsEnds ==
  ASSUME TypeOK, NEW h \in Handles, Ends(h)
  PROVE  /\ Ending
         /\ pc'[h].use \in {"ended", "left"}
         /\ \A g \in Handles : g # h => pc'[g] = pc[g]
<1>1. CASE pc' = Destroy({h})
  BY <1>1, DestroyEnds
<1>2. CASE /\ pc[h].use = "shared"
           /\ pc' = [pc EXCEPT ![h] = [pc[h] EXCEPT !.use = "left"]]
  <2>1. pc \in [Handles -> Connections] /\ pc[h] \in Connections
    BY DEF TypeOK
  <2>2. /\ [pc[h] EXCEPT !.use = "left"].use = "left"
        /\ [pc[h] EXCEPT !.use = "left"].side = pc[h].side
        /\ [pc[h] EXCEPT !.use = "left"].remote = pc[h].remote
    BY <2>1 DEF Connections
  <2> QED
    BY <1>2, <2>1, <2>2 DEF Ending
<1> QED
  BY <1>1, <1>2 DEF Ends

LEMMA ClosingForgets ==
  ASSUME LinkInv, NEW h \in Handles, Closing(h)
  PROVE  Forgetting
<1>0. TypeOK /\ Places /\ pc[h].side \in Sides
  BY DEF LinkInv, SignalTypes, Places, Joined, Closing
<1> DEFINE s == pc[h].side
<1>1. s \in Sides /\ Pair(s) \in Pairs /\ DOMAIN st = Sides /\ st[s] \in PeerStates
  BY <1>0, SideFacts, StateTyped
<1>2. \A u \in Sides : st[u].connected # None => u \in Joined
  BY <1>0 DEF Places
<1>3. Ending
  BY <1>0, EndsEnds DEF Closing, Ends
<1>4. \/ clearShared(Pair(s))
      \/ st' = [st EXCEPT ![s] = resetOfferState(s)]
      \/ st' = [st EXCEPT ![s].answering = None]
      \/ st' = st
  BY DEF Closing
<1> HIDE DEF s
<1>5. SidesForget
  <2>1. CASE clearShared(Pair(s))
    BY <1>0, <1>1, <1>2, <2>1, ClearFields DEF SidesForget
  <2>2. CASE st' = [st EXCEPT ![s] = resetOfferState(s)]
    BY <1>0, <1>1, <1>2, <2>2, ResetFields DEF SidesForget
  <2>3. CASE st' = [st EXCEPT ![s].answering = None]
    BY <1>1, <1>2, <2>3 DEF SidesForget, PeerStates
  <2>4. CASE st' = st
    BY <1>2, <2>4 DEF SidesForget
  <2> QED
    BY <1>4, <2>1, <2>2, <2>3, <2>4
<1> QED
  BY <1>3, <1>5 DEF Closing, Forgetting

LEMMA LinkForgets ==
  ASSUME LinkInv,
         \/ \E h \in Handles :
              notice(h) \/ fail(h) \/ flicker(h) \/ peerError(h)
         \/ \E x \in Pairs : idle(x)
         \/ \E m \in net : lose(m)
  PROVE  Forgetting
<1>0. TypeOK /\ Places /\ DOMAIN st = Sides
  BY DEF LinkInv, SignalTypes, TypeOK
<1>1. \A u \in Sides : st[u].connected # None => u \in Joined
  BY <1>0 DEF Places
<1>2. ASSUME NEW h \in Handles, notice(h) \/ fail(h) \/ flicker(h)
      PROVE  Forgetting
  BY <1>0, <1>2, CloseSteps, ClosingForgets
<1>3. ASSUME NEW h \in Handles, peerError(h) PROVE Forgetting
  <2>1. Pair(pc[h].side) \in Pairs
    BY <1>0, <1>3, SideFacts DEF peerError, Places, Joined
  <2>2. clearShared(Pair(pc[h].side))
    BY <1>3 DEF peerError
  <2>3. SidesForget
    BY <1>0, <1>1, <2>1, <2>2, ClearFields DEF SidesForget
  <2> QED
    BY <1>3, <2>3, NothingEnds DEF peerError, Forgetting, Fault
<1>4. ASSUME NEW x \in Pairs, idle(x) PROVE Forgetting
  <2>1. clearShared(x)
    BY <1>4 DEF idle
  <2>2. SidesForget
    BY <1>0, <1>1, <2>1, ClearFields DEF SidesForget
  <2> QED
    BY <1>4, <2>2, DestroyEnds DEF idle, Forgetting
<1>5. ASSUME NEW m \in net, lose(m) PROVE Forgetting
  <2>1. SidesForget
    BY <1>1, <1>5 DEF lose, SidesForget
  <2> QED
    BY <1>5, <2>1, NothingEnds DEF lose, Forgetting, Fault
<1> QED
  BY <1>2, <1>3, <1>4, <1>5

(* Handlers that leave the connections as they are. *)
LEMMA ensureOfferKeeps ==
  ASSUME LinkInv, Leaders, TypeOK', NEW s \in Joined, ensureOffer(s)
  PROVE  LinkInv' /\ Leaders'
<1>0. /\ TypeOK /\ Places /\ Makers /\ Leases /\ Answers /\ AnswerFitsOffer
      /\ s \in Sides
  BY DEF LinkInv, SignalTypes, Joined
<1>1. PICK t \in tasks :
        /\ t.step = "init" /\ t.side = s /\ tasks' = tasks \ {t}
        /\ st' = [st EXCEPT ![s].offerPeer = t.offer, ![s].answered = FALSE,
                            ![s].expiry = t.offer, ![s].init = None]
        /\ UNCHANGED <<pc, shared, stale, offers, net, faults, setting>>
  BY DEF ensureOffer
<1>2. DOMAIN st = Sides /\ st[s] \in PeerStates
  BY <1>0, StateTyped
<1>3. /\ st'[s].offerPeer = t.offer /\ st'[s].init = None
      /\ st'[s].answering = st[s].answering
      /\ st'[s].connected = st[s].connected
      /\ \A u \in Sides \ {s} : st'[u] = st[u]
  BY <1>0, <1>1, <1>2 DEF PeerStates
<1>4. Ending
  BY <1>1, NothingEnds
<1>5. Places'
  BY <1>0, <1>1, <1>3, <1>4, PlacesKept DEF Places
<1>6. Leases' /\ Answers' /\ AnswerFitsOffer'
  BY <1>0, <1>1, <1>4, LeasesKept, AnswersKept, FitsKept
<1>7. Makers'
  <2>1. ASSUME NEW u \in Sides, Alive(st[u].offerPeer)'
        PROVE  /\ pc'[st'[u].offerPeer].use = "offer"
               /\ pc'[st'[u].offerPeer].side = u
               /\ pc'[st'[u].offerPeer].remote # None => st'[u].answered
    <3>1. CASE u = s
      BY <1>0, <1>1, <1>3, <2>1, <3>1 DEF Makers, Alive
    <3>2. CASE u # s
      <4>1. st'[u] = st[u] /\ pc' = pc
        BY <1>1, <1>3, <3>2
      <4>2. Alive(st[u].offerPeer)
        BY <2>1, <4>1 DEF Alive
      <4> QED
        BY <1>0, <4>1, <4>2 DEF Makers
    <3> QED
      BY <3>1, <3>2
  <2>2. ASSUME NEW u \in Sides, Alive(st[u].answering)'
        PROVE  /\ pc'[st'[u].answering].use = "answer"
               /\ pc'[st'[u].answering].side = u
    <3>1. st'[u].answering = st[u].answering /\ pc' = pc
      BY <1>1, <1>3
    <3>2. Alive(st[u].answering)
      BY <2>2, <3>1 DEF Alive
    <3> QED
      BY <1>0, <3>1, <3>2 DEF Makers
  <2>3. ASSUME NEW v \in tasks', v.step = "init", Alive(v.offer)'
        PROVE  /\ v.relay = None /\ v.by = None
               /\ pc'[v.offer].use = "offer" /\ pc'[v.offer].side = v.side
               /\ pc'[v.offer].remote = None
               /\ \A u \in Sides : st'[u].offerPeer # v.offer
    <3>1. v \in tasks /\ v # t /\ Alive(v.offer)
      BY <1>1, <2>3 DEF Alive
    <3>2. /\ v.relay = None /\ v.by = None
          /\ pc[v.offer].use = "offer" /\ pc[v.offer].side = v.side
          /\ pc[v.offer].remote = None
          /\ \A u \in Sides : st[u].offerPeer # v.offer
      BY <1>0, <2>3, <3>1 DEF Makers
    <3>3. v.offer # t.offer
      <4> SUFFICES ASSUME v.offer = t.offer PROVE FALSE
        OBVIOUS
      <4>1. t.relay = None /\ t.by = None /\ pc[t.offer].side = t.side
        BY <1>0, <1>1, <3>1 DEF Makers
      <4>2. v \in Tasks /\ t \in Tasks
        BY <1>0, <3>1, TaskTyped
      <4> QED
        BY <1>1, <2>3, <3>1, <3>2, <4>1, <4>2 DEF Tasks
    <3> QED
      BY <1>1, <1>3, <3>2, <3>3
  <2> QED
    BY <2>1, <2>2, <2>3 DEF Makers
<1>8. Leaders'
  BY <1>1, <1>3 DEF Leaders, Tracker
<1> QED
  BY <1>5, <1>6, <1>7, <1>8 DEF LinkInv, SignalTypes

LEMMA sendOfferKeeps ==
  ASSUME LinkInv, Leaders, TypeOK', NEW s \in Joined, sendOffer(s)
  PROVE  LinkInv' /\ Leaders'
<1>0. /\ TypeOK /\ Places /\ Makers /\ Leases /\ Answers /\ AnswerFitsOffer
      /\ s \in Sides
  BY DEF LinkInv, SignalTypes, Joined
<1>1. PICK t \in tasks :
        /\ t.step = "announce" /\ t.side = s /\ tasks' = tasks \ {t}
        /\ \/ st' = st
           \/ \E w \in {"free", "sent"} : st' = [st EXCEPT ![s].relays[t.relay] = w]
        /\ net' \subseteq net \union {Offer(s, t.offer)}
        /\ UNCHANGED <<pc, shared, stale, offers, faults, setting>>
  BY DEF sendOffer
<1>2. DOMAIN st = Sides /\ st[s] \in PeerStates
  BY <1>0, StateTyped
<1>3. \A u \in Sides :
        /\ st'[u].offerPeer = st[u].offerPeer /\ st'[u].init = st[u].init
        /\ st'[u].answered = st[u].answered
        /\ st'[u].answering = st[u].answering
        /\ st'[u].connected = st[u].connected
  BY <1>0, <1>1, <1>2 DEF PeerStates
<1>4. Ending
  BY <1>1, NothingEnds
<1>5. Places'
  BY <1>0, <1>1, <1>3, <1>4, PlacesKept DEF Places
<1>6. Makers'
  BY <1>0, <1>1, <1>3, <1>4, MakersKept
<1>7. Offer(s, t.offer).type = "offer" /\ Offer(s, t.offer).to = Across(s)
  BY DEF Offer
<1>8. \A m \in net' : m.type = "answer" => m \in net
  BY <1>1, <1>7
<1>9. Leases' /\ Answers' /\ AnswerFitsOffer'
  BY <1>0, <1>1, <1>4, <1>8, LeasesKept, AnswersKept, FitsKept
<1>10. Leaders'
  <2>1. Leads(s) /\ ~Leads(Across(s))
    BY <1>0, <1>1, SideFacts, PeersAssumption DEF Leaders, Leads
  <2> QED
    BY <1>1, <1>3, <1>7, <2>1 DEF Leaders, Tracker
<1> QED
  BY <1>5, <1>6, <1>9, <1>10 DEF LinkInv, SignalTypes

LEMMA publishAnswerKeeps ==
  ASSUME LinkInv, Leaders, TypeOK', NEW s \in Joined, publishAnswer(s)
  PROVE  LinkInv' /\ Leaders'
<1>0. /\ TypeOK /\ Places /\ Makers /\ Leases /\ Answers /\ AnswerFitsOffer
      /\ s \in Sides
  BY DEF LinkInv, SignalTypes, Joined
<1>1. PICK t \in tasks :
        /\ t.step = "publish" /\ tasks' = tasks \ {t}
        /\ net' \subseteq net \union {Answer(s, t.offer, t.by)}
        /\ UNCHANGED <<pc, st, shared, stale, offers, faults, setting>>
  BY DEF publishAnswer
<1>2. Ending
  BY <1>1, NothingEnds
<1>3. Places'
  BY <1>0, <1>1, <1>2, PlacesKept DEF Places
<1>4. Makers'
  BY <1>0, <1>1, <1>2, MakersKept
<1>5. Leases' /\ AnswerFitsOffer'
  BY <1>0, <1>1, <1>2, LeasesKept, FitsKept
<1>6. /\ Answer(s, t.offer, t.by).type = "answer"
      /\ Answer(s, t.offer, t.by).offer = t.offer
      /\ Answer(s, t.offer, t.by).by = t.by
  BY DEF Answer
<1>7. Made(t.offer, t.by)
  BY <1>0, <1>1 DEF Answers
<1>8. Answers'
  BY <1>0, <1>1, <1>6, <1>7 DEF Answers, Made, Alive
<1>9. Leaders'
  BY <1>1, <1>6 DEF Leaders, Tracker
<1> QED
  BY <1>3, <1>4, <1>5, <1>8, <1>9 DEF LinkInv, SignalTypes

LEMMA handleAnswerKeeps ==
  ASSUME LinkInv, Leaders, TypeOK', NEW s \in Joined, handleAnswer(s)
  PROVE  LinkInv' /\ Leaders'
<1>0. /\ TypeOK /\ Places /\ Makers /\ Leases /\ Answers /\ AnswerFitsOffer
      /\ s \in Sides /\ Home(s) \in Rooms \X Peers
  BY SideFacts DEF LinkInv, SignalTypes, Joined
<1>1. PICK m \in net :
        /\ m.type = "answer" /\ m.to = s /\ net' \subseteq net
        /\ offers' = [offers EXCEPT ![Home(s)] = @ \ {m.offer}]
        /\ \/ tasks' = tasks
           \/ /\ ~(Tracker /\ m.offer \notin offers[Home(s)])
              /\ tasks' = tasks \union {Task("answer", s, None, m.offer, m.by)}
        /\ UNCHANGED <<pc, st, shared, stale, setting>>
  BY DEF handleAnswer, Delivers, Fault, NoFault
<1> DEFINE new == Task("answer", s, None, m.offer, m.by)
<1>2. /\ new.step = "answer" /\ new.offer = m.offer /\ new.by = m.by
  BY DEF Task
<1> HIDE DEF new
<1>3. Ending
  BY <1>1, NothingEnds
<1>4. Places'
  BY <1>0, <1>1, <1>3, PlacesKept DEF Places
<1>5. Makers'
  BY <1>0, <1>1, <1>2, <1>3, MakersKept DEF new
<1>6. AnswerFitsOffer'
  BY <1>0, <1>1, <1>3, FitsKept
<1>7. Made(m.offer, m.by)
  BY <1>0, <1>1 DEF Answers
<1>8. tasks' \subseteq tasks \union {new}
  BY <1>1 DEF new
<1>9. Answers'
  BY <1>0, <1>1, <1>2, <1>7, <1>8 DEF Answers, Made, Alive
<1>10. Leaders'
  BY <1>1, <1>2, <1>8 DEF Leaders, Tracker
<1>11. offers' \in [Rooms \X Peers -> SUBSET Handles]
       /\ \A x \in Rooms \X Peers : offers'[x] =
            IF x = Home(s) THEN offers[x] \ {m.offer} ELSE offers[x]
  BY <1>0, <1>1 DEF TypeOK
<1>12. Leases'
  <2>1. CASE tasks' = tasks
    BY <1>0, <1>1, <1>3, <1>11, <2>1, LeasesKept
  <2>2. CASE tasks' # tasks
    <3>1. tasks' = tasks \union {new} /\ (Tracker => m.offer \in offers[Home(s)])
      BY <1>1, <2>2 DEF new
    <3>2. ASSUME NEW x \in Rooms \X Peers, NEW h \in offers'[x]
          PROVE  /\ Tracker'
                 /\ Alive(h)' => /\ pc'[h].use = "leased" /\ pc'[h].remote = None
                                 /\ Home(pc'[h].side) = x
      BY <1>0, <1>1, <1>11, <3>2 DEF Leases, Tracker, Alive
    <3>3. ASSUME NEW h \in Handles, Alive(h)', pc'[h].use = "leased"
          PROVE  Tracker'
      BY <1>0, <1>1, <3>3 DEF Leases, Tracker, Alive
    <3>4. ASSUME NEW t \in tasks', Tracker', t.step = "answer", Alive(t.offer)'
          PROVE  /\ pc'[t.offer].use = "leased" /\ pc'[t.offer].remote = None
                 /\ \A x \in Rooms \X Peers : t.offer \notin offers'[x]
                 /\ \A u \in tasks' : u.step = "answer" /\ u.offer = t.offer
                                        => u = t
      <4>1. Tracker /\ Alive(t.offer)
        BY <1>1, <3>4 DEF Tracker, Alive
      <4>2. /\ m.offer \in offers[Home(s)]
            /\ Alive(m.offer) => /\ pc[m.offer].use = "leased"
                                 /\ pc[m.offer].remote = None
                                 /\ Home(pc[m.offer].side) = Home(s)
        BY <1>0, <3>1, <4>1 DEF Leases
      <4>3. \A u \in tasks : u.step = "answer" /\ Alive(u.offer) =>
                               u.offer # m.offer
        BY <1>0, <4>1, <4>2 DEF Leases
      <4>4. CASE t = new
        <5>1. Alive(m.offer)
          BY <1>2, <4>1, <4>4
        <5>2. \A x \in Rooms \X Peers : m.offer \notin offers'[x]
          BY <1>0, <1>11, <4>2, <5>1 DEF Leases
        <5>3. \A u \in tasks' : u.step = "answer" /\ u.offer = t.offer => u = t
          BY <1>2, <3>1, <4>3, <4>4, <5>1
        <5> QED
          BY <1>1, <1>2, <4>2, <4>4, <5>1, <5>2, <5>3
      <4>5. CASE t # new
        <5>1. t \in tasks
          BY <3>1, <4>5
        <5>2. /\ pc[t.offer].use = "leased" /\ pc[t.offer].remote = None
              /\ \A x \in Rooms \X Peers : t.offer \notin offers[x]
              /\ \A u \in tasks : u.step = "answer" /\ u.offer = t.offer => u = t
          BY <1>0, <3>4, <4>1, <5>1 DEF Leases
        <5>3. t.offer # m.offer
          BY <3>4, <4>1, <4>3, <5>1
        <5> QED
          BY <1>1, <1>2, <1>11, <3>1, <5>2, <5>3
      <4> QED
        BY <4>4, <4>5
    <3> QED
      BY <3>2, <3>3, <3>4 DEF Leases
  <2> QED
    BY <2>1, <2>2
<1> QED
  BY <1>4, <1>5, <1>6, <1>9, <1>10, <1>12 DEF LinkInv, SignalTypes

(* A connection is made for a side, and others may end: what is said of the *)
(* others stays true, for nothing mentions the handle that is taken.        *)
Born(use, s, a) ==
  /\ a \in Handles /\ Fresh(a)
  /\ pc'[a] = New(use, s, None)
  /\ \A h \in Handles \ {a} : pc'[h].use # "ended" =>
       /\ pc[h].use # "ended" /\ pc'[h].use = pc[h].use
       /\ pc'[h].side = pc[h].side /\ pc'[h].remote = pc[h].remote
  /\ setting' = setting

LEMMA BornFields ==
  ASSUME NEW use \in Uses \ {"ended"}, NEW s, NEW a, Born(use, s, a)
  PROVE  /\ pc'[a].use = use /\ pc'[a].side = s /\ pc'[a].remote = None
         /\ pc'[a].use # "ended"
BY DEF Born, New

LEMMA BornPlaces ==
  ASSUME TypeOK, Places, NEW use \in Uses \ {"ended"}, NEW s \in Joined, NEW a,
         Born(use, s, a), \A u \in Sides : st'[u].connected = st[u].connected
  PROVE  Places'
BY BornFields DEF Places, Born, Alive, Joined, Sides, Pairs

LEMMA BornFits ==
  ASSUME TypeOK, AnswerFitsOffer, NEW use \in Uses \ {"ended"}, NEW s, NEW a,
         Born(use, s, a)
  PROVE  AnswerFitsOffer'
<1>1. /\ a \in Handles /\ \A g \in Handles : Alive(g) => pc[g].remote # a
      /\ pc'[a].remote = None /\ None \notin Handles
  BY FreshFacts, BornFields, Handled DEF Born
<1> SUFFICES ASSUME NEW h \in Handles, pc'[h].use \notin {"ended", "answer"},
                    pc'[h].remote \in Handles, pc'[pc'[h].remote].use # "ended"
             PROVE  pc'[pc'[h].remote].remote = h
  BY DEF AnswerFitsOffer, Alive, Linked
<1>2. h # a
  BY <1>1
<1>3. /\ pc[h].use \notin {"ended", "answer"} /\ pc'[h].remote = pc[h].remote
  BY <1>2 DEF Born
<1>4. PICK g \in Handles : g = pc[h].remote
  BY <1>3
<1>5. g # a
  BY <1>1, <1>3, <1>4 DEF Alive
<1>6. pc[g].use # "ended" /\ pc'[g].remote = pc[g].remote
  BY <1>3, <1>4, <1>5 DEF Born
<1>7. pc[g].remote = h
  BY <1>3, <1>4, <1>6 DEF AnswerFitsOffer, Alive, Linked
<1> QED
  BY <1>3, <1>4, <1>6, <1>7

LEMMA BornMakers ==
  ASSUME TypeOK, Makers, NEW use \in Uses \ {"ended"}, NEW s \in Sides, NEW a,
         Born(use, s, a),
         \A u \in Sides :
           /\ st'[u].offerPeer \in {st[u].offerPeer, None}
           /\ st'[u].offerPeer # None /\ st[u].answered => st'[u].answered
           /\ \/ st'[u].answering \in {st[u].answering, None}
              \/ u = s /\ use = "answer" /\ st'[u].answering = a,
         \A t \in tasks' : t.step = "init" =>
           \/ t \in tasks
           \/ use = "offer" /\ t = Task("init", s, None, a, None)
  PROVE  Makers'
<1>0. None \notin Handles /\ a \in Handles
  BY Handled DEF Born
<1>1. /\ \A u \in Sides : st[u].offerPeer # a /\ st[u].answering # a
      /\ \A t \in tasks : t.offer # a
  BY FreshFacts DEF Born
<1>2. pc'[a].use = use /\ pc'[a].side = s /\ pc'[a].remote = None
  BY BornFields
<1>3. ASSUME NEW u \in Sides, Alive(st[u].offerPeer)'
      PROVE  /\ pc'[st'[u].offerPeer].use = "offer"
             /\ pc'[st'[u].offerPeer].side = u
             /\ pc'[st'[u].offerPeer].remote # None => st'[u].answered
  <2>1. st'[u].offerPeer \in Handles /\ pc'[st'[u].offerPeer].use # "ended"
    BY <1>3 DEF Alive
  <2>2. st'[u].offerPeer = st[u].offerPeer /\ st'[u].offerPeer # None
    BY <1>0, <2>1
  <2>3. st[u].offerPeer \in Handles \ {a}
    BY <1>1, <2>1, <2>2
  <2>4. Alive(st[u].offerPeer)
    BY <2>1, <2>2, <2>3 DEF Alive, Born
  <2> QED
    BY <2>1, <2>2, <2>3, <2>4 DEF Makers, Born
<1>4. ASSUME NEW u \in Sides, Alive(st[u].answering)'
      PROVE  /\ pc'[st'[u].answering].use = "answer"
             /\ pc'[st'[u].answering].side = u
  <2>1. st'[u].answering \in Handles /\ pc'[st'[u].answering].use # "ended"
    BY <1>4 DEF Alive
  <2>2. CASE u = s /\ use = "answer" /\ st'[u].answering = a
    BY <1>2, <2>2
  <2>3. CASE st'[u].answering \in {st[u].answering, None}
    <3>1. st'[u].answering = st[u].answering
      BY <1>0, <2>1, <2>3
    <3>2. st[u].answering \in Handles \ {a}
      BY <1>1, <2>1, <3>1
    <3>3. Alive(st[u].answering)
      BY <2>1, <3>1, <3>2 DEF Alive, Born
    <3> QED
      BY <2>1, <3>1, <3>2, <3>3 DEF Makers, Born
  <2> QED
    BY <2>2, <2>3
<1>5. ASSUME NEW t \in tasks', t.step = "init", Alive(t.offer)'
      PROVE  /\ t.relay = None /\ t.by = None
             /\ pc'[t.offer].use = "offer" /\ pc'[t.offer].side = t.side
             /\ pc'[t.offer].remote = None
             /\ \A u \in Sides : st'[u].offerPeer # t.offer
  <2>1. CASE t \in tasks
    <3>1. t.offer \in Handles \ {a} /\ pc'[t.offer].use # "ended" /\ t.offer # None
      BY <1>0, <1>1, <1>5, <2>1 DEF Alive
    <3>2. Alive(t.offer)
      BY <3>1 DEF Alive, Born
    <3> QED
      BY <1>5, <2>1, <3>1, <3>2 DEF Makers, Born
  <2>2. CASE use = "offer" /\ t = Task("init", s, None, a, None)
    <3>1. /\ t.relay = None /\ t.by = None /\ t.offer = a /\ t.side = s
      BY <2>2 DEF Task
    <3> QED
      BY <1>0, <1>1, <1>2, <2>2, <3>1
  <2> QED
    BY <1>5, <2>1, <2>2
<1> QED
  BY <1>3, <1>4, <1>5 DEF Makers

LEMMA BornLeases ==
  ASSUME TypeOK, Leases, NEW use \in Uses \ {"ended"}, NEW s \in Sides, NEW a,
         Born(use, s, a), use = "leased" => Tracker,
         \A t \in tasks' : t.step = "answer" => t \in tasks,
         \A x \in Rooms \X Peers : \A h \in offers'[x] :
           h \in offers[x] \/ (use = "leased" /\ h = a /\ x = Home(s))
  PROVE  Leases'
<1>1. /\ a \in Handles
      /\ \A x \in Rooms \X Peers : a \notin offers[x]
      /\ \A t \in tasks : t.offer # a
  BY FreshFacts DEF Born
<1>2. pc'[a].use = use /\ pc'[a].side = s /\ pc'[a].remote = None
  BY BornFields
<1>3. Tracker' = Tracker
  BY DEF Born, Tracker
<1>4. ASSUME NEW x \in Rooms \X Peers, NEW h \in offers'[x]
      PROVE  /\ Tracker'
             /\ Alive(h)' => /\ pc'[h].use = "leased" /\ pc'[h].remote = None
                             /\ Home(pc'[h].side) = x
  <2>1. CASE use = "leased" /\ h = a /\ x = Home(s)
    BY <1>2, <1>3, <2>1
  <2>2. CASE h \in offers[x]
    BY <1>1, <1>3, <2>2 DEF Leases, Born, Alive
  <2> QED
    BY <1>4, <2>1, <2>2
<1>5. ASSUME NEW h \in Handles, Alive(h)', pc'[h].use = "leased"
      PROVE  Tracker'
  <2>1. CASE h = a
    BY <1>2, <1>3, <1>5, <2>1
  <2>2. CASE h # a
    BY <1>3, <1>5, <2>2 DEF Leases, Born, Alive
  <2> QED
    BY <2>1, <2>2
<1>6. ASSUME NEW t \in tasks', Tracker', t.step = "answer", Alive(t.offer)'
      PROVE  /\ pc'[t.offer].use = "leased" /\ pc'[t.offer].remote = None
             /\ \A x \in Rooms \X Peers : t.offer \notin offers'[x]
             /\ \A u \in tasks' : u.step = "answer" /\ u.offer = t.offer => u = t
  <2>0. t \in tasks /\ Tracker
    BY <1>3, <1>6
  <2>1. t.offer \in Handles /\ pc'[t.offer].use # "ended"
    BY <1>6 DEF Alive
  <2>3. t.offer # a
    BY <1>1, <2>0
  <2>2. Alive(t.offer)
    BY <2>1, <2>3 DEF Alive, Born
  <2> QED
    BY <1>6, <2>0, <2>1, <2>2, <2>3 DEF Leases, Born
<1> QED
  BY <1>4, <1>5, <1>6 DEF Leases

LEMMA BornAnswers ==
  ASSUME TypeOK, Answers, NEW use \in Uses \ {"ended"}, NEW s \in Sides, NEW a,
         Born(use, s, a), NEW new,
         \A t \in tasks' : t.step \in {"apply", "publish", "answer"} =>
           \/ t \in tasks
           \/ use = "answer" /\ t = new,
         new.step = "apply", new.by = a,
         \A m \in net' : m.type = "answer" => m \in net
  PROVE  Answers'
<1>1. a \in Handles /\ \A m \in net \union tasks : m.by # a
  BY FreshFacts DEF Born
<1>2. pc'[a].use = use /\ pc'[a].side = s /\ pc'[a].remote = None
  BY BornFields
<1>3. ASSUME NEW o, NEW b, Made(o, b), b # a
      PROVE  Made(o, b)'
  BY <1>3 DEF Made, Alive, Born
<1>4. ASSUME NEW m \in net', m.type = "answer" PROVE Made(m.offer, m.by)'
  <2>1. Made(m.offer, m.by) /\ m.by # a
    BY <1>1, <1>4 DEF Answers
  <2> QED
    BY <1>3, <2>1 DEF Made
<1>5. ASSUME NEW t \in tasks', t.step \in {"publish", "answer"}
      PROVE  Made(t.offer, t.by)'
  <2>1. Made(t.offer, t.by) /\ t.by # a
    BY <1>1, <1>5 DEF Answers
  <2> QED
    BY <1>3, <2>1 DEF Made
<1>6. ASSUME NEW t \in tasks', t.step = "apply" PROVE t.by \in Handles
  BY <1>1, <1>6 DEF Answers
<1>7. ASSUME NEW t \in tasks', t.step = "apply", Alive(t.by)'
      PROVE  /\ pc'[t.by].use = "answer" /\ pc'[t.by].remote = None
             /\ \A u \in tasks' : u.step = "apply" /\ u.by = t.by => u = t
  <2>1. CASE t \in tasks
    <3>1. t.by \in Handles \ {a} /\ pc'[t.by].use # "ended"
      BY <1>1, <1>7, <2>1 DEF Alive
    <3>2. Alive(t.by)
      BY <3>1 DEF Alive, Born
    <3> QED
      BY <1>7, <2>1, <3>1, <3>2 DEF Answers, Born
  <2>2. CASE use = "answer" /\ t = new
    <3>1. t.by = a
      BY <2>2
    <3>2. \A u \in tasks' : u.step = "apply" /\ u.by = t.by => u = t
      BY <1>1, <2>2, <3>1
    <3> QED
      BY <1>2, <2>2, <3>1, <3>2
  <2> QED
    BY <1>7, <2>1, <2>2
<1> QED
  BY <1>4, <1>5, <1>6, <1>7 DEF Answers

LEMMA handleAnnouncementKeeps ==
  ASSUME LinkInv, Leaders, TypeOK', NEW s \in Joined, NEW y \in setting.relays,
         handleAnnouncement(s, y)
  PROVE  LinkInv' /\ Leaders'
<1>0. /\ TypeOK /\ Places /\ Makers /\ Leases /\ Answers /\ AnswerFitsOffer
      /\ s \in Sides
  BY DEF LinkInv, SignalTypes, Joined
<1>1. DOMAIN st = Sides /\ st[s] \in PeerStates
  BY <1>0, StateTyped
<1>2. /\ Leads(s)
      /\ UNCHANGED <<shared, stale, offers, net, faults, setting>>
  BY <1>0 DEF handleAnnouncement, Leaders, Leads
<1>3. \E h \in Handles :
        \/ /\ tasks' = tasks \union {Task("announce", s, y, h, None)}
           /\ st' = [st EXCEPT ![s].relays[y] = "placeholder"]
           /\ UNCHANGED pc
        \/ /\ Fresh(h)
           /\ pc' = [pc EXCEPT ![h] = New("offer", s, None)]
           /\ tasks' = tasks \union {Task("init", s, None, h, None),
                                     Task("announce", s, y, h, None)}
           /\ st' = [st EXCEPT ![s].relays[y] = "placeholder", ![s].init = h]
  BY DEF handleAnnouncement
<1>4. PICK h \in Handles :
        \/ /\ tasks' = tasks \union {Task("announce", s, y, h, None)}
           /\ st' = [st EXCEPT ![s].relays[y] = "placeholder"]
           /\ UNCHANGED pc
        \/ /\ Fresh(h)
           /\ pc' = [pc EXCEPT ![h] = New("offer", s, None)]
           /\ tasks' = tasks \union {Task("init", s, None, h, None),
                                     Task("announce", s, y, h, None)}
           /\ st' = [st EXCEPT ![s].relays[y] = "placeholder", ![s].init = h]
  BY <1>3
<1> DEFINE saying == Task("announce", s, y, h, None)
           making == Task("init", s, None, h, None)
<1>5. /\ saying.step = "announce" /\ saying.side = s
      /\ making.step = "init" /\ making.side = s
  BY DEF Task
<1>6. \A u \in Sides :
        /\ st'[u].offerPeer = st[u].offerPeer
        /\ st'[u].answered = st[u].answered
        /\ st'[u].answering = st[u].answering
        /\ st'[u].connected = st[u].connected
        /\ u # s => st'[u].init = st[u].init
  BY <1>0, <1>1, <1>4 DEF PeerStates
<1>7. tasks' \subseteq tasks \union {saying, making}
  BY <1>4
<1>8. Leaders'
  <2> HIDE DEF saying, making
  <2> QED
    BY <1>2, <1>5, <1>6, <1>7 DEF Leaders, Tracker, Leads
<1>9. CASE UNCHANGED pc
  <2>1. tasks' = tasks \union {saying} \/ tasks' = tasks \union {saying, making}
    BY <1>4
  <2>2. \A t \in tasks' : t.step = "init" => t \in tasks
    <3>1. CASE tasks' = tasks \union {saying}
      BY <1>5, <3>1
    <3>2. CASE /\ Fresh(h) /\ pc' = [pc EXCEPT ![h] = New("offer", s, None)]
      <4>1. ~Alive(h) /\ DOMAIN pc = Handles
        BY <1>0, <3>2, FreshFacts DEF TypeOK
      <4>2. pc'[h].use = "offer"
        BY <3>2, <4>1 DEF New
      <4> QED
        BY <1>9, <4>1, <4>2 DEF Alive
    <3> QED
      BY <1>4, <3>1, <3>2
  <2>3. Ending
    BY <1>9, NothingEnds
  <2>4. Places'
    BY <1>0, <1>2, <1>6, <2>3, PlacesKept DEF Places
  <2>5. Makers'
    BY <1>0, <1>6, <2>2, <2>3, MakersKept
  <2>6. \A t \in tasks' : t.step \in {"apply", "publish", "answer"} => t \in tasks
    <3> HIDE DEF saying, making
    <3> QED
      BY <1>5, <1>7
  <2>7. Leases' /\ Answers' /\ AnswerFitsOffer'
    BY <1>0, <1>2, <2>3, <2>6, LeasesKept, AnswersKept, FitsKept
  <2> QED
    BY <1>8, <2>4, <2>5, <2>7 DEF LinkInv, SignalTypes
<1>10. CASE /\ Fresh(h)
            /\ pc' = [pc EXCEPT ![h] = New("offer", s, None)]
  <2>1. Born("offer", s, h)
    BY <1>0, <1>2, <1>10, ConnectionTyped DEF Born
  <2>2. "offer" \in Uses \ {"ended"}
    BY DEF Uses
  <2>3. \A t \in tasks' : t.step = "init" => t \in tasks \/ t = making
    <3> HIDE DEF saying, making
    <3> QED
      BY <1>5, <1>7
  <2>4. \A t \in tasks' : t.step \in {"apply", "publish", "answer"} => t \in tasks
    <3> HIDE DEF saying, making
    <3> QED
      BY <1>5, <1>7
  <2>5. Places'
    BY <1>0, <1>6, <2>1, <2>2, BornPlaces
  <2>6. AnswerFitsOffer'
    BY <1>0, <2>1, <2>2, BornFits
  <2>7. Makers'
    BY <1>0, <1>6, <2>1, <2>2, <2>3, BornMakers
  <2>8. Leases'
    BY <1>0, <1>2, <2>1, <2>2, <2>4, BornLeases
  <2> DEFINE new == [step |-> "apply", by |-> h]
  <2>9. Answers'
    BY <1>0, <1>2, <2>1, <2>2, <2>4, BornAnswers, new.step = "apply", new.by = h
  <2> QED
    BY <1>8, <2>5, <2>6, <2>7, <2>8, <2>9 DEF LinkInv, SignalTypes
<1> QED
  BY <1>4, <1>9, <1>10

LEMMA announceOffersKeeps ==
  ASSUME LinkInv, Leaders, TypeOK', NEW s \in Joined, announceOffers(s)
  PROVE  LinkInv' /\ Leaders'
<1>0. /\ TypeOK /\ Places /\ Makers /\ Leases /\ Answers /\ AnswerFitsOffer
      /\ s \in Sides /\ Home(s) \in Rooms \X Peers
  BY SideFacts DEF LinkInv, SignalTypes, Joined
<1>1. PICK h \in Handles :
        /\ \/ UNCHANGED <<pc, offers>>
           \/ /\ Fresh(h)
              /\ offers' = [offers EXCEPT ![Home(s)] = @ \union {h}]
              /\ pc' = [pc EXCEPT ![h] = New("leased", s, None)]
        /\ net' = net \union {Offer(s, h)}
        /\ UNCHANGED <<st, shared, stale, tasks, faults, setting>>
  BY DEF announceOffers
<1>2. Tracker /\ Offer(s, h).type = "offer"
  BY DEF announceOffers, Offer
<1>3. \A m \in net' : m.type = "answer" => m \in net
  BY <1>1, <1>2
<1>4. Leaders'
  BY <1>1, <1>2 DEF Leaders, Tracker
<1>5. CASE UNCHANGED <<pc, offers>>
  <2>1. Ending
    BY <1>5, NothingEnds
  <2>2. Places'
    BY <1>0, <1>1, <2>1, PlacesKept DEF Places
  <2>3. Makers'
    BY <1>0, <1>1, <2>1, MakersKept
  <2>4. Leases' /\ Answers' /\ AnswerFitsOffer'
    BY <1>0, <1>1, <1>3, <1>5, <2>1, LeasesKept, AnswersKept, FitsKept
  <2> QED
    BY <1>4, <2>2, <2>3, <2>4 DEF LinkInv, SignalTypes
<1>6. CASE /\ Fresh(h)
           /\ offers' = [offers EXCEPT ![Home(s)] = @ \union {h}]
           /\ pc' = [pc EXCEPT ![h] = New("leased", s, None)]
  <2>1. Born("leased", s, h)
    BY <1>0, <1>1, <1>6, ConnectionTyped DEF Born
  <2>2. "leased" \in Uses \ {"ended"}
    BY DEF Uses
  <2>3. Places'
    BY <1>0, <1>1, <2>1, <2>2, BornPlaces
  <2>4. AnswerFitsOffer'
    BY <1>0, <2>1, <2>2, BornFits
  <2>5. Makers'
    BY <1>0, <1>1, <2>1, <2>2, BornMakers
  <2>6. DOMAIN offers = Rooms \X Peers
    BY <1>0 DEF TypeOK
  <2>7. \A x \in Rooms \X Peers : \A g \in offers'[x] :
          g \in offers[x] \/ (g = h /\ x = Home(s))
    BY <1>6, <2>6
  <2>8. Leases'
    BY <1>0, <1>1, <1>2, <2>1, <2>2, <2>7, BornLeases
  <2> DEFINE new == [step |-> "apply", by |-> h]
  <2>9. Answers'
    BY <1>0, <1>1, <1>3, <2>1, <2>2, BornAnswers, new.step = "apply", new.by = h
  <2> QED
    BY <1>4, <2>3, <2>4, <2>5, <2>8, <2>9 DEF LinkInv, SignalTypes
<1> QED
  BY <1>1, <1>5, <1>6

LEMMA handleOfferKeeps ==
  ASSUME LinkInv, Leaders, TypeOK', NEW s \in Joined, handleOffer(s)
  PROVE  LinkInv' /\ Leaders'
<1>0. /\ TypeOK /\ Places /\ Makers /\ Leases /\ Answers /\ AnswerFitsOffer
      /\ s \in Sides
  BY DEF LinkInv, SignalTypes, Joined
<1>1. DOMAIN st = Sides /\ st[s] \in PeerStates
  BY <1>0, StateTyped
<1>2. PICK m \in net :
        /\ Delivers(s, "offer", m)
        /\ \/ UNCHANGED <<pc, st, tasks>>
           \/ \E a \in Handles, gone \in {Dropped(s), {}},
                 v \in {st[s], resetOfferState(s)} :
                /\ Fresh(a)
                /\ pc' = [Destroy(gone) EXCEPT ![a] = New("answer", s, None)]
                /\ st' = [st EXCEPT ![s] = [v EXCEPT !.answering = a]]
                /\ tasks' = tasks \union {Task("apply", s, None, m.offer, a)}
        /\ UNCHANGED <<shared, stale, offers>>
  BY DEF handleOffer
<1>3. net' \subseteq net /\ setting' = setting
  BY <1>2 DEF Delivers, Fault, NoFault
<1>4. CASE UNCHANGED <<pc, st, tasks>>
  <2>1. Forgetting
    BY <1>0, <1>2, <1>3, <1>4, NothingEnds DEF Forgetting, SidesForget, Places
  <2> QED
    BY <2>1, ForgettingKeeps
<1>5. CASE \E a \in Handles, gone \in {Dropped(s), {}},
              v \in {st[s], resetOfferState(s)} :
             /\ Fresh(a)
             /\ pc' = [Destroy(gone) EXCEPT ![a] = New("answer", s, None)]
             /\ st' = [st EXCEPT ![s] = [v EXCEPT !.answering = a]]
             /\ tasks' = tasks \union {Task("apply", s, None, m.offer, a)}
  <2>1. PICK a \in Handles, gone \in {Dropped(s), {}},
             v \in {st[s], resetOfferState(s)} :
             /\ Fresh(a)
             /\ pc' = [Destroy(gone) EXCEPT ![a] = New("answer", s, None)]
             /\ st' = [st EXCEPT ![s] = [v EXCEPT !.answering = a]]
             /\ tasks' = tasks \union {Task("apply", s, None, m.offer, a)}
    BY <1>5
  <2>2. /\ v \in PeerStates
        /\ v.offerPeer \in {st[s].offerPeer, None}
        /\ v.init \in {st[s].init, None}
        /\ v.connected = st[s].connected
        /\ v.offerPeer # None => v.answered = st[s].answered
    BY <1>0, <1>1, ResetFields, UpdatesTyped, Handled
  <2>3. \A u \in Sides :
          /\ st'[u].offerPeer \in {st[u].offerPeer, None}
          /\ st'[u].init \in {st[u].init, None}
          /\ st'[u].connected = st[u].connected
          /\ st'[u].offerPeer # None => st'[u].answered = st[u].answered
          /\ st'[u].answering = IF u = s THEN a ELSE st[u].answering
    BY <1>0, <1>1, <2>1, <2>2 DEF PeerStates
  <2> DEFINE new == Task("apply", s, None, m.offer, a)
  <2>4. new.step = "apply" /\ new.by = a
    BY DEF Task
  <2>5. tasks' = tasks \union {new}
    BY <2>1
  <2> HIDE DEF new
  <2>6. Born("answer", s, a)
    BY <1>3, <2>1 DEF Born, Destroy, Ended
  <2>7. "answer" \in Uses \ {"ended"}
    BY DEF Uses
  <2>8. Places'
    BY <1>0, <2>3, <2>6, <2>7, BornPlaces
  <2>9. AnswerFitsOffer'
    BY <1>0, <2>6, <2>7, BornFits
  <2>10. Makers'
    BY <1>0, <2>3, <2>4, <2>5, <2>6, <2>7, BornMakers
  <2>11. Leases'
    BY <1>0, <1>2, <2>4, <2>5, <2>6, <2>7, BornLeases
  <2>12. Answers'
    BY <1>0, <1>3, <2>4, <2>5, <2>6, <2>7, BornAnswers
  <2>13. Leaders'
    BY <1>3, <2>3, <2>4, <2>5 DEF Leaders, Tracker
  <2> QED
    BY <2>8, <2>9, <2>10, <2>11, <2>12, <2>13 DEF LinkInv, SignalTypes
<1> QED
  BY <1>2, <1>4, <1>5

LEMMA applyOfferKeeps ==
  ASSUME LinkInv, Leaders, TypeOK', NEW s \in Joined, applyOffer(s)
  PROVE  LinkInv' /\ Leaders'
<1>0. /\ TypeOK /\ Places /\ Makers /\ Leases /\ Answers /\ AnswerFitsOffer
      /\ s \in Sides /\ None \notin Handles
  BY Handled DEF LinkInv, SignalTypes, Joined
<1>1. DOMAIN st = Sides /\ st[s] \in PeerStates
  BY <1>0, StateTyped
<1>2. PICK t \in tasks :
        /\ t.step = "apply" /\ t.side = s
        /\ IF Alive(t.by)
             THEN /\ pc' = [pc EXCEPT ![t.by].remote = t.offer]
                  /\ tasks' = (tasks \ {t})
                       \union {Task("publish", s, None, t.offer, t.by)}
                  /\ UNCHANGED st
             ELSE /\ tasks' = tasks \ {t}
                  /\ st' = IF st[s].answering = t.by
                             THEN [st EXCEPT ![s].answering = None]
                             ELSE st
                  /\ UNCHANGED pc
        /\ UNCHANGED <<shared, stale, offers, net, faults, setting>>
  BY DEF applyOffer
<1>3. CASE ~Alive(t.by)
  <2>1. SidesForget
    BY <1>0, <1>1, <1>2, <1>3 DEF SidesForget, Places, PeerStates
  <2>2. Forgetting
    BY <1>2, <1>3, <2>1, NothingEnds DEF Forgetting
  <2> QED
    BY <2>2, ForgettingKeeps
<1>4. CASE Alive(t.by)
  <2>1. PICK a \in Handles : a = t.by
    BY <1>4 DEF Alive
  <2>2. PICK o \in Handles : o = t.offer
    BY <1>0, TaskTyped
  <2>3. /\ pc[a].use = "answer" /\ pc[a].remote = None
        /\ \A u \in tasks : u.step = "apply" /\ u.by = a => u = t
    BY <1>0, <1>2, <1>4, <2>1 DEF Answers
  <2> DEFINE new == Task("publish", s, None, o, a)
  <2>4. /\ new.step = "publish" /\ new.offer = o /\ new.by = a
    BY DEF Task
  <2>5. tasks' = (tasks \ {t}) \union {new} /\ UNCHANGED st
    BY <1>2, <1>4, <2>1, <2>2
  <2> HIDE DEF new
  <2>6. /\ \A h \in Handles : /\ pc'[h].use = pc[h].use
                              /\ pc'[h].side = pc[h].side
                              /\ h # a => pc'[h].remote = pc[h].remote
        /\ pc'[a].remote = o
    <3>1. DOMAIN pc = Handles /\ \A h \in Handles : pc[h] \in Connections
      BY <1>0 DEF TypeOK
    <3> QED
      BY <1>2, <1>4, <2>1, <2>2, <3>1 DEF Connections
  <2>7. Places'
    BY <1>0, <1>2, <2>5, <2>6 DEF Places, Alive, Joined, Sides, Pairs
  <2>8. Makers'
    <3>1. \A u \in Sides : Alive(st[u].offerPeer) => st[u].offerPeer # a
      BY <1>0, <2>3 DEF Makers
    <3>2. \A v \in tasks : v.step = "init" /\ Alive(v.offer) => v.offer # a
      BY <1>0, <2>3 DEF Makers
    <3> QED
      BY <1>0, <2>4, <2>5, <2>6, <3>1, <3>2 DEF Makers, Alive
  <2>9. Leases'
    <3>1. \A h \in Handles : pc[h].use = "leased" => pc'[h].remote = pc[h].remote
      BY <2>3, <2>6
    <3>2. \A v \in tasks' : v.step = "answer" => v \in tasks
      BY <2>4, <2>5
    <3> QED
      BY <1>0, <1>2, <2>6, <3>1, <3>2 DEF Leases, Alive, Tracker
  <2>10. Answers'
    <3>1. ASSUME NEW p \in Handles, NEW b, Made(p, b) PROVE Made(p, b)'
      <4>1. Alive(b) => b # a
        BY <1>0, <2>3, <3>1 DEF Made
      <4> QED
        BY <2>6, <3>1, <4>1 DEF Made, Alive
    <3>2. ASSUME NEW m \in net', m.type = "answer" PROVE Made(m.offer, m.by)'
      <4>1. m \in net /\ m.offer \in Handles /\ Made(m.offer, m.by)
        BY <1>0, <1>2, <3>2, MessageTyped DEF Answers
      <4> QED
        BY <3>1, <4>1 DEF Made
    <3>3. Made(o, a)'
      BY <2>3, <2>6 DEF Made
    <3>4. ASSUME NEW v \in tasks', v.step \in {"publish", "answer"}
          PROVE  Made(v.offer, v.by)'
      <4>1. CASE v = new
        BY <2>4, <3>3, <4>1 DEF Made
      <4>2. CASE v # new
        <5>1. v \in tasks /\ v.offer \in Handles /\ Made(v.offer, v.by)
          BY <1>0, <2>5, <3>4, <4>2, TaskTyped DEF Answers
        <5> QED
          BY <3>1, <5>1 DEF Made
      <4> QED
        BY <4>1, <4>2
    <3>5. ASSUME NEW v \in tasks', v.step = "apply"
          PROVE  /\ v.by \in Handles
                 /\ Alive(v.by)' =>
                      /\ pc'[v.by].use = "answer" /\ pc'[v.by].remote = None
                      /\ \A u \in tasks' : u.step = "apply" /\ u.by = v.by => u = v
      <4>1. v \in tasks /\ v # t
        BY <2>4, <2>5, <3>5
      <4>2. v.by \in Handles /\ v.by # a
        BY <1>0, <2>3, <3>5, <4>1 DEF Answers
      <4>3. \A u \in tasks' : u.step = "apply" => u \in tasks
        BY <2>4, <2>5
      <4> QED
        BY <1>0, <2>6, <3>5, <4>1, <4>2, <4>3 DEF Answers, Alive
    <3> QED
      BY <3>2, <3>4, <3>5 DEF Answers
  <2>11. AnswerFitsOffer'
    <3> SUFFICES ASSUME NEW h \in Handles, pc'[h].use \notin {"ended", "answer"},
                        pc'[h].remote \in Handles,
                        pc'[pc'[h].remote].use # "ended"
                 PROVE  pc'[pc'[h].remote].remote = h
      BY DEF AnswerFitsOffer, Alive, Linked
    <3>1. h # a /\ pc'[h].remote = pc[h].remote /\ pc[h].use \notin {"ended", "answer"}
      BY <2>3, <2>6
    <3>2. PICK g \in Handles : g = pc[h].remote
      BY <3>1
    <3>3. pc[g].use # "ended" /\ pc[g].remote = h
      BY <1>0, <2>6, <3>1, <3>2 DEF AnswerFitsOffer, Alive, Linked
    <3>4. g # a
      BY <1>0, <2>3, <3>3
    <3> QED
      BY <2>6, <3>1, <3>2, <3>3, <3>4
  <2>12. Leaders'
    BY <1>2, <2>4, <2>5 DEF Leaders, Tracker
  <2> QED
    BY <2>7, <2>8, <2>9, <2>10, <2>11, <2>12 DEF LinkInv, SignalTypes
<1> QED
  BY <1>3, <1>4

LEMMA applyAnswerKeeps ==
  ASSUME LinkInv, Leaders, TypeOK', NEW s \in Joined, applyAnswer(s)
  PROVE  LinkInv' /\ Leaders'
<1>0. /\ TypeOK /\ Places /\ Makers /\ Leases /\ Answers /\ AnswerFitsOffer
      /\ s \in Sides /\ None \notin Handles
  BY Handled DEF LinkInv, SignalTypes, Joined
<1>1. DOMAIN st = Sides /\ st[s] \in PeerStates
  BY <1>0, StateTyped
<1>2. PICK t \in tasks :
        /\ t.step = "answer" /\ t.side = s /\ tasks' = tasks \ {t}
        /\ \/ /\ Tracker /\ Alive(t.offer)
              /\ pc' = [pc EXCEPT ![t.offer].remote = t.by, ![t.offer].side = s]
              /\ UNCHANGED st
           \/ UNCHANGED <<pc, st>>
           \/ /\ ~Tracker
              /\ ~st[s].answered /\ t.offer = st[s].offerPeer
              /\ Alive(st[s].offerPeer)
              /\ st' = [st EXCEPT ![s].answered = TRUE, ![s].expiry = t.offer]
              /\ pc' = [pc EXCEPT ![t.offer].remote = t.by]
        /\ UNCHANGED <<shared, stale, offers, net, faults, setting>>
  BY DEF applyAnswer
<1>3. CASE UNCHANGED <<pc, st>>
  <2>1. Forgetting
    BY <1>0, <1>2, <1>3, NothingEnds DEF Forgetting, SidesForget, Places
  <2> QED
    BY <2>1, ForgettingKeeps
<1>4. CASE ~UNCHANGED <<pc, st>>
  <2>1. PICK o \in Handles : o = t.offer
    BY <1>0, TaskTyped
  <2>2. PICK a \in Handles : a = t.by
    BY <1>0, <1>2 DEF Answers, Made
  <2>3. Made(o, a)
    BY <1>0, <1>2, <2>1, <2>2 DEF Answers
  <2>4. /\ pc[o].use \in {"offer", "leased"} /\ pc[o].remote = None
        /\ Tracker => pc[o].use = "leased"
        /\ ~Tracker => /\ pc[o].use = "offer" /\ pc[o].side = s
                       /\ st[s].offerPeer = o
    <3>1. CASE Tracker
      <4>1. Alive(o)
        BY <1>2, <1>4, <2>1, <3>1
      <4> QED
        BY <1>0, <1>2, <2>1, <3>1, <4>1 DEF Leases
    <3>2. CASE ~Tracker
      BY <1>0, <1>2, <1>4, <2>1, <3>2 DEF Makers
    <3> QED
      BY <3>1, <3>2
  <2>5. a # o
    BY <2>3, <2>4 DEF Made, Alive
  <2>6. /\ \A h \in Handles : /\ pc'[h].use = pc[h].use
                              /\ h # o => pc'[h].remote = pc[h].remote
                              /\ h # o => pc'[h].side = pc[h].side
        /\ pc'[o].remote = a /\ pc'[o].side \in {s, pc[o].side}
        /\ ~Tracker => pc'[o].side = pc[o].side
    <3>1. DOMAIN pc = Handles /\ \A h \in Handles : pc[h] \in Connections
      BY <1>0 DEF TypeOK
    <3> QED
      BY <1>2, <1>4, <2>1, <2>2, <3>1 DEF Connections
  <2>7. \A u \in Sides :
          /\ st'[u].offerPeer = st[u].offerPeer /\ st'[u].init = st[u].init
          /\ st'[u].answering = st[u].answering
          /\ st'[u].connected = st[u].connected
          /\ st[u].answered => st'[u].answered
    BY <1>0, <1>1, <1>2 DEF PeerStates
  <2>8. ~Tracker => st'[s].answered
    BY <1>0, <1>1, <1>2, <1>4 DEF PeerStates
  <2>9. Places'
    BY <1>0, <1>2, <2>6, <2>7 DEF Places, Alive, Joined, Sides, Pairs
  <2>10. Makers'
    <3>1. ASSUME NEW u \in Sides, Alive(st[u].offerPeer)'
          PROVE  /\ pc'[st'[u].offerPeer].use = "offer"
                 /\ pc'[st'[u].offerPeer].side = u
                 /\ pc'[st'[u].offerPeer].remote # None => st'[u].answered
      <4>1. PICK h \in Handles : h = st[u].offerPeer /\ h = st'[u].offerPeer
                                 /\ pc'[h].use # "ended"
        BY <2>7, <3>1 DEF Alive
      <4>2. /\ pc[h].use = "offer" /\ pc[h].side = u
            /\ pc[h].remote # None => st[u].answered
        <5>1. Alive(st[u].offerPeer)
          BY <2>6, <4>1 DEF Alive
        <5>2. /\ pc[st[u].offerPeer].use = "offer"
              /\ pc[st[u].offerPeer].side = u
              /\ pc[st[u].offerPeer].remote # None => st[u].answered
          BY <1>0, <5>1 DEF Makers
        <5> QED
          BY <4>1, <5>2
      <4>3. CASE h = o
        BY <2>4, <2>6, <2>8, <4>1, <4>2, <4>3
      <4>4. CASE h # o
        BY <2>6, <2>7, <4>1, <4>2, <4>4
      <4> QED
        BY <4>3, <4>4
    <3>2. ASSUME NEW u \in Sides, Alive(st[u].answering)'
          PROVE  /\ pc'[st'[u].answering].use = "answer"
                 /\ pc'[st'[u].answering].side = u
      <4>1. PICK h \in Handles : h = st[u].answering /\ h = st'[u].answering
                                 /\ pc'[h].use # "ended"
        BY <2>7, <3>2 DEF Alive
      <4>2. pc[h].use = "answer" /\ pc[h].side = u
        <5>1. Alive(st[u].answering)
          BY <2>6, <4>1 DEF Alive
        <5>2. /\ pc[st[u].answering].use = "answer"
              /\ pc[st[u].answering].side = u
          BY <1>0, <5>1 DEF Makers
        <5> QED
          BY <4>1, <5>2
      <4>3. h # o
        BY <2>4, <4>2
      <4> QED
        BY <2>6, <4>1, <4>2, <4>3
    <3>3. ASSUME NEW v \in tasks', v.step = "init", Alive(v.offer)'
          PROVE  /\ v.relay = None /\ v.by = None
                 /\ pc'[v.offer].use = "offer" /\ pc'[v.offer].side = v.side
                 /\ pc'[v.offer].remote = None
                 /\ \A u \in Sides : st'[u].offerPeer # v.offer
      <4>1. v \in tasks /\ v.offer \in Handles /\ Alive(v.offer)
        BY <1>2, <2>6, <3>3 DEF Alive
      <4>2. /\ v.relay = None /\ v.by = None
            /\ pc[v.offer].use = "offer" /\ pc[v.offer].side = v.side
            /\ pc[v.offer].remote = None
            /\ \A u \in Sides : st[u].offerPeer # v.offer
        BY <1>0, <3>3, <4>1 DEF Makers
      <4>3. v.offer # o
        BY <1>0, <2>4, <4>2
      <4> QED
        BY <2>6, <2>7, <4>1, <4>2, <4>3
    <3> QED
      BY <3>1, <3>2, <3>3 DEF Makers
  <2>11. Leases'
    <3>0. offers' = offers /\ setting' = setting
      BY <1>2
    <3>1. ASSUME NEW x \in Rooms \X Peers, NEW h \in offers'[x]
          PROVE  /\ Tracker'
                 /\ Alive(h)' => /\ pc'[h].use = "leased" /\ pc'[h].remote = None
                                 /\ Home(pc'[h].side) = x
      <4>1. Tracker /\ h \in offers[x]
        BY <1>0, <3>0, <3>1 DEF Leases
      <4>2. Alive(o)
        BY <2>4 DEF Alive
      <4>3. h # o
        BY <1>0, <1>2, <2>1, <4>1, <4>2 DEF Leases
      <4> QED
        BY <1>0, <2>6, <3>0, <4>1, <4>3 DEF Leases, Alive, Tracker
    <3>2. ASSUME NEW h \in Handles, Alive(h)', pc'[h].use = "leased"
          PROVE  Tracker'
      BY <1>0, <2>6, <3>0, <3>2 DEF Leases, Alive, Tracker
    <3>3. ASSUME NEW v \in tasks', Tracker', v.step = "answer", Alive(v.offer)'
          PROVE  /\ pc'[v.offer].use = "leased" /\ pc'[v.offer].remote = None
                 /\ \A x \in Rooms \X Peers : v.offer \notin offers'[x]
                 /\ \A u \in tasks' : u.step = "answer" /\ u.offer = v.offer => u = v
      <4>1. Tracker
        BY <3>0, <3>3 DEF Tracker
      <4>2. v \in tasks /\ v # t /\ v.offer \in Handles /\ Alive(v.offer)
        BY <1>2, <2>6, <3>3 DEF Alive
      <4>3. /\ pc[v.offer].use = "leased" /\ pc[v.offer].remote = None
            /\ \A x \in Rooms \X Peers : v.offer \notin offers[x]
            /\ \A u \in tasks : u.step = "answer" /\ u.offer = v.offer => u = v
        BY <1>0, <3>3, <4>1, <4>2 DEF Leases
      <4>4. v.offer # o
        BY <1>2, <2>1, <4>2, <4>3
      <4> QED
        BY <1>2, <2>6, <3>0, <4>2, <4>3, <4>4
    <3> QED
      BY <3>1, <3>2, <3>3 DEF Leases
  <2>12. Answers'
    <3>1. ASSUME NEW p, NEW b, Made(p, b) PROVE Made(p, b)'
      <4>1. Alive(b) => b # o
        BY <2>4, <3>1 DEF Made
      <4> QED
        BY <2>6, <3>1, <4>1 DEF Made, Alive
    <3>2. ASSUME NEW m \in net', m.type = "answer" PROVE Made(m.offer, m.by)'
      <4>1. m \in net /\ Made(m.offer, m.by)
        BY <1>0, <1>2, <3>2 DEF Answers
      <4> QED
        BY <3>1, <4>1 DEF Made
    <3>3. ASSUME NEW v \in tasks', v.step \in {"publish", "answer"}
          PROVE  Made(v.offer, v.by)'
      <4>1. v \in tasks /\ Made(v.offer, v.by)
        BY <1>0, <1>2, <3>3 DEF Answers
      <4> QED
        BY <3>1, <4>1 DEF Made
    <3>4. ASSUME NEW v \in tasks', v.step = "apply"
          PROVE  /\ v.by \in Handles
                 /\ Alive(v.by)' =>
                      /\ pc'[v.by].use = "answer" /\ pc'[v.by].remote = None
                      /\ \A u \in tasks' : u.step = "apply" /\ u.by = v.by => u = v
      <4>1. v \in tasks /\ v.by \in Handles
        BY <1>0, <1>2, <3>4 DEF Answers
      <4>2. CASE Alive(v.by)
        <5>1. /\ pc[v.by].use = "answer" /\ pc[v.by].remote = None
              /\ \A u \in tasks : u.step = "apply" /\ u.by = v.by => u = v
          BY <1>0, <3>4, <4>1, <4>2 DEF Answers
        <5>2. v.by # o
          BY <2>4, <5>1
        <5> QED
          BY <1>2, <2>6, <4>1, <5>1, <5>2
      <4>3. CASE ~Alive(v.by)
        BY <2>6, <4>1, <4>3 DEF Alive
      <4> QED
        BY <4>2, <4>3
    <3> QED
      BY <3>2, <3>3, <3>4 DEF Answers
  <2>13. AnswerFitsOffer'
    <3> SUFFICES ASSUME NEW h \in Handles, pc'[h].use \notin {"ended", "answer"},
                        pc'[h].remote \in Handles,
                        pc'[pc'[h].remote].use # "ended"
                 PROVE  pc'[pc'[h].remote].remote = h
      BY DEF AnswerFitsOffer, Alive, Linked
    <3>1. CASE h = o
      <4>1. pc[a].use # "ended" /\ pc'[a].remote = pc[a].remote
        BY <2>5, <2>6, <3>1
      <4>2. pc[a].remote = o
        BY <2>3, <4>1 DEF Made, Alive
      <4> QED
        BY <2>6, <3>1, <4>1, <4>2
    <3>2. CASE h # o
      <4>1. pc'[h].remote = pc[h].remote /\ pc[h].use \notin {"ended", "answer"}
        BY <2>6, <3>2
      <4>2. PICK g \in Handles : g = pc[h].remote
        BY <4>1
      <4>3. pc[g].use # "ended" /\ pc[g].remote = h
        BY <1>0, <2>6, <4>1, <4>2 DEF AnswerFitsOffer, Alive, Linked
      <4>4. g # o
        BY <1>0, <2>4, <4>3
      <4> QED
        BY <2>6, <4>1, <4>2, <4>3, <4>4
    <3> QED
      BY <3>1, <3>2
  <2>14. Leaders'
    BY <1>2, <2>7 DEF Leaders, Tracker
  <2> QED
    BY <2>9, <2>10, <2>11, <2>12, <2>13, <2>14 DEF LinkInv, SignalTypes
<1> QED
  BY <1>3, <1>4

LEMMA connectPeerKeeps ==
  ASSUME LinkInv, Leaders, TypeOK', NEW h \in Handles, connectPeer(h)
  PROVE  LinkInv' /\ Leaders'
<1>0. /\ TypeOK /\ Places /\ Makers /\ Leases /\ Answers /\ AnswerFitsOffer
      /\ None \notin Handles /\ DOMAIN st = Sides /\ DOMAIN pc = Handles
  BY Handled DEF LinkInv, SignalTypes, TypeOK
<1> DEFINE s == pc[h].side
           x == Pair(s)
           known == IF stale[Me(s)] THEN None ELSE shared[x]
           opened == [pc EXCEPT ![h].open = TRUE]
           used == [pc[h] EXCEPT !.use = "shared", !.open = TRUE]
           gone == (Dropped(s) \union {shared[x]}) \ {h}
<1>1. /\ Linked(h) /\ pc[h].use \in {"offer", "answer", "leased"}
      /\ UNCHANGED <<offers, tasks, net, faults, setting>>
      /\ \/ /\ pc' = opened \/ pc' = Destroy({h})
            /\ UNCHANGED <<st, shared, stale>>
         \/ /\ st' = [st EXCEPT ![s] = attached(s, known)]
            /\ pc' = Destroy(Dropped(s) \union {h})
            /\ UNCHANGED <<shared, stale>>
         \/ /\ shared' = register(x, h)
            /\ st' = [unbound(x) EXCEPT ![s] = attached(s, h)]
            /\ pc' = [Destroy(gone) EXCEPT ![h] = used]
            /\ UNCHANGED stale
  BY DEF connectPeer
<1>2. /\ s \in Joined /\ s \in Sides /\ x \in Pairs
  BY <1>0, <1>1, SideFacts DEF Linked, Places, Joined
<1>3. \A u \in Sides : st[u].connected # None => u \in Joined
  BY <1>0 DEF Places
<1>4. \A g \in Handles : pc[g] \in Connections
  BY <1>0 DEF TypeOK
<1>5. ASSUME pc' = opened \/ pc' = Destroy({h}), UNCHANGED <<st, shared, stale>>
      PROVE  Forgetting
  <2>1. Ending
    <3>1. CASE pc' = opened
      BY <1>0, <1>4, <3>1 DEF Ending, Connections
    <3>2. CASE pc' = Destroy({h})
      BY <3>2, DestroyEnds
    <3> QED
      BY <1>5, <3>1, <3>2
  <2> QED
    BY <1>1, <1>3, <1>5, <2>1 DEF Forgetting, SidesForget
<1>6. ASSUME st' = [st EXCEPT ![s] = attached(s, known)],
             pc' = Destroy(Dropped(s) \union {h})
      PROVE  Forgetting
  <2> HIDE DEF s, known
  <2>1. Ending
    BY <1>6, DestroyEnds
  <2>2. SidesForget
    BY <1>0, <1>2, <1>3, <1>6, ResetFields DEF SidesForget
  <2> QED
    BY <1>1, <2>1, <2>2 DEF Forgetting
<1>7. ASSUME st' = [unbound(x) EXCEPT ![s] = attached(s, h)],
             pc' = [Destroy(gone) EXCEPT ![h] = used]
      PROVE  LinkInv' /\ Leaders'
  <2>1. /\ pc'[h].use = "shared" /\ pc'[h].side = s
        /\ pc'[h].remote = pc[h].remote
        /\ \A g \in Handles \ {h} : pc'[g].use # "ended" => pc'[g] = pc[g]
    BY <1>0, <1>4, <1>7 DEF Destroy, Ended, Connections
  <2>2. h \notin gone
    OBVIOUS
  <2>3. \A u \in Sides : unbound(x)[u] = exited(u) \/ unbound(x)[u] = st[u]
    BY DEF unbound
  <2>4. DOMAIN unbound(x) = Sides
    BY DEF unbound
  <2> HIDE DEF s, x, known, opened, used, gone
  <2>5. \A u \in Sides :
          /\ st'[u].offerPeer \in {st[u].offerPeer, None}
          /\ st'[u].init \in {st[u].init, None}
          /\ st'[u].answering \in {st[u].answering, None}
          /\ st'[u].connected # None => u \in Joined
          /\ st'[u].offerPeer # None => st'[u].answered = st[u].answered
          /\ u = s => st'[u].offerPeer = None /\ st'[u].answering = None
    BY <1>0, <1>2, <1>3, <1>7, <2>3, <2>4, ResetFields
  <2>6. pc[h].remote # None
    BY <1>0, <1>1 DEF Linked, Alive
  <2>7. Places'
    BY <1>0, <1>1, <1>2, <2>1, <2>5 DEF Places, Alive, Joined, Sides, Pairs
  <2>8. Makers'
    <3>1. ASSUME NEW u \in Sides, Alive(st[u].offerPeer)'
          PROVE  /\ pc'[st'[u].offerPeer].use = "offer"
                 /\ pc'[st'[u].offerPeer].side = u
                 /\ pc'[st'[u].offerPeer].remote # None => st'[u].answered
      <4>1. PICK g \in Handles : g = st'[u].offerPeer
        BY <3>1 DEF Alive
      <4>2. /\ g = st[u].offerPeer /\ g # None /\ u # s
            /\ st'[u].answered = st[u].answered /\ pc'[g].use # "ended"
        BY <1>0, <2>5, <3>1, <4>1 DEF Alive
      <4>3. Alive(st[u].offerPeer)
        BY <1>1, <2>1, <4>2 DEF Linked, Alive
      <4>4. /\ pc[st[u].offerPeer].use = "offer"
            /\ pc[st[u].offerPeer].side = u
            /\ pc[st[u].offerPeer].remote # None => st[u].answered
        BY <1>0, <4>3 DEF Makers
      <4>5. g # h
        BY <4>2, <4>4 DEF s
      <4>6. pc'[g] = pc[g]
        BY <2>1, <4>2, <4>5
      <4> QED
        BY <4>1, <4>2, <4>4, <4>6
    <3>2. ASSUME NEW u \in Sides, Alive(st[u].answering)'
          PROVE  /\ pc'[st'[u].answering].use = "answer"
                 /\ pc'[st'[u].answering].side = u
      <4>1. PICK g \in Handles : g = st'[u].answering
        BY <3>2 DEF Alive
      <4>2. /\ g = st[u].answering /\ g # None /\ u # s /\ pc'[g].use # "ended"
        BY <1>0, <2>5, <3>2, <4>1 DEF Alive
      <4>3. Alive(st[u].answering)
        BY <1>1, <2>1, <4>2 DEF Linked, Alive
      <4>4. pc[st[u].answering].use = "answer" /\ pc[st[u].answering].side = u
        BY <1>0, <4>3 DEF Makers
      <4>5. g # h
        BY <4>2, <4>4 DEF s
      <4>6. pc'[g] = pc[g]
        BY <2>1, <4>2, <4>5
      <4> QED
        BY <4>1, <4>2, <4>4, <4>6
    <3>3. ASSUME NEW v \in tasks', v.step = "init", Alive(v.offer)'
          PROVE  /\ v.relay = None /\ v.by = None
                 /\ pc'[v.offer].use = "offer" /\ pc'[v.offer].side = v.side
                 /\ pc'[v.offer].remote = None
                 /\ \A u \in Sides : st'[u].offerPeer # v.offer
      <4>1. v \in tasks /\ v.offer \in Handles /\ pc'[v.offer].use # "ended"
        BY <1>1, <3>3 DEF Alive
      <4>2. Alive(v.offer)
        BY <1>1, <2>1, <4>1 DEF Linked, Alive
      <4>3. /\ v.relay = None /\ v.by = None
            /\ pc[v.offer].use = "offer" /\ pc[v.offer].side = v.side
            /\ pc[v.offer].remote = None
            /\ \A u \in Sides : st[u].offerPeer # v.offer
        BY <1>0, <3>3, <4>1, <4>2 DEF Makers
      <4>4. v.offer # h /\ v.offer # None
        BY <1>0, <2>6, <4>1, <4>3
      <4> QED
        BY <2>1, <2>5, <4>1, <4>3, <4>4
    <3> QED
      BY <3>1, <3>2, <3>3 DEF Makers
  <2>9. Leases'
    <3>0. Alive(h)
      BY <1>1 DEF Linked
    <3>1. ASSUME NEW y \in Rooms \X Peers, NEW g \in offers'[y]
          PROVE  /\ Tracker'
                 /\ Alive(g)' => /\ pc'[g].use = "leased" /\ pc'[g].remote = None
                                 /\ Home(pc'[g].side) = y
      <4>1. g \in offers[y] /\ Tracker
        BY <1>0, <1>1, <3>1 DEF Leases
      <4>2. g # h
        BY <1>0, <2>6, <3>0, <4>1 DEF Leases
      <4> QED
        BY <1>0, <1>1, <2>1, <4>1, <4>2 DEF Leases, Alive, Tracker
    <3>2. ASSUME NEW g \in Handles, Alive(g)', pc'[g].use = "leased"
          PROVE  Tracker'
      <4>1. g # h
        BY <2>1, <3>2
      <4> QED
        BY <1>0, <1>1, <2>1, <3>2, <4>1 DEF Leases, Alive, Tracker
    <3>3. ASSUME NEW v \in tasks', Tracker', v.step = "answer", Alive(v.offer)'
          PROVE  /\ pc'[v.offer].use = "leased" /\ pc'[v.offer].remote = None
                 /\ \A y \in Rooms \X Peers : v.offer \notin offers'[y]
                 /\ \A u \in tasks' : u.step = "answer" /\ u.offer = v.offer => u = v
      <4>1. Tracker /\ v \in tasks
        BY <1>1, <3>3 DEF Tracker
      <4>2. v.offer \in Handles /\ pc'[v.offer].use # "ended"
        BY <3>3 DEF Alive
      <4>3. Alive(v.offer)
        BY <2>1, <3>0, <4>2 DEF Alive
      <4>4. /\ pc[v.offer].use = "leased" /\ pc[v.offer].remote = None
            /\ \A y \in Rooms \X Peers : v.offer \notin offers[y]
            /\ \A u \in tasks : u.step = "answer" /\ u.offer = v.offer => u = v
        BY <1>0, <3>3, <4>1, <4>3 DEF Leases
      <4>5. v.offer # h
        BY <2>6, <4>4
      <4> QED
        BY <1>1, <2>1, <4>2, <4>4, <4>5
    <3> QED
      BY <3>1, <3>2, <3>3 DEF Leases
  <2>10. Answers'
    <3>1. ASSUME NEW p, NEW b, Made(p, b) PROVE Made(p, b)'
      BY <1>1, <2>1, <3>1 DEF Made, Linked, Alive
    <3>2. ASSUME NEW m \in net', m.type = "answer" PROVE Made(m.offer, m.by)'
      <4>1. Made(m.offer, m.by)
        BY <1>0, <1>1, <3>2 DEF Answers
      <4> QED
        BY <3>1, <4>1 DEF Made
    <3>3. ASSUME NEW v \in tasks', v.step \in {"publish", "answer"}
          PROVE  Made(v.offer, v.by)'
      <4>1. Made(v.offer, v.by)
        BY <1>0, <1>1, <3>3 DEF Answers
      <4> QED
        BY <3>1, <4>1 DEF Made
    <3>4. ASSUME NEW v \in tasks', v.step = "apply"
          PROVE  /\ v.by \in Handles
                 /\ Alive(v.by)' =>
                      /\ pc'[v.by].use = "answer" /\ pc'[v.by].remote = None
                      /\ \A u \in tasks' : u.step = "apply" /\ u.by = v.by => u = v
      <4>1. v \in tasks /\ v.by \in Handles
        BY <1>0, <1>1, <3>4 DEF Answers
      <4>2. CASE Alive(v.by)
        <5>1. /\ pc[v.by].use = "answer" /\ pc[v.by].remote = None
              /\ \A u \in tasks : u.step = "apply" /\ u.by = v.by => u = v
          BY <1>0, <3>4, <4>1, <4>2 DEF Answers
        <5>2. v.by # h
          BY <2>6, <5>1
        <5> QED
          BY <1>1, <2>1, <4>1, <5>1, <5>2 DEF Alive
      <4>3. CASE ~Alive(v.by)
        <5>1. v.by # h
          BY <1>1, <4>3 DEF Linked
        <5> QED
          BY <2>1, <4>1, <4>3, <5>1 DEF Alive
      <4> QED
        BY <4>2, <4>3
    <3> QED
      BY <3>2, <3>3, <3>4 DEF Answers
  <2>11. AnswerFitsOffer'
    <3> SUFFICES ASSUME NEW g \in Handles, pc'[g].use \notin {"ended", "answer"},
                        pc'[g].remote \in Handles,
                        pc'[pc'[g].remote].use # "ended"
                 PROVE  pc'[pc'[g].remote].remote = g
      BY DEF AnswerFitsOffer, Alive, Linked
    <3>1. pc'[g].remote = pc[g].remote
      BY <2>1
    <3>2. PICK e \in Handles : e = pc[g].remote
      BY <3>1
    <3>3. pc[e].use # "ended" /\ pc'[e].remote = pc[e].remote
      BY <1>1, <2>1, <3>1, <3>2 DEF Linked, Alive
    <3>4. pc[e].remote = g
      <4>1. CASE g = h
        BY <1>1, <3>2, <4>1 DEF Linked
      <4>2. CASE g # h
        BY <1>0, <2>1, <3>2, <3>3, <4>2 DEF AnswerFitsOffer, Alive, Linked
      <4> QED
        BY <4>1, <4>2
    <3> QED
      BY <3>1, <3>2, <3>3, <3>4
  <2>12. Leaders'
    BY <1>1, <2>5 DEF Leaders, Tracker
  <2> QED
    BY <2>7, <2>8, <2>9, <2>10, <2>11, <2>12 DEF LinkInv, SignalTypes
<1> HIDE DEF s, x, known, opened, used, gone
<1> QED
  BY <1>1, <1>5, <1>6, <1>7, ForgettingKeeps

-----------------------------------------------------------------------------
LEMMA LinkInit ==
  ASSUME Init
  PROVE  LinkInv /\ Leaders
<1>1. /\ setting \in Settings /\ pc = [h \in Handles |-> Ended]
      /\ st = [s \in Sides |-> Idle] /\ tasks = {} /\ net = {} /\ faults = 0
      /\ offers = [x \in Rooms \X Peers |-> {}]
      /\ shared = [x \in Pairs |-> None] /\ stale = [p \in Peers |-> FALSE]
  BY DEF Init
<1>2. setting.often \in Nat
  BY <1>1, SettingsAssumption
<1>3. Ended \in Connections /\ Ended.use = "ended"
  BY DEF Ended, Connections, Uses
<1>4. /\ Idle \in PeerStates /\ Idle.connected = None /\ Idle.offerPeer = None
      /\ Idle.init = None /\ Idle.active = FALSE
  BY DEF Idle, PeerStates, NoRelays
<1>5. TypeOK
  BY <1>1, <1>2, <1>3, <1>4 DEF TypeOK
<1>6. \A h : ~Alive(h)
  BY <1>1, <1>3 DEF Alive
<1>7. \A s \in Sides : /\ st[s].connected = None /\ st[s].offerPeer = None
                       /\ st[s].init = None
  BY <1>1, <1>4
<1>8. Places /\ Makers /\ Leases /\ Answers /\ AnswerFitsOffer
  BY <1>1, <1>6, <1>7
  DEF Places, Makers, Leases, Answers, Made, AnswerFitsOffer
<1>9. Leaders
  BY <1>1, <1>7 DEF Leaders
<1> QED
  BY <1>5, <1>8, <1>9 DEF LinkInv, SignalTypes

LEMMA LinkStep ==
  ASSUME LinkInv, Leaders, [Next]_vars
  PROVE  LinkInv' /\ Leaders'
<1>0. SignalTypes
  BY DEF LinkInv
<1>1. CASE UNCHANGED vars
  <2>1. TypeOK'
    BY <1>0, <1>1 DEF SignalTypes, TypeOK, vars
  <2>2. Forgetting
    BY <1>0, <1>1, NothingEnds
    DEF Forgetting, SidesForget, SignalTypes, Places, vars
  <2> QED
    BY <2>1, <2>2, ForgettingKeeps
<1>2. ASSUME NEW s \in Joined,
             \/ attachShared(s) \/ clearConnectedPeer(s) \/ activate(s)
             \/ exitPeer(s) \/ expireOffer(s) \/ expireAnswer(s)
             \/ \E y \in setting.relays : prunePendingOffer(s, y)
      PROVE  LinkInv' /\ Leaders'
  BY <1>0, <1>2, OwnTyped, OwnForgets, ForgettingKeeps
<1>3. ASSUME \/ \E h \in Handles :
              notice(h) \/ fail(h) \/ flicker(h) \/ peerError(h)
             \/ \E x \in Pairs : idle(x)
             \/ \E m \in net : lose(m)
      PROVE  LinkInv' /\ Leaders'
  BY <1>0, <1>3, LinkTyped, LinkForgets, ForgettingKeeps
<1>4. ASSUME NEW s \in Joined, NEW y \in setting.relays, handleAnnouncement(s, y)
      PROVE  LinkInv' /\ Leaders'
  BY <1>0, <1>4, handleAnnouncementTyped, handleAnnouncementKeeps
<1>5. ASSUME NEW s \in Joined, ensureOffer(s) \/ sendOffer(s) \/ announceOffers(s)
      PROVE  LinkInv' /\ Leaders'
  BY <1>0, <1>5, ensureOfferTyped, ensureOfferKeeps, sendOfferTyped,
     sendOfferKeeps, announceOffersTyped, announceOffersKeeps
<1>6. ASSUME NEW s \in Joined, handleOffer(s) \/ applyOffer(s) \/ publishAnswer(s)
      PROVE  LinkInv' /\ Leaders'
  BY <1>0, <1>6, handleOfferTyped, handleOfferKeeps, applyOfferTyped,
     applyOfferKeeps, publishAnswerTyped, publishAnswerKeeps
<1>7. ASSUME NEW s \in Joined, handleAnswer(s) \/ applyAnswer(s)
      PROVE  LinkInv' /\ Leaders'
  BY <1>0, <1>7, handleAnswerTyped, handleAnswerKeeps, applyAnswerTyped,
     applyAnswerKeeps
<1>8. ASSUME NEW h \in Handles, connectPeer(h)
      PROVE  LinkInv' /\ Leaders'
  BY <1>0, <1>8, connectPeerTyped, connectPeerKeeps
<1> QED
  BY <1>1, <1>2, <1>3, <1>4, <1>5, <1>6, <1>7, <1>8 DEF Next

-----------------------------------------------------------------------------
(* Steps that the registry, and what a side makes, do not notice. *)
Mild ==
  /\ \A h \in Handles :
       /\ pc'[h].use = pc[h].use
       /\ pc[h].use # "leased" => pc'[h].side = pc[h].side
  /\ UNCHANGED <<shared, stale, setting>>
  /\ \A s \in Sides :
       /\ st'[s].offerPeer = st[s].offerPeer /\ st'[s].init = st[s].init
       /\ st'[s].answering = st[s].answering \/ ~Alive(st[s].answering)
       /\ st'[s].connected \in {st[s].connected, None}
  /\ \A t \in tasks' : t.step = "init" => t \in tasks

LEMMA SingleMild ==
  ASSUME LinkInv, Single, Mild
  PROVE  Single'
<1> SUFFICES ASSUME OneLink'
             PROVE  /\ \A h \in Handles :
                         Alive(h)' /\ pc'[h].use \in {"offer", "answer"} =>
                           /\ shared'[Pair(pc'[h].side)] = None
                           /\ st'[pc'[h].side].connected = None
                           /\ pc'[h].use = "offer" =>
                                /\ Leads(pc'[h].side)
                                /\ h \in {st'[pc'[h].side].offerPeer,
                                          st'[pc'[h].side].init}
                           /\ pc'[h].use = "answer" =>
                                /\ ~Leads(pc'[h].side)
                                /\ h = st'[pc'[h].side].answering
                    /\ \A s \in Sides : st'[s].offerPeer # None => st'[s].init = None
                    /\ \A t \in tasks' : t.step = "init" =>
                         /\ Alive(t.offer)'
                         /\ st'[t.side].init = t.offer
                         /\ st'[t.side].offerPeer = None
  BY DEF Single, Leads, Me, Them
<1>0. OneLink /\ TypeOK /\ Places
  BY DEF Mild, OneLink, Tracker, LinkInv, SignalTypes
<1>1. ASSUME NEW h \in Handles, Alive(h)', pc'[h].use \in {"offer", "answer"}
      PROVE  /\ shared'[Pair(pc'[h].side)] = None
             /\ st'[pc'[h].side].connected = None
             /\ pc'[h].use = "offer" =>
                  /\ Leads(pc'[h].side)
                  /\ h \in {st'[pc'[h].side].offerPeer, st'[pc'[h].side].init}
             /\ pc'[h].use = "answer" =>
                  /\ ~Leads(pc'[h].side)
                  /\ h = st'[pc'[h].side].answering
  <2>1. /\ Alive(h) /\ pc'[h].use = pc[h].use /\ pc'[h].side = pc[h].side
    BY <1>1 DEF Mild, Alive
  <2>2. PICK s \in Sides : s = pc[h].side
    BY <1>0, <2>1 DEF Places, Joined
  <2>3. /\ shared[Pair(s)] = None /\ st[s].connected = None
        /\ pc[h].use = "offer" => Leads(s) /\ h \in {st[s].offerPeer, st[s].init}
        /\ pc[h].use = "answer" => ~Leads(s) /\ h = st[s].answering
    BY <1>0, <1>1, <2>1, <2>2 DEF Single
  <2>4. /\ shared' = shared
        /\ st'[s].offerPeer = st[s].offerPeer /\ st'[s].init = st[s].init
        /\ st'[s].answering = st[s].answering \/ ~Alive(st[s].answering)
        /\ st'[s].connected \in {st[s].connected, None}
    BY DEF Mild
  <2> QED
    BY <2>1, <2>2, <2>3, <2>4
<1>2. ASSUME NEW t \in tasks', t.step = "init"
      PROVE  Alive(t.offer)' /\ st'[t.side].init = t.offer
             /\ st'[t.side].offerPeer = None
  <2>1. t \in tasks
    BY <1>2 DEF Mild
  <2>2. t.side \in Sides
    BY <1>0, <2>1, TaskTyped
  <2>3. /\ Alive(t.offer) /\ st[t.side].init = t.offer
        /\ st[t.side].offerPeer = None
    BY <1>0, <1>2, <2>1 DEF Single
  <2> QED
    BY <2>2, <2>3 DEF Mild, Alive
<1>3. \A s \in Sides : st'[s].offerPeer # None => st'[s].init = None
  BY <1>0 DEF Single, Mild
<1> QED
  BY <1>1, <1>2, <1>3

LEMMA MildKeeps ==
  ASSUME LinkInv, Registry, Mild
  PROVE  Registry'
<1>0. TypeOK /\ Single /\ Registered /\ AllRegistered /\ ConnectedIsShared
  BY DEF Registry, LinkInv, SignalTypes
<1>1. Single'
  BY <1>0, SingleMild
<1>2. \A h \in Handles : Alive(h)' <=> Alive(h)
  BY DEF Mild, Alive
<1>3. Registered'
  BY <1>0 DEF Registered, Mild, Alive
<1>4. AllRegistered'
  BY <1>0, <1>2 DEF AllRegistered, Mild, OneLink, Tracker
<1>5. ConnectedIsShared'
  <2> SUFFICES ASSUME NEW s \in Sides, st'[s].connected # None,
                      stale'[Me(s)] => OneLink'
               PROVE  /\ st'[s].connected = shared'[Pair(s)]
                      /\ shared'[Pair(s)] \in Handles
                      /\ pc'[shared'[Pair(s)]].use # "ended"
    BY DEF ConnectedIsShared, Alive, Me, Pair
  <2>1. /\ st'[s].connected = st[s].connected /\ shared' = shared
        /\ stale[Me(s)] => OneLink
    BY DEF Mild, OneLink, Tracker
  <2>2. st[s].connected = shared[Pair(s)] /\ Alive(shared[Pair(s)])
    BY <1>0, <2>1 DEF ConnectedIsShared
  <2> QED
    BY <2>1, <2>2 DEF Mild, Alive
<1> QED
  BY <1>1, <1>3, <1>4, <1>5 DEF Registry

(* A step that changes no connection is mild when it changes little else. *)
LEMMA MildOwn ==
  ASSUME LinkInv, NEW s \in Joined,
         \/ clearConnectedPeer(s) \/ activate(s) \/ exitPeer(s)
         \/ sendOffer(s) \/ publishAnswer(s) \/ handleAnswer(s)
         \/ \E y \in setting.relays : prunePendingOffer(s, y)
  PROVE  Mild
<1>0. TypeOK /\ s \in Sides
  BY DEF LinkInv, SignalTypes, Joined
<1>1. DOMAIN st = Sides /\ st[s] \in PeerStates
  BY <1>0, StateTyped
<1>2. CASE clearConnectedPeer(s)
  BY <1>0, <1>1, <1>2, ResetFields DEF clearConnectedPeer, Mild
<1>3. CASE activate(s)
  BY <1>0, <1>1, <1>3 DEF activate, Mild, PeerStates
<1>4. CASE exitPeer(s)
  BY <1>0, <1>1, <1>4, ResetFields DEF exitPeer, Mild, Fault, NoFault
<1>5. CASE sendOffer(s)
  BY <1>0, <1>1, <1>5 DEF sendOffer, Mild, PeerStates
<1>6. CASE publishAnswer(s)
  BY <1>6 DEF publishAnswer, Mild
<1>7. CASE handleAnswer(s)
  <2>1. /\ UNCHANGED <<pc, st, shared, stale, setting>>
        /\ \E m : tasks' \subseteq tasks \union {Task("answer", s, None, m.offer, m.by)}
    BY <1>7 DEF handleAnswer, Delivers, Fault, NoFault
  <2>2. \A t \in tasks' : t.step = "init" => t \in tasks
    BY <2>1 DEF Task
  <2> QED
    BY <2>1, <2>2 DEF Mild
<1>8. CASE \E y \in setting.relays : prunePendingOffer(s, y)
  BY <1>0, <1>1, <1>8 DEF prunePendingOffer, Mild, PeerStates
<1> QED
  BY <1>2, <1>3, <1>4, <1>5, <1>6, <1>7, <1>8

LEMMA MildApply ==
  ASSUME LinkInv, NEW s \in Joined, applyOffer(s) \/ applyAnswer(s)
  PROVE  Mild
<1>0. TypeOK /\ Leases /\ s \in Sides
  BY DEF LinkInv, SignalTypes, Joined
<1>1. DOMAIN st = Sides /\ st[s] \in PeerStates /\ DOMAIN pc = Handles
      /\ \A h \in Handles : pc[h] \in Connections
  BY <1>0, StateTyped DEF TypeOK
<1>2. CASE applyOffer(s)
  <2>1. PICK t \in tasks :
          /\ IF Alive(t.by)
               THEN /\ pc' = [pc EXCEPT ![t.by].remote = t.offer]
                    /\ tasks' = (tasks \ {t})
                         \union {Task("publish", s, None, t.offer, t.by)}
                    /\ UNCHANGED st
               ELSE /\ tasks' = tasks \ {t}
                    /\ st' = IF st[s].answering = t.by
                               THEN [st EXCEPT ![s].answering = None]
                               ELSE st
                    /\ UNCHANGED pc
          /\ UNCHANGED <<shared, stale, offers, net, faults, setting>>
    BY <1>2 DEF applyOffer
  <2>2. Task("publish", s, None, t.offer, t.by).step = "publish"
    BY DEF Task
  <2>3. \A v \in tasks' : v.step = "init" => v \in tasks
    BY <2>1, <2>2
  <2>4. \A h \in Handles : pc'[h].use = pc[h].use /\ pc'[h].side = pc[h].side
    BY <1>1, <2>1 DEF Connections
  <2>5. \A u \in Sides :
          /\ st'[u].offerPeer = st[u].offerPeer /\ st'[u].init = st[u].init
          /\ st'[u].answering = st[u].answering \/ ~Alive(st[u].answering)
          /\ st'[u].connected = st[u].connected
    BY <1>0, <1>1, <2>1 DEF PeerStates
  <2> QED
    BY <2>1, <2>3, <2>4, <2>5 DEF Mild
<1>3. CASE applyAnswer(s)
  <2>1. PICK t \in tasks :
          /\ t.step = "answer" /\ tasks' = tasks \ {t}
          /\ \/ /\ Tracker /\ Alive(t.offer)
                /\ pc' = [pc EXCEPT ![t.offer].remote = t.by, ![t.offer].side = s]
                /\ UNCHANGED st
             \/ UNCHANGED <<pc, st>>
             \/ /\ st' = [st EXCEPT ![s].answered = TRUE, ![s].expiry = t.offer]
                /\ pc' = [pc EXCEPT ![t.offer].remote = t.by]
          /\ UNCHANGED <<shared, stale, offers, net, faults, setting>>
    BY <1>3 DEF applyAnswer
  <2>2. Tracker /\ Alive(t.offer) => pc[t.offer].use = "leased"
    BY <1>0, <2>1 DEF Leases
  <2>3. \A h \in Handles :
          /\ pc'[h].use = pc[h].use
          /\ pc[h].use # "leased" => pc'[h].side = pc[h].side
    BY <1>1, <2>1, <2>2 DEF Connections
  <2>4. \A u \in Sides :
          /\ st'[u].offerPeer = st[u].offerPeer /\ st'[u].init = st[u].init
          /\ st'[u].answering = st[u].answering
          /\ st'[u].connected = st[u].connected
    BY <1>0, <1>1, <2>1 DEF PeerStates
  <2> QED
    BY <2>1, <2>3, <2>4 DEF Mild
<1> QED
  BY <1>2, <1>3

LEMMA MildLose ==
  ASSUME NEW m \in net, lose(m)
  PROVE  Mild
BY DEF lose, Mild, Fault

(* Steps that make a connection, which the registry does not have. *)
LEMMA BornRegistry ==
  ASSUME LinkInv, Registry, NEW use \in {"offer", "answer", "leased"},
         NEW s \in Joined, NEW a, Born(use, s, a),
         \A h \in Handles : pc[h].use = "shared" => pc'[h] = pc[h],
         \A u \in Sides : st'[u].connected = st[u].connected,
         UNCHANGED <<shared, stale>>
  PROVE  Registered' /\ AllRegistered' /\ ConnectedIsShared'
<1>0. TypeOK /\ Registered /\ AllRegistered /\ ConnectedIsShared
  BY DEF Registry, LinkInv, SignalTypes
<1>1. a \in Handles /\ pc'[a].use = use /\ setting' = setting
  BY DEF Born, New
<1>2. \A h \in Handles : pc'[h].use = "shared" => pc[h].use = "shared"
  BY <1>1 DEF Born
<1>3. Registered'
  <2> SUFFICES ASSUME NEW x \in Pairs, shared'[x] # None
               PROVE  /\ shared'[x] \in Handles /\ pc'[shared'[x]].use = "shared"
                      /\ Pair(pc'[shared'[x]].side) = x
    BY DEF Registered, Alive, Pair
  <2> QED
    BY <1>0 DEF Registered, Alive
<1>4. AllRegistered'
  BY <1>0, <1>1, <1>2 DEF AllRegistered, OneLink, Tracker, Alive
<1>5. ConnectedIsShared'
  <2> SUFFICES ASSUME NEW u \in Sides, st'[u].connected # None,
                      stale'[Me(u)] => OneLink'
               PROVE  /\ st'[u].connected = shared'[Pair(u)]
                      /\ shared'[Pair(u)] \in Handles
                      /\ pc'[shared'[Pair(u)]].use # "ended"
    BY DEF ConnectedIsShared, Alive, Me, Pair
  <2>1. /\ st'[u].connected = st[u].connected /\ shared' = shared
        /\ stale[Me(u)] => OneLink
    BY <1>1 DEF OneLink, Tracker
  <2>2. st[u].connected = shared[Pair(u)] /\ Alive(shared[Pair(u)])
    BY <1>0, <2>1 DEF ConnectedIsShared
  <2>3. pc[shared[Pair(u)]].use = "shared" /\ shared[Pair(u)] # None
    BY <1>0, <2>1, <2>2, SideFacts DEF Registered
  <2> QED
    BY <2>1, <2>2, <2>3 DEF Alive
<1> QED
  BY <1>3, <1>4, <1>5

(* Single, one part at a time. *)
LEMMA SingleFrom ==
  ASSUME OneLink' =>
           /\ \A h \in Handles :
                pc'[h].use \in {"offer", "answer"} =>
                  /\ shared'[Pair(pc'[h].side)] = None
                  /\ st'[pc'[h].side].connected = None
                  /\ pc'[h].use = "offer" =>
                       /\ Leads(pc'[h].side)
                       /\ h \in {st'[pc'[h].side].offerPeer,
                                 st'[pc'[h].side].init}
                  /\ pc'[h].use = "answer" =>
                       /\ ~Leads(pc'[h].side)
                       /\ h = st'[pc'[h].side].answering,
         OneLink' => \A s \in Sides : st'[s].offerPeer # None => st'[s].init = None,
         OneLink' => \A t \in tasks' : t.step = "init" =>
           /\ t.offer \in Handles /\ pc'[t.offer].use # "ended"
           /\ st'[t.side].init = t.offer
           /\ st'[t.side].offerPeer = None
  PROVE  Single'
BY DEF Single, Leads, Me, Them, Alive

(* What Single says of a connection on its way. *)
LEMMA OnItsWay ==
  ASSUME LinkInv, Single, OneLink, NEW h \in Handles,
         pc[h].use \in {"offer", "answer"}
  PROVE  /\ pc[h].side \in Joined /\ pc[h].side \in Sides
         /\ Pair(pc[h].side) \in Pairs
         /\ shared[Pair(pc[h].side)] = None
         /\ st[pc[h].side].connected = None
         /\ pc[h].use = "offer" =>
              /\ Leads(pc[h].side)
              /\ h \in {st[pc[h].side].offerPeer, st[pc[h].side].init}
         /\ pc[h].use = "answer" =>
              ~Leads(pc[h].side) /\ h = st[pc[h].side].answering
<1>1. Alive(h)
  BY DEF Alive
<1>2. pc[h].side \in Joined /\ pc[h].side \in Sides
  BY <1>1 DEF LinkInv, SignalTypes, Places, Joined
<1> QED
  BY <1>1, <1>2, SideFacts DEF Single

LEMMA handleAnnouncementRegistry ==
  ASSUME LinkInv, Leaders, Registry, NEW s \in Joined, NEW y \in setting.relays,
         handleAnnouncement(s, y)
  PROVE  Registry'
<1>0. TypeOK /\ Single /\ s \in Sides /\ None \notin Handles
  BY Handled DEF LinkInv, SignalTypes, Registry, Joined
<1>1. DOMAIN st = Sides /\ st[s] \in PeerStates /\ DOMAIN pc = Handles
  BY <1>0, StateTyped DEF TypeOK
<1>2. /\ Leads(s) /\ st[s].connected = None /\ shared[Pair(s)] = None
      /\ UNCHANGED <<shared, stale, offers, net, faults, setting>>
  BY <1>0 DEF handleAnnouncement, Leaders, Leads
<1>3. CASE \E h \in Handles :
             /\ tasks' = tasks \union {Task("announce", s, y, h, None)}
             /\ st' = [st EXCEPT ![s].relays[y] = "placeholder"]
             /\ UNCHANGED pc
  <2>1. \A t \in tasks' : t.step = "init" => t \in tasks
    BY <1>3 DEF Task
  <2>2. Mild
    BY <1>0, <1>1, <1>2, <1>3, <2>1 DEF Mild, PeerStates
  <2> QED
    BY <2>2, MildKeeps
<1>4. CASE /\ st[s].offerPeer = None /\ st[s].init = None
           /\ \E h \in Handles :
                /\ Fresh(h)
                /\ pc' = [pc EXCEPT ![h] = New("offer", s, None)]
                /\ tasks' = tasks \union {Task("init", s, None, h, None),
                                          Task("announce", s, y, h, None)}
                /\ st' = [st EXCEPT ![s].relays[y] = "placeholder",
                                    ![s].init = h]
  <2>1. PICK h \in Handles :
          /\ Fresh(h)
          /\ pc' = [pc EXCEPT ![h] = New("offer", s, None)]
          /\ tasks' = tasks \union {Task("init", s, None, h, None),
                                    Task("announce", s, y, h, None)}
          /\ st' = [st EXCEPT ![s].relays[y] = "placeholder", ![s].init = h]
    BY <1>4
  <2>2. /\ Born("offer", s, h) /\ ~Alive(h)
        /\ \A g \in Handles \ {h} : pc'[g] = pc[g]
        /\ pc'[h].use = "offer" /\ pc'[h].side = s
    BY <1>0, <1>1, <1>2, <2>1, FreshFacts DEF Born, New
  <2>3. /\ \A u \in Sides : /\ st'[u].offerPeer = st[u].offerPeer
                            /\ st'[u].answering = st[u].answering
                            /\ st'[u].connected = st[u].connected
                            /\ u # s => st'[u].init = st[u].init
        /\ st'[s].init = h
    BY <1>0, <1>1, <2>1 DEF PeerStates
  <2>4. \A g \in Handles : pc[g].use = "shared" => pc'[g] = pc[g]
    BY <2>2 DEF Alive
  <2>5. Registered' /\ AllRegistered' /\ ConnectedIsShared'
    BY <1>2, <2>2, <2>3, <2>4, BornRegistry
  <2>6. OneLink' <=> OneLink
    BY <1>2 DEF OneLink, Tracker
  <2>7. ASSUME OneLink, NEW g \in Handles, pc'[g].use \in {"offer", "answer"}
        PROVE  /\ shared'[Pair(pc'[g].side)] = None
               /\ st'[pc'[g].side].connected = None
               /\ pc'[g].use = "offer" =>
                    /\ Leads(pc'[g].side)
                    /\ g \in {st'[pc'[g].side].offerPeer, st'[pc'[g].side].init}
               /\ pc'[g].use = "answer" =>
                    /\ ~Leads(pc'[g].side) /\ g = st'[pc'[g].side].answering
    <3>1. CASE g = h
      BY <1>0, <1>2, <2>2, <2>3, <3>1
    <3>2. CASE g # h
      <4>1. PICK u \in Sides : u = pc[g].side /\ u = pc'[g].side
        BY <1>0, <2>2, <2>7, <3>2, OnItsWay
      <4>2. /\ shared[Pair(u)] = None /\ st[u].connected = None
            /\ pc[g].use = "offer" => Leads(u) /\ g \in {st[u].offerPeer, st[u].init}
            /\ pc[g].use = "answer" => ~Leads(u) /\ g = st[u].answering
        BY <1>0, <2>2, <2>7, <3>2, <4>1, OnItsWay
      <4>3. u = s => pc[g].use # "offer"
        BY <1>0, <1>4, <4>2
      <4> QED
        BY <1>2, <2>2, <2>3, <3>2, <4>1, <4>2, <4>3
    <3> QED
      BY <3>1, <3>2
  <2> DEFINE new == Task("init", s, None, h, None)
             saying == Task("announce", s, y, h, None)
  <2>8. /\ new.offer = h /\ new.side = s /\ saying.step = "announce"
    BY DEF Task
  <2>9. tasks' = tasks \union {new, saying}
    BY <2>1
  <2> HIDE DEF new, saying
  <2>10. ASSUME OneLink, NEW t \in tasks', t.step = "init"
         PROVE  /\ t.offer \in Handles /\ pc'[t.offer].use # "ended"
                /\ st'[t.side].init = t.offer /\ st'[t.side].offerPeer = None
    <3>1. CASE t = new
      BY <1>0, <1>4, <2>2, <2>3, <2>8, <3>1
    <3>2. CASE t \in tasks
      <4>1. /\ Alive(t.offer) /\ st[t.side].init = t.offer
            /\ st[t.side].offerPeer = None /\ t.side \in Sides
        BY <1>0, <2>10, <3>2, TaskTyped DEF Single
      <4>2. t.side # s /\ t.offer # h
        BY <1>0, <1>4, <2>2, <4>1 DEF Alive
      <4> QED
        BY <2>2, <2>3, <4>1, <4>2 DEF Alive
    <3> QED
      BY <2>8, <2>9, <2>10, <3>1, <3>2
  <2>11. OneLink => \A u \in Sides : st'[u].offerPeer # None => st'[u].init = None
    BY <1>0, <1>4, <2>3 DEF Single
  <2>12. Single'
    BY <2>6, <2>7, <2>10, <2>11, SingleFrom
  <2> QED
    BY <2>5, <2>12 DEF Registry
<1> QED
  BY <1>3, <1>4 DEF handleAnnouncement

LEMMA announceOffersRegistry ==
  ASSUME LinkInv, Registry, NEW s \in Joined, announceOffers(s)
  PROVE  Registry'
<1>0. TypeOK /\ DOMAIN pc = Handles
  BY DEF LinkInv, SignalTypes, TypeOK
<1>1. PICK h \in Handles :
        /\ \/ UNCHANGED <<pc, offers>>
           \/ /\ Fresh(h)
              /\ pc' = [pc EXCEPT ![h] = New("leased", s, None)]
        /\ UNCHANGED <<st, shared, stale, tasks, faults, setting>>
  BY DEF announceOffers
<1>2. CASE UNCHANGED pc
  <2>1. Mild
    BY <1>1, <1>2 DEF Mild
  <2> QED
    BY <2>1, MildKeeps
<1>3. CASE Fresh(h) /\ pc' = [pc EXCEPT ![h] = New("leased", s, None)]
  <2>1. Born("leased", s, h) /\ ~Alive(h)
    BY <1>0, <1>1, <1>3, FreshFacts DEF Born
  <2>2. \A g \in Handles : pc[g].use = "shared" => pc'[g] = pc[g]
    BY <1>0, <1>3, <2>1 DEF Alive
  <2>3. Registered' /\ AllRegistered' /\ ConnectedIsShared'
    BY <1>1, <2>1, <2>2, BornRegistry
  <2>4. ~OneLink'
    BY <1>1 DEF announceOffers, OneLink, Tracker
  <2> QED
    BY <2>3, <2>4 DEF Registry, Single
<1> QED
  BY <1>1, <1>2, <1>3

LEMMA handleOfferRegistry ==
  ASSUME LinkInv, Leaders, Registry, NEW s \in Joined, handleOffer(s)
  PROVE  Registry'
<1>0. TypeOK /\ Single /\ Makers /\ s \in Sides /\ None \notin Handles
  BY Handled DEF LinkInv, SignalTypes, Registry, Joined
<1>1. DOMAIN st = Sides /\ st[s] \in PeerStates /\ DOMAIN pc = Handles
  BY <1>0, StateTyped DEF TypeOK
<1>2. PICK m \in net :
        /\ m.type = "offer" /\ m.to = s
        /\ \/ UNCHANGED <<pc, st, tasks>>
           \/ /\ ~Signalled(s) /\ st[s].answering = None
              /\ \E a \in Handles, gone \in {Dropped(s), {}},
                    v \in {st[s], resetOfferState(s)} :
                   /\ Fresh(a)
                   /\ pc' = [Destroy(gone) EXCEPT ![a] = New("answer", s, None)]
                   /\ st' = [st EXCEPT ![s] = [v EXCEPT !.answering = a]]
                   /\ tasks' = tasks \union {Task("apply", s, None, m.offer, a)}
        /\ UNCHANGED <<shared, stale, offers, setting>>
  BY DEF handleOffer, Delivers, Fault, NoFault
<1>3. CASE UNCHANGED <<pc, st, tasks>>
  <2>1. Mild
    BY <1>2, <1>3 DEF Mild
  <2> QED
    BY <2>1, MildKeeps
<1>4. CASE ~UNCHANGED <<pc, st, tasks>>
  <2>1. /\ st[s].connected = None /\ shared[Pair(s)] = None
        /\ st[s].answering = None
    BY <1>2, <1>4 DEF Signalled
  <2>2. PICK a \in Handles, gone \in {Dropped(s), {}},
             v \in {st[s], resetOfferState(s)} :
             /\ Fresh(a)
             /\ pc' = [Destroy(gone) EXCEPT ![a] = New("answer", s, None)]
             /\ st' = [st EXCEPT ![s] = [v EXCEPT !.answering = a]]
             /\ tasks' = tasks \union {Task("apply", s, None, m.offer, a)}
    BY <1>2, <1>4
  <2>3. /\ v \in PeerStates
        /\ v.offerPeer \in {st[s].offerPeer, None}
        /\ v.init \in {st[s].init, None}
        /\ v.connected = st[s].connected
    BY <1>0, <1>1, ResetFields, UpdatesTyped, Handled
  <2>4. \A u \in Sides :
          /\ st'[u].offerPeer \in {st[u].offerPeer, None}
          /\ st'[u].init \in {st[u].init, None}
          /\ st'[u].connected = st[u].connected
          /\ st'[u].answering = IF u = s THEN a ELSE st[u].answering
          /\ u # s => st'[u] = st[u]
    BY <1>0, <1>1, <2>2, <2>3 DEF PeerStates
  <2>5. /\ Born("answer", s, a) /\ ~Alive(a)
        /\ pc'[a].use = "answer" /\ pc'[a].side = s
        /\ \A g \in Handles \ {a} : g \notin gone => pc'[g] = pc[g]
        /\ \A g \in Handles \ {a} : pc'[g].use # "ended" => pc'[g] = pc[g]
    BY <1>0, <1>2, <2>2, FreshFacts DEF Born, Destroy, Ended, New
  <2>6. \A g \in Handles : pc[g].use = "shared" => pc'[g] = pc[g]
    <3>1. \A g \in gone : Alive(g) => pc[g].use = "offer"
      BY <1>0, <2>2 DEF Makers, Dropped
    <3> QED
      BY <2>5, <3>1 DEF Alive
  <2>7. Registered' /\ AllRegistered' /\ ConnectedIsShared'
    BY <1>2, <2>4, <2>5, <2>6, BornRegistry
  <2>8. OneLink' <=> OneLink
    BY <1>2 DEF OneLink, Tracker
  <2>9. OneLink => /\ ~Leads(s) /\ st[s].offerPeer = None /\ st[s].init = None
    BY <1>0, <1>2 DEF Leaders, OneLink
  <2>10. OneLink => \A g \in Handles : Alive(g) => pc'[g] = pc[g]
    <3> SUFFICES ASSUME OneLink, NEW g \in Handles, Alive(g)
                 PROVE  pc'[g] = pc[g]
      OBVIOUS
    <3>1. gone = {}
      BY <2>2, <2>9 DEF Dropped
    <3> QED
      BY <2>5, <3>1
  <2>11. ASSUME OneLink, NEW g \in Handles, pc'[g].use \in {"offer", "answer"}
         PROVE  /\ shared'[Pair(pc'[g].side)] = None
                /\ st'[pc'[g].side].connected = None
                /\ pc'[g].use = "offer" =>
                     /\ Leads(pc'[g].side)
                     /\ g \in {st'[pc'[g].side].offerPeer, st'[pc'[g].side].init}
                /\ pc'[g].use = "answer" =>
                     /\ ~Leads(pc'[g].side) /\ g = st'[pc'[g].side].answering
    <3>1. CASE g = a
      BY <1>0, <1>2, <2>1, <2>4, <2>5, <2>9, <2>11, <3>1
    <3>2. CASE g # a
      <4>1. pc'[g] = pc[g]
        BY <2>5, <2>11, <3>2
      <4>2. PICK u \in Sides : u = pc[g].side
        BY <1>0, <2>11, <4>1, OnItsWay
      <4>3. /\ shared[Pair(u)] = None /\ st[u].connected = None
            /\ pc[g].use = "offer" => Leads(u) /\ g \in {st[u].offerPeer, st[u].init}
            /\ pc[g].use = "answer" => ~Leads(u) /\ g = st[u].answering
        BY <1>0, <2>11, <4>1, <4>2, OnItsWay
      <4>4. u # s
        BY <1>0, <2>1, <2>9, <2>11, <4>1, <4>3
      <4> QED
        BY <1>2, <2>4, <4>1, <4>2, <4>3, <4>4
    <3> QED
      BY <3>1, <3>2
  <2> DEFINE new == Task("apply", s, None, m.offer, a)
  <2>12. new.step = "apply"
    BY DEF Task
  <2>13. tasks' = tasks \union {new}
    BY <2>2
  <2> HIDE DEF new
  <2>14. ASSUME OneLink, NEW t \in tasks', t.step = "init"
         PROVE  /\ t.offer \in Handles /\ pc'[t.offer].use # "ended"
                /\ st'[t.side].init = t.offer /\ st'[t.side].offerPeer = None
    <3>1. t \in tasks
      BY <2>12, <2>13, <2>14
    <3>2. /\ Alive(t.offer) /\ st[t.side].init = t.offer
          /\ st[t.side].offerPeer = None /\ t.side \in Sides
      BY <1>0, <2>14, <3>1, TaskTyped DEF Single
    <3>3. t.side # s
      BY <1>0, <2>9, <2>14, <3>2 DEF Alive
    <3> QED
      BY <2>4, <2>10, <2>14, <3>2, <3>3 DEF Alive
  <2>15. OneLink => \A u \in Sides : st'[u].offerPeer # None => st'[u].init = None
    BY <1>0, <2>4 DEF Single
  <2>16. Single'
    BY <2>8, <2>11, <2>14, <2>15, SingleFrom
  <2> QED
    BY <2>7, <2>16 DEF Registry
<1> QED
  BY <1>3, <1>4

LEMMA ensureOfferRegistry ==
  ASSUME LinkInv, Registry, NEW s \in Joined, ensureOffer(s)
  PROVE  Registry'
<1>0. /\ TypeOK /\ Single /\ Registered /\ AllRegistered /\ ConnectedIsShared
      /\ Makers /\ s \in Sides /\ None \notin Handles
  BY Handled DEF LinkInv, SignalTypes, Registry, Joined
<1>1. PICK t \in tasks :
        /\ t.step = "init" /\ t.side = s /\ tasks' = tasks \ {t}
        /\ st' = [st EXCEPT ![s].offerPeer = t.offer, ![s].answered = FALSE,
                            ![s].expiry = t.offer, ![s].init = None]
        /\ UNCHANGED <<pc, shared, stale, offers, net, faults, setting>>
  BY DEF ensureOffer
<1>2. DOMAIN st = Sides /\ st[s] \in PeerStates
  BY <1>0, StateTyped
<1>3. /\ st'[s].offerPeer = t.offer /\ st'[s].init = None
      /\ st'[s].answering = st[s].answering
      /\ st'[s].connected = st[s].connected
      /\ \A u \in Sides \ {s} : st'[u] = st[u]
  BY <1>0, <1>1, <1>2 DEF PeerStates
<1>4. OneLink' <=> OneLink
  BY <1>1 DEF OneLink, Tracker
<1>5. OneLink => /\ Alive(t.offer) /\ st[s].init = t.offer
                 /\ st[s].offerPeer = None
  BY <1>0, <1>1 DEF Single
<1>6. ASSUME OneLink, NEW g \in Handles, pc'[g].use \in {"offer", "answer"}
      PROVE  /\ shared'[Pair(pc'[g].side)] = None
             /\ st'[pc'[g].side].connected = None
             /\ pc'[g].use = "offer" =>
                  /\ Leads(pc'[g].side)
                  /\ g \in {st'[pc'[g].side].offerPeer, st'[pc'[g].side].init}
             /\ pc'[g].use = "answer" =>
                  /\ ~Leads(pc'[g].side) /\ g = st'[pc'[g].side].answering
  <2>1. PICK u \in Sides : u = pc[g].side
    BY <1>0, <1>1, <1>6, OnItsWay
  <2>2. /\ shared[Pair(u)] = None /\ st[u].connected = None
        /\ pc[g].use = "offer" => Leads(u) /\ g \in {st[u].offerPeer, st[u].init}
        /\ pc[g].use = "answer" => ~Leads(u) /\ g = st[u].answering
    BY <1>0, <1>1, <1>6, <2>1, OnItsWay
  <2>3. CASE u = s
    BY <1>0, <1>1, <1>3, <1>5, <1>6, <2>1, <2>2, <2>3
  <2>4. CASE u # s
    BY <1>1, <1>3, <2>1, <2>2, <2>4
  <2> QED
    BY <2>3, <2>4
<1>7. ASSUME OneLink, NEW v \in tasks', v.step = "init"
      PROVE  /\ v.offer \in Handles /\ pc'[v.offer].use # "ended"
             /\ st'[v.side].init = v.offer /\ st'[v.side].offerPeer = None
  <2>1. /\ v \in tasks /\ v # t /\ v \in Tasks /\ t \in Tasks /\ v.side \in Sides
    BY <1>0, <1>1, TaskTyped
  <2>2. /\ Alive(v.offer) /\ st[v.side].init = v.offer
        /\ st[v.side].offerPeer = None
    BY <1>0, <1>7, <2>1 DEF Single
  <2>3. v.side # s
    <3> SUFFICES ASSUME v.side = s PROVE FALSE
      OBVIOUS
    <3>1. v.offer = t.offer
      BY <1>5, <1>7, <2>2
    <3>2. /\ v.relay = None /\ v.by = None /\ t.relay = None /\ t.by = None
      BY <1>0, <1>1, <1>5, <1>7, <2>1, <2>2 DEF Makers
    <3> QED
      BY <1>1, <1>7, <2>1, <3>1, <3>2 DEF Tasks
  <2> QED
    BY <1>1, <1>3, <2>1, <2>2, <2>3 DEF Alive
<1>8. OneLink => \A u \in Sides : st'[u].offerPeer # None => st'[u].init = None
  BY <1>0, <1>3 DEF Single
<1>9. Single'
  BY <1>4, <1>6, <1>7, <1>8, SingleFrom
<1>10. Registered' /\ AllRegistered'
  BY <1>0, <1>1, <1>4 DEF Registered, AllRegistered, Alive
<1>11. \A u \in Sides : st'[u].connected = st[u].connected
  BY <1>3
<1>12. ConnectedIsShared'
  BY <1>0, <1>1, <1>4, <1>11 DEF ConnectedIsShared, Alive
<1> QED
  BY <1>9, <1>10, <1>12 DEF Registry

-----------------------------------------------------------------------------
(* Steps that end connections: the registry loses none that lives, the rooms *)
(* go by the registry, and a side forgets no connection on its way.          *)
Losing ==
  /\ \A h \in Handles : pc'[h] = pc[h] \/ pc'[h].use \in {"ended", "left"}
  /\ \A x \in Pairs :
       /\ shared'[x] \in {shared[x], None}
       /\ shared'[x] # None => pc'[shared[x]] = pc[shared[x]]
  /\ \A p \in Peers : stale[p] => stale'[p]
  /\ \A s \in Sides : st'[s].connected # None =>
       \/ st'[s].connected = shared'[Pair(s)]
       \/ st'[s].connected = st[s].connected /\ st[s].connected # shared[Pair(s)]
  /\ \A s \in Sides : st'[s].offerPeer \in {st[s].offerPeer, None}
                      /\ st'[s].init \in {st[s].init, None}
  /\ setting' = setting

(* With one link at a time. *)
LosingOne ==
  /\ \A h \in Handles, s \in Sides :
       pc'[h].use \in {"offer", "answer"} /\ pc[h].side = s =>
         /\ st[s].offerPeer = h => st'[s].offerPeer = h
         /\ st[s].init = h => st'[s].init = h
         /\ st[s].answering = h => st'[s].answering = h
  /\ \A t \in tasks' : t.step = "init" =>
       t \in tasks /\ pc'[t.offer] = pc[t.offer]
  /\ "error" \notin setting.faults =>
       \A x \in Pairs : shared[x] # None /\ shared'[x] = None =>
         pc'[shared[x]].use # "shared"

(* An offer that is being made is known to its side. *)
LEMMA InitTask ==
  ASSUME LinkInv, Single, OneLink, NEW t \in tasks, t.step = "init"
  PROVE  /\ Alive(t.offer) /\ t.offer \in Handles /\ t.side \in Sides
         /\ pc[t.offer].use = "offer" /\ pc[t.offer].side = t.side
         /\ pc[t.offer].remote = None
         /\ st[t.side].init = t.offer /\ st[t.side].offerPeer = None
         /\ st[t.side].connected = None /\ shared[Pair(t.side)] = None
<1>1. TypeOK /\ Makers
  BY DEF LinkInv, SignalTypes
<1>2. /\ Alive(t.offer) /\ st[t.side].init = t.offer
      /\ st[t.side].offerPeer = None
  BY DEF Single
<1>3. t.offer \in Handles /\ t.side \in Sides
  BY <1>1, TaskTyped
<1>4. /\ pc[t.offer].use = "offer" /\ pc[t.offer].side = t.side
      /\ pc[t.offer].remote = None
  BY <1>1, <1>2 DEF Makers
<1> QED
  BY <1>2, <1>3, <1>4, OnItsWay

LEMMA LosingKeeps ==
  ASSUME LinkInv, Registry, Losing, OneLink => LosingOne
  PROVE  Registry'
<1>0. /\ TypeOK /\ Single /\ Registered /\ AllRegistered /\ ConnectedIsShared
      /\ None \notin Handles
  BY Handled DEF Registry, LinkInv, SignalTypes
<1>1. OneLink' <=> OneLink
  BY DEF Losing, OneLink, Tracker
<1>2. ASSUME NEW x \in Pairs, shared'[x] # None
      PROVE  /\ shared'[x] = shared[x] /\ shared[x] \in Handles
             /\ pc'[shared[x]] = pc[shared[x]]
             /\ pc[shared[x]].use = "shared" /\ Pair(pc[shared[x]].side) = x
  BY <1>0, <1>2 DEF Losing, Registered, Alive
<1>3. Registered'
  <2> SUFFICES ASSUME NEW x \in Pairs, shared'[x] # None
               PROVE  /\ shared'[x] \in Handles /\ pc'[shared'[x]].use = "shared"
                      /\ Pair(pc'[shared'[x]].side) = x
    BY DEF Registered, Alive, Pair
  <2> QED
    BY <1>2
<1>4. AllRegistered'
  <2> SUFFICES ASSUME OneLink, "error" \notin setting.faults,
                      NEW h \in Handles, pc'[h].use = "shared"
               PROVE  shared'[Pair(pc'[h].side)] = h
    BY <1>1 DEF AllRegistered, Alive, Pair, Losing
  <2>1. pc'[h] = pc[h] /\ Alive(h)
    BY DEF Losing, Alive
  <2>2. shared[Pair(pc[h].side)] = h
    BY <1>0, <2>1 DEF AllRegistered
  <2>3. Pair(pc[h].side) \in Pairs
    BY <2>1, SideFacts DEF LinkInv, SignalTypes, Places, Joined
  <2>4. shared'[Pair(pc[h].side)] # None
    BY <1>0, <2>1, <2>2, <2>3 DEF LosingOne
  <2> QED
    BY <1>2, <2>1, <2>2, <2>3, <2>4
<1>5. ConnectedIsShared'
  <2> SUFFICES ASSUME NEW s \in Sides, st'[s].connected # None,
                      stale'[Me(s)] => OneLink
               PROVE  /\ st'[s].connected = shared'[Pair(s)]
                      /\ shared'[Pair(s)] \in Handles
                      /\ pc'[shared'[Pair(s)]].use # "ended"
    BY <1>1 DEF ConnectedIsShared, Alive, Me, Pair
  <2>1. Pair(s) \in Pairs /\ Me(s) \in Peers
    BY SideFacts
  <2>2. stale[Me(s)] => OneLink
    BY <2>1 DEF Losing
  <2>3. st'[s].connected = shared'[Pair(s)]
    <3>1. st[s].connected # None => st[s].connected = shared[Pair(s)]
      BY <1>0, <2>2 DEF ConnectedIsShared
    <3> QED
      BY <3>1 DEF Losing
  <2> QED
    BY <1>2, <2>1, <2>3
<1>6. ASSUME OneLink, NEW h \in Handles, pc'[h].use \in {"offer", "answer"}
      PROVE  /\ shared'[Pair(pc'[h].side)] = None
             /\ st'[pc'[h].side].connected = None
             /\ pc'[h].use = "offer" =>
                  /\ Leads(pc'[h].side)
                  /\ h \in {st'[pc'[h].side].offerPeer, st'[pc'[h].side].init}
             /\ pc'[h].use = "answer" =>
                  /\ ~Leads(pc'[h].side) /\ h = st'[pc'[h].side].answering
  <2>1. pc'[h] = pc[h]
    BY <1>6 DEF Losing
  <2>2. PICK s \in Sides : s = pc[h].side
    BY <1>0, <1>6, <2>1, OnItsWay
  <2>3. /\ shared[Pair(s)] = None /\ st[s].connected = None
        /\ Pair(s) \in Pairs
        /\ pc[h].use = "offer" => Leads(s) /\ h \in {st[s].offerPeer, st[s].init}
        /\ pc[h].use = "answer" => ~Leads(s) /\ h = st[s].answering
    BY <1>0, <1>6, <2>1, <2>2, OnItsWay
  <2>4. shared'[Pair(s)] = None /\ st'[s].connected = None
    BY <2>3 DEF Losing
  <2>5. /\ st[s].offerPeer = h => st'[s].offerPeer = h
        /\ st[s].init = h => st'[s].init = h
        /\ st[s].answering = h => st'[s].answering = h
    BY <1>6, <2>2 DEF LosingOne
  <2> QED
    BY <2>1, <2>2, <2>3, <2>4, <2>5
<1>7. ASSUME OneLink, NEW t \in tasks', t.step = "init"
      PROVE  /\ t.offer \in Handles /\ pc'[t.offer].use # "ended"
             /\ st'[t.side].init = t.offer /\ st'[t.side].offerPeer = None
  <2>1. t \in tasks /\ pc'[t.offer] = pc[t.offer]
    BY <1>7 DEF LosingOne
  <2>2. /\ t.offer \in Handles /\ t.side \in Sides
        /\ pc[t.offer].use = "offer" /\ pc[t.offer].side = t.side
        /\ st[t.side].init = t.offer /\ st[t.side].offerPeer = None
    BY <1>0, <1>7, <2>1, InitTask
  <2> QED
    BY <1>7, <2>1, <2>2 DEF LosingOne, Losing
<1>8. OneLink => \A s \in Sides : st'[s].offerPeer # None => st'[s].init = None
  BY <1>0 DEF Single, Losing
<1>9. Single'
  BY <1>1, <1>6, <1>7, <1>8, SingleFrom
<1> QED
  BY <1>3, <1>4, <1>5, <1>9 DEF Registry

(* What a registered connection is, and is not. *)
LEMMA RegisteredFacts ==
  ASSUME LinkInv, Registry, NEW x \in Pairs, shared[x] # None
  PROVE  /\ shared[x] \in Handles /\ Alive(shared[x])
         /\ pc[shared[x]].use = "shared" /\ Pair(pc[shared[x]].side) = x
         /\ \A s \in Sides : /\ shared[x] # st[s].offerPeer
                             /\ shared[x] # st[s].answering
<1>1. /\ shared[x] \in Handles /\ Alive(shared[x])
      /\ pc[shared[x]].use = "shared" /\ Pair(pc[shared[x]].side) = x
  BY DEF Registry, Registered, Alive
<1>2. ASSUME NEW s \in Sides PROVE shared[x] # st[s].offerPeer
  <2> SUFFICES ASSUME shared[x] = st[s].offerPeer PROVE FALSE
    OBVIOUS
  <2>1. Alive(st[s].offerPeer)
    BY <1>1
  <2> QED
    BY <1>1, <2>1 DEF LinkInv, Makers
<1>3. ASSUME NEW s \in Sides PROVE shared[x] # st[s].answering
  <2> SUFFICES ASSUME shared[x] = st[s].answering PROVE FALSE
    OBVIOUS
  <2>1. Alive(st[s].answering)
    BY <1>1
  <2> QED
    BY <1>1, <2>1 DEF LinkInv, Makers
<1> QED
  BY <1>1, <1>2, <1>3

(* Attaching a room to the shared connection, after destroying those in gone. *)
LEMMA AttachLoses ==
  ASSUME LinkInv, Registry, NEW s \in Joined, NEW gone,
         st[s].connected = None, shared[Pair(s)] # None,
         st' = [st EXCEPT ![s] = attached(s, shared[Pair(s)])],
         pc' = Destroy(gone),
         \A h \in gone : h = st[s].offerPeer \/ (~OneLink /\ pc[h].use # "shared"),
         tasks' = tasks, UNCHANGED <<shared, stale, setting>>
  PROVE  Registry'
<1>0. TypeOK /\ Single /\ s \in Sides /\ None \notin Handles /\ DOMAIN st = Sides
  BY Handled DEF LinkInv, SignalTypes, Registry, Joined, TypeOK
<1>1. /\ \A h \in Handles : h \in gone => pc'[h].use = "ended"
      /\ \A h \in Handles : h \notin gone => pc'[h] = pc[h]
  BY DestroyEnds
<1>2. \A u \in Sides \ {s} : st'[u] = st[u]
  BY <1>0
<1>3. /\ st'[s].offerPeer = None /\ st'[s].init = None
      /\ st'[s].connected = shared[Pair(s)]
  BY <1>0, ResetFields
<1>4. \A x \in Pairs : shared[x] # None => pc'[shared[x]] = pc[shared[x]]
  <2> SUFFICES ASSUME NEW x \in Pairs, shared[x] # None
               PROVE  pc'[shared[x]] = pc[shared[x]]
    OBVIOUS
  <2>1. /\ shared[x] \in Handles /\ pc[shared[x]].use = "shared"
        /\ shared[x] # st[s].offerPeer
    BY <1>0, RegisteredFacts
  <2> QED
    BY <1>1, <2>1
<1>5. Losing
  BY <1>0, <1>1, <1>2, <1>3, <1>4 DEF Losing
<1>6. ASSUME OneLink PROVE LosingOne
  <2>1. \A h \in Handles : pc'[h].use \in {"offer", "answer"} => pc[h].side # s
    <3> SUFFICES ASSUME NEW h \in Handles, pc'[h].use \in {"offer", "answer"},
                        pc[h].side = s
                 PROVE  FALSE
      OBVIOUS
    <3>1. pc'[h] = pc[h]
      BY <1>1
    <3>2. shared[Pair(pc[h].side)] = None
      BY <1>0, <1>6, <3>1, OnItsWay
    <3> QED
      BY <3>2
  <2>2. ASSUME NEW t \in tasks, t.step = "init"
        PROVE  pc'[t.offer] = pc[t.offer]
    <3>1. /\ t.offer \in Handles /\ pc[t.offer].side = t.side
          /\ shared[Pair(t.side)] = None /\ Alive(t.offer)
      BY <1>0, <1>6, <2>2, InitTask
    <3>2. t.side # s
      BY <3>1
    <3>3. t.offer # st[s].offerPeer
      <4> SUFFICES ASSUME t.offer = st[s].offerPeer PROVE FALSE
        OBVIOUS
      <4>1. Alive(st[s].offerPeer)
        BY <3>1
      <4> QED
        BY <1>0, <3>1, <3>2, <4>1 DEF LinkInv, Makers
    <3> QED
      BY <1>1, <1>6, <3>1, <3>3
  <2> QED
    BY <1>2, <2>1, <2>2 DEF LosingOne
<1> QED
  BY <1>5, <1>6, LosingKeeps

LEMMA attachSharedRegistry ==
  ASSUME LinkInv, Registry, NEW s \in Joined, attachShared(s)
  PROVE  Registry'
<1> DEFINE gone == Dropped(s) \ {shared[Pair(s)]}
<1>1. /\ st[s].connected = None /\ shared[Pair(s)] # None
      /\ st' = [st EXCEPT ![s] = attached(s, shared[Pair(s)])]
      /\ pc' = Destroy(gone)
      /\ tasks' = tasks /\ UNCHANGED <<shared, stale, setting>>
  BY DEF attachShared
<1>2. \A h \in gone : h = st[s].offerPeer
  BY DEF Dropped
<1> HIDE DEF gone
<1> QED
  BY <1>1, <1>2, AttachLoses

(* An offer that is reset is not one that is being made. *)
LEMMA ResetLoses ==
  ASSUME LinkInv, Registry, NEW s \in Joined, st[s].offerPeer # None,
         st' = [st EXCEPT ![s] = resetOfferState(s)],
         pc' = Destroy({st[s].offerPeer}),
         tasks' = tasks, UNCHANGED <<shared, stale, setting>>
  PROVE  Registry'
<1>0. TypeOK /\ Single /\ s \in Sides /\ None \notin Handles /\ DOMAIN st = Sides
  BY Handled DEF LinkInv, SignalTypes, Registry, Joined, TypeOK
<1>1. /\ \A h \in Handles : h = st[s].offerPeer => pc'[h].use = "ended"
      /\ \A h \in Handles : h # st[s].offerPeer => pc'[h] = pc[h]
  BY DestroyEnds
<1>2. \A u \in Sides \ {s} : st'[u] = st[u]
  BY <1>0
<1>3. /\ st'[s].offerPeer = None /\ st'[s].init = None
      /\ st'[s].connected = st[s].connected
      /\ st'[s].answering = st[s].answering
  BY <1>0, ResetFields
<1>4. \A x \in Pairs : shared[x] # None => pc'[shared[x]] = pc[shared[x]]
  BY <1>0, <1>1, RegisteredFacts
<1>5. Losing
  BY <1>0, <1>1, <1>2, <1>3, <1>4 DEF Losing
<1>6. ASSUME OneLink PROVE LosingOne
  <2>1. st[s].init = None
    BY <1>0, <1>6 DEF Single
  <2>2. ASSUME NEW t \in tasks, t.step = "init"
        PROVE  pc'[t.offer] = pc[t.offer]
    <3>1. /\ t.offer \in Handles /\ Alive(t.offer)
      BY <1>0, <1>6, <2>2, InitTask
    <3>2. t.offer # st[s].offerPeer
      BY <1>0, <2>2, <3>1 DEF LinkInv, Makers
    <3> QED
      BY <1>1, <3>1, <3>2
  <2>3. \A h \in Handles : pc'[h].use \in {"offer", "answer"} => h # st[s].offerPeer
    BY <1>1
  <2> QED
    BY <1>0, <1>2, <1>3, <2>1, <2>2, <2>3 DEF LosingOne
<1> QED
  BY <1>5, <1>6, LosingKeeps

(* So is an answer that is given up. *)
LEMMA AnswerLoses ==
  ASSUME LinkInv, Registry, NEW s \in Joined, st[s].answering # None,
         st' = [st EXCEPT ![s].answering = None],
         pc' = Destroy({st[s].answering}),
         tasks' = tasks, UNCHANGED <<shared, stale, setting>>
  PROVE  Registry'
<1>0. TypeOK /\ Single /\ s \in Sides /\ None \notin Handles /\ DOMAIN st = Sides
      /\ st[s] \in PeerStates
  BY Handled, StateTyped DEF LinkInv, SignalTypes, Registry, Joined, TypeOK
<1>1. /\ \A h \in Handles : h = st[s].answering => pc'[h].use = "ended"
      /\ \A h \in Handles : h # st[s].answering => pc'[h] = pc[h]
  BY DestroyEnds
<1>2. \A u \in Sides :
        /\ st'[u].offerPeer = st[u].offerPeer /\ st'[u].init = st[u].init
        /\ st'[u].connected = st[u].connected
        /\ u # s => st'[u].answering = st[u].answering
  BY <1>0 DEF PeerStates
<1>3. \A x \in Pairs : shared[x] # None => pc'[shared[x]] = pc[shared[x]]
  BY <1>0, <1>1, RegisteredFacts
<1>4. Losing
  BY <1>0, <1>1, <1>2, <1>3 DEF Losing
<1>5. ASSUME OneLink PROVE LosingOne
  <2>1. ASSUME NEW t \in tasks, t.step = "init"
        PROVE  pc'[t.offer] = pc[t.offer]
    <3>1. /\ t.offer \in Handles /\ Alive(t.offer) /\ pc[t.offer].use = "offer"
      BY <1>0, <1>5, <2>1, InitTask
    <3>2. t.offer # st[s].answering
      <4> SUFFICES ASSUME t.offer = st[s].answering PROVE FALSE
        OBVIOUS
      <4>1. Alive(st[s].answering)
        BY <3>1
      <4> QED
        BY <1>0, <3>1, <4>1 DEF LinkInv, Makers
    <3> QED
      BY <1>1, <3>1, <3>2
  <2>2. \A h \in Handles : pc'[h].use \in {"offer", "answer"} => h # st[s].answering
    BY <1>1
  <2>3. ASSUME NEW h \in Handles, NEW u \in Sides,
               pc'[h].use \in {"offer", "answer"}
        PROVE  /\ st[u].offerPeer = h => st'[u].offerPeer = h
               /\ st[u].init = h => st'[u].init = h
               /\ st[u].answering = h => st'[u].answering = h
    BY <1>2, <2>2, <2>3
  <2>4. \A x \in Pairs : shared[x] # None => shared'[x] # None
    OBVIOUS
  <2> QED
    BY <2>1, <2>3, <2>4 DEF LosingOne
<1> QED
  BY <1>4, <1>5, LosingKeeps

LEMMA expireRegistry ==
  ASSUME LinkInv, Registry, NEW s \in Joined, expireOffer(s) \/ expireAnswer(s)
  PROVE  Registry'
<1>0. TypeOK /\ s \in Sides
  BY DEF LinkInv, SignalTypes, Joined
<1>1. DOMAIN st = Sides /\ st[s] \in PeerStates
  BY <1>0, StateTyped
<1>2. CASE expireAnswer(s)
  BY <1>2, AnswerLoses DEF expireAnswer, Fault, NoFault
<1>3. CASE expireOffer(s)
  <2>1. CASE /\ st' = [st EXCEPT ![s].expiry = None]
             /\ UNCHANGED <<pc, faults, setting>>
    <3>1. Mild
      BY <1>0, <1>1, <1>3, <2>1 DEF expireOffer, Mild, PeerStates
    <3> QED
      BY <3>1, MildKeeps
  <2>2. CASE /\ st[s].expiry = st[s].offerPeer
             /\ \/ NoFault
                \/ Fault("haste")
             /\ st' = [st EXCEPT ![s] = resetOfferState(s)]
             /\ pc' = Destroy(Dropped(s))
    <3>1. st[s].offerPeer # None
      BY <1>3, <2>2 DEF expireOffer
    <3>2. Dropped(s) = {st[s].offerPeer}
      BY <3>1 DEF Dropped
    <3> QED
      BY <1>3, <2>2, <3>1, <3>2, ResetLoses DEF expireOffer, Fault, NoFault
  <2> QED
    BY <1>3, <2>1, <2>2 DEF expireOffer
<1> QED
  BY <1>2, <1>3

(* A registered connection is cleared by one of its peer that ends.  Without  *)
(* errors that is the same.                                                  *)
LEMMA ClearLoses ==
  ASSUME LinkInv, Registry, NEW x \in Pairs, shared[x] # None, clearShared(x),
         NEW h \in Handles, pc[h].use = "shared", Pair(pc[h].side) = x,
         \A g \in Handles : g # h => pc'[g] = pc[g],
         \/ pc'[h].use \in {"ended", "left"}
         \/ "error" \in setting.faults /\ pc'[h] = pc[h],
         tasks' = tasks, UNCHANGED setting
  PROVE  Registry'
<1>0. TypeOK /\ Single /\ None \notin Handles /\ DOMAIN shared = Pairs
  BY Handled DEF LinkInv, SignalTypes, Registry, TypeOK
<1>1. \A g \in Handles : pc'[g] = pc[g] \/ pc'[g].use \in {"ended", "left"}
  OBVIOUS
<1>2. /\ shared' = [shared EXCEPT ![x] = None]
      /\ \A u \in Sides :
           /\ st'[u].offerPeer = st[u].offerPeer
           /\ st'[u].init = st[u].init
           /\ st'[u].answering = st[u].answering
           /\ st'[u].connected =
                IF Pair(u) = x /\ st[u].connected = shared[x]
                  THEN None ELSE st[u].connected
      /\ \A p \in Peers : stale[p] => stale'[p]
  BY <1>0, ClearFields
<1>3. /\ shared'[x] = None
      /\ \A y \in Pairs \ {x} : shared'[y] = shared[y]
  BY <1>0, <1>2
<1>4. ASSUME OneLink, "error" \notin setting.faults PROVE shared[x] = h
  BY <1>4 DEF Registry, AllRegistered, Alive
<1>5. \A y \in Pairs : shared'[y] # None => pc'[shared[y]] = pc[shared[y]]
  <2> SUFFICES ASSUME NEW y \in Pairs, shared'[y] # None
               PROVE  pc'[shared[y]] = pc[shared[y]]
    OBVIOUS
  <2>1. y # x /\ shared[y] # None
    BY <1>3
  <2>2. shared[y] \in Handles /\ Pair(pc[shared[y]].side) = y
    BY <2>1, RegisteredFacts
  <2>3. shared[y] # h
    BY <2>1, <2>2
  <2> QED
    BY <2>2, <2>3
<1>6. ASSUME NEW u \in Sides, st'[u].connected # None
      PROVE  \/ st'[u].connected = shared'[Pair(u)]
             \/ st'[u].connected = st[u].connected /\ st[u].connected # shared[Pair(u)]
  <2>1. /\ st'[u].connected = st[u].connected
        /\ ~(Pair(u) = x /\ st[u].connected = shared[x])
    BY <1>2, <1>6
  <2>2. Pair(u) \in Pairs
    BY SideFacts
  <2> QED
    BY <1>3, <2>1, <2>2
<1>7. Losing
  BY <1>1, <1>2, <1>3, <1>5, <1>6 DEF Losing
<1>8. ASSUME OneLink PROVE LosingOne
  <2>1. ASSUME NEW t \in tasks, t.step = "init"
        PROVE  pc'[t.offer] = pc[t.offer]
    <3>1. /\ t.offer \in Handles /\ pc[t.offer].use = "offer"
      BY <1>0, <1>8, <2>1, InitTask
    <3> QED
      BY <3>1
  <2>2. ASSUME "error" \notin setting.faults, NEW y \in Pairs,
               shared[y] # None, shared'[y] = None
        PROVE  pc'[shared[y]].use # "shared"
    <3>1. y = x /\ shared[x] = h
      BY <1>3, <1>4, <1>8, <2>2
    <3> QED
      BY <2>2, <3>1
  <2> QED
    BY <1>2, <2>1, <2>2 DEF LosingOne
<1> QED
  BY <1>7, <1>8, LosingKeeps

(* A connection ends that is neither a side's offer or answer, nor the        *)
(* registry's.                                                               *)
LEMMA StrayLoses ==
  ASSUME LinkInv, Registry, NEW h \in Handles, Ends(h),
         Alive(h), pc[h].remote # None,
         \A x \in Pairs : shared[x] # h,
         tasks' = tasks, UNCHANGED <<st, shared, stale, setting>>
  PROVE  Registry'
<1>0. TypeOK /\ Single /\ None \notin Handles
  BY Handled DEF LinkInv, SignalTypes, Registry
<1>1. /\ pc'[h].use \in {"ended", "left"}
      /\ \A g \in Handles : g # h => pc'[g] = pc[g]
  BY <1>0, EndsEnds
<1>2. \A x \in Pairs : shared[x] # None => pc'[shared[x]] = pc[shared[x]]
  BY <1>1, RegisteredFacts
<1>3. Losing
  BY <1>1, <1>2 DEF Losing
<1>4. ASSUME OneLink PROVE LosingOne
  <2>1. ASSUME NEW t \in tasks, t.step = "init"
        PROVE  pc'[t.offer] = pc[t.offer]
    BY <1>0, <1>1, <1>4, <2>1, InitTask
  <2> QED
    BY <2>1 DEF LosingOne
<1> QED
  BY <1>3, <1>4, LosingKeeps

LEMMA ClosingRegistry ==
  ASSUME LinkInv, Registry, NEW h \in Handles, Closing(h)
  PROVE  Registry'
<1>0. /\ TypeOK /\ Single /\ Places /\ Makers /\ None \notin Handles
      /\ Alive(h) /\ pc[h].remote # None /\ tasks' = tasks /\ UNCHANGED setting
  BY Handled DEF LinkInv, SignalTypes, Registry, Closing
<1> DEFINE s == pc[h].side
<1>1. s \in Joined /\ s \in Sides /\ Pair(s) \in Pairs
  BY <1>0, SideFacts DEF Places, Joined
<1>3. \/ /\ pc[h].use = "shared" /\ Ends(h)
         /\ shared[Pair(s)] # None /\ clearShared(Pair(s))
      \/ /\ st[s].offerPeer = h /\ pc' = Destroy({h})
         /\ st' = [st EXCEPT ![s] = resetOfferState(s)]
         /\ UNCHANGED <<shared, stale>>
      \/ /\ st[s].answering = h /\ pc' = Destroy({h})
         /\ st' = [st EXCEPT ![s].answering = None]
         /\ UNCHANGED <<shared, stale>>
      \/ /\ ~(pc[h].use = "shared" /\ shared[Pair(s)] # None) /\ Ends(h)
         /\ UNCHANGED <<st, shared, stale>>
  BY DEF Closing
<1>4. ASSUME NEW x \in Pairs, shared[x] = h
      PROVE  pc[h].use = "shared" /\ Pair(s) = x
  BY <1>0, <1>4, RegisteredFacts
<1>5. CASE /\ pc[h].use = "shared" /\ Ends(h)
           /\ shared[Pair(s)] # None /\ clearShared(Pair(s))
  <2>1. /\ pc'[h].use \in {"ended", "left"}
        /\ \A g \in Handles : g # h => pc'[g] = pc[g]
    BY <1>0, <1>5, EndsEnds
  <2> QED
    BY <1>0, <1>1, <1>5, <2>1, ClearLoses
<1> HIDE DEF s
<1>6. CASE /\ st[s].offerPeer = h /\ pc' = Destroy({h})
           /\ st' = [st EXCEPT ![s] = resetOfferState(s)]
           /\ UNCHANGED <<shared, stale>>
  BY <1>0, <1>1, <1>6, ResetLoses
<1>7. CASE /\ st[s].answering = h /\ pc' = Destroy({h})
           /\ st' = [st EXCEPT ![s].answering = None]
           /\ UNCHANGED <<shared, stale>>
  BY <1>0, <1>1, <1>7, AnswerLoses
<1>8. CASE /\ ~(pc[h].use = "shared" /\ shared[Pair(s)] # None) /\ Ends(h)
           /\ UNCHANGED <<st, shared, stale>>
  <2>1. \A x \in Pairs : shared[x] # h
    BY <1>0, <1>4, <1>8
  <2> QED
    BY <1>0, <1>8, <2>1, StrayLoses
<1> QED
  BY <1>3, <1>5, <1>6, <1>7, <1>8

LEMMA LinkRegistry ==
  ASSUME LinkInv, Registry,
         \/ \E h \in Handles :
              notice(h) \/ fail(h) \/ flicker(h) \/ peerError(h)
         \/ \E x \in Pairs : idle(x)
  PROVE  Registry'
<1>0. TypeOK /\ Places /\ None \notin Handles
  BY Handled DEF LinkInv, SignalTypes
<1>1. ASSUME NEW h \in Handles, notice(h) \/ fail(h) \/ flicker(h)
      PROVE  Registry'
  BY <1>0, <1>1, CloseSteps, ClosingRegistry
<1>2. ASSUME NEW h \in Handles, peerError(h) PROVE Registry'
  <2>1. PICK x \in Pairs : x = Pair(pc[h].side)
    BY <1>0, <1>2, SideFacts DEF peerError, Places, Joined
  <2>2. /\ shared[x] # None /\ clearShared(x) /\ "error" \in setting.faults
        /\ pc' = pc /\ tasks' = tasks /\ UNCHANGED setting
    BY <1>2, <2>1 DEF peerError, Fault, clearShared
  <2>3. /\ shared[x] \in Handles /\ pc[shared[x]].use = "shared"
        /\ Pair(pc[shared[x]].side) = x
    BY <2>2, RegisteredFacts
  <2> QED
    BY <2>2, <2>3, ClearLoses
<1>3. ASSUME NEW x \in Pairs, idle(x) PROVE Registry'
  <2>1. /\ shared[x] # None /\ clearShared(x) /\ pc' = Destroy({shared[x]})
        /\ tasks' = tasks /\ UNCHANGED setting
    BY <1>3 DEF idle
  <2>2. /\ shared[x] \in Handles /\ pc[shared[x]].use = "shared"
        /\ Pair(pc[shared[x]].side) = x
    BY <2>1, RegisteredFacts
  <2>3. /\ pc'[shared[x]].use = "ended"
        /\ \A g \in Handles : g # shared[x] => pc'[g] = pc[g]
    BY <2>1, <2>2, DestroyEnds
  <2> QED
    BY <2>1, <2>2, <2>3, ClearLoses
<1> QED
  BY <1>1, <1>2, <1>3

(* One link at a time: a side has one connection on its way. *)
LEMMA OneOnItsWay ==
  ASSUME LinkInv, Single, OneLink, NEW g \in Handles, NEW h \in Handles,
         pc[g].use \in {"offer", "answer"}, pc[h].use \in {"offer", "answer"},
         pc[g].side = pc[h].side
  PROVE  g = h
<1>0. None \notin Handles
  BY Handled
<1>1. PICK s \in Sides : s = pc[g].side /\ s = pc[h].side
  BY OnItsWay
<1>2. /\ pc[g].use = "offer" => Leads(s) /\ g \in {st[s].offerPeer, st[s].init}
      /\ pc[g].use = "answer" => ~Leads(s) /\ g = st[s].answering
  BY <1>1, OnItsWay
<1>3. /\ pc[h].use = "offer" => Leads(s) /\ h \in {st[s].offerPeer, st[s].init}
      /\ pc[h].use = "answer" => ~Leads(s) /\ h = st[s].answering
  BY <1>1, OnItsWay
<1>4. st[s].offerPeer # None => st[s].init = None
  BY DEF Single
<1> QED
  BY <1>0, <1>2, <1>3, <1>4

(* The connection that opens becomes the registered one. *)
LEMMA RegisterKeeps ==
  ASSUME LinkInv, Registry, NEW h \in Handles, NEW s \in Joined, NEW x,
         NEW gone, NEW used,
         s = pc[h].side, x = Pair(s), pc[h].remote # None,
         pc[h].use \in {"offer", "answer", "leased"},
         used.use = "shared", used.side = s,
         stale[Me(s)] \/ shared[x] = None,
         shared' = register(x, h),
         st' = [unbound(x) EXCEPT ![s] = attached(s, h)],
         pc' = [Destroy(gone) EXCEPT ![h] = used],
         gone = (Dropped(s) \union {shared[x]}) \ {h},
         tasks' = tasks, UNCHANGED <<stale, setting>>
  PROVE  Registry'
<1>0. /\ TypeOK /\ Single /\ Registered /\ AllRegistered /\ ConnectedIsShared
      /\ Makers /\ Leases /\ None \notin Handles /\ DOMAIN st = Sides
      /\ DOMAIN pc = Handles /\ DOMAIN shared = Pairs
  BY Handled DEF LinkInv, SignalTypes, Registry, TypeOK
<1>1. s \in Sides /\ x \in Pairs /\ x[1] = Me(s) /\ Me(s) \in Peers
  BY SideFacts DEF Joined
<1>2. OneLink' <=> OneLink
  BY DEF OneLink, Tracker
<1>3. OneLink => pc[h].use \in {"offer", "answer"} /\ shared[x] = None
  <2>1. Alive(h)
    BY DEF Alive
  <2>2. OneLink => pc[h].use # "leased"
    BY <1>0, <2>1 DEF Leases, OneLink
  <2> QED
    BY <1>0, <2>2, OnItsWay
<1>4. /\ pc'[h].use = "shared" /\ pc'[h].side = s
      /\ \A g \in Handles \ {h} : g \notin gone => pc'[g] = pc[g]
      /\ \A g \in Handles \ {h} : pc'[g].use # "ended" => pc'[g] = pc[g]
  BY <1>0 DEF Destroy, Ended
<1>5. /\ \A y \in Pairs \ {x} : shared'[y] = shared[y]
      /\ shared'[x] \in {None, h}
      /\ shared[x] = None => shared'[x] = h
  BY <1>0, <1>1 DEF register
<1>6. \A u \in Sides \ {s} :
        /\ st'[u].offerPeer = st[u].offerPeer /\ st'[u].init = st[u].init
        /\ st'[u].answering = st[u].answering
        /\ st'[u].connected = IF Pair(u) = x /\ st[u].connected = shared[x]
                                THEN None ELSE st[u].connected
  <2>1. \A u \in Sides \ {s} :
          st'[u] = IF Pair(u) = x /\ st[u].connected = shared[x]
                     THEN exited(u) ELSE st[u]
    BY <1>1 DEF unbound
  <2> QED
    BY <1>0, <2>1, ResetFields
<1>7. /\ st'[s].offerPeer = None /\ st'[s].init = None
      /\ st'[s].connected = h
  <2>1. st'[s] = attached(s, h)
    BY <1>1 DEF unbound
  <2> QED
    BY <1>0, <1>1, <2>1, ResetFields
<1>8. ASSUME NEW y \in Pairs \ {x}, shared[y] # None
      PROVE  shared[y] \in Handles /\ pc'[shared[y]] = pc[shared[y]]
  <2>1. /\ shared[y] \in Handles /\ pc[shared[y]].use = "shared"
        /\ Pair(pc[shared[y]].side) = y /\ shared[y] # st[s].offerPeer
    BY <1>1, <1>8, RegisteredFacts
  <2>2. shared[x] # None => Pair(pc[shared[x]].side) = x
    BY <1>1, RegisteredFacts
  <2>3. shared[y] \notin gone /\ shared[y] # h
    BY <1>8, <2>1, <2>2 DEF Dropped
  <2> QED
    BY <1>4, <2>1, <2>3
<1>9. Registered'
  <2> SUFFICES ASSUME NEW y \in Pairs, shared'[y] # None
               PROVE  /\ shared'[y] \in Handles /\ pc'[shared'[y]].use = "shared"
                      /\ Pair(pc'[shared'[y]].side) = y
    BY DEF Registered, Alive, Pair
  <2>1. CASE y = x
    BY <1>4, <1>5, <2>1
  <2>2. CASE y # x
    <3>1. shared'[y] = shared[y] /\ shared[y] # None
      BY <1>5, <2>2
    <3>2. /\ shared[y] \in Handles /\ pc'[shared[y]] = pc[shared[y]]
      BY <1>8, <2>2, <3>1
    <3>3. pc[shared[y]].use = "shared" /\ Pair(pc[shared[y]].side) = y
      BY <3>1, RegisteredFacts
    <3> QED
      BY <3>1, <3>2, <3>3
  <2> QED
    BY <2>1, <2>2
<1>10. AllRegistered'
  <2> SUFFICES ASSUME OneLink, "error" \notin setting.faults,
                      NEW g \in Handles, pc'[g].use = "shared"
               PROVE  shared'[Pair(pc'[g].side)] = g
    BY <1>2 DEF AllRegistered, Alive, Pair
  <2>1. CASE g = h
    BY <1>3, <1>4, <1>5, <2>1
  <2>2. CASE g # h
    <3>1. pc'[g] = pc[g] /\ Alive(g)
      BY <1>4, <2>2 DEF Alive
    <3>2. shared[Pair(pc[g].side)] = g /\ Pair(pc[g].side) \in Pairs
      BY <1>0, <3>1, SideFacts
      DEF AllRegistered, LinkInv, SignalTypes, Places, Joined
    <3>3. Pair(pc[g].side) # x
      BY <1>0, <1>3, <3>2
    <3> QED
      BY <1>5, <3>1, <3>2, <3>3
  <2> QED
    BY <2>1, <2>2
<1>11. ConnectedIsShared'
  <2> SUFFICES ASSUME NEW u \in Sides, st'[u].connected # None,
                      stale[Me(u)] => OneLink
               PROVE  /\ st'[u].connected = shared'[Pair(u)]
                      /\ shared'[Pair(u)] \in Handles
                      /\ pc'[shared'[Pair(u)]].use # "ended"
    BY <1>2 DEF ConnectedIsShared, Alive, Me, Pair
  <2>1. CASE u = s
    <3>1. shared[x] = None
      BY <1>3, <2>1
    <3> QED
      BY <1>4, <1>5, <1>7, <2>1, <3>1
  <2>2. CASE u # s
    <3>1. /\ st'[u].connected = st[u].connected
          /\ ~(Pair(u) = x /\ st[u].connected = shared[x])
      BY <1>6, <2>2
    <3>2. st[u].connected = shared[Pair(u)] /\ Pair(u) \in Pairs
      BY <1>0, <3>1, SideFacts DEF ConnectedIsShared
    <3>3. Pair(u) \in Pairs \ {x} /\ shared[Pair(u)] # None
      BY <3>1, <3>2
    <3>4. shared'[Pair(u)] = shared[Pair(u)]
      BY <1>5, <3>3
    <3>5. Alive(shared[Pair(u)])
      BY <3>3, RegisteredFacts
    <3> QED
      BY <1>8, <3>1, <3>2, <3>3, <3>4, <3>5 DEF Alive
  <2> QED
    BY <2>1, <2>2
<1>12. ASSUME OneLink, NEW g \in Handles \ {h}, pc[g].use \in {"offer", "answer"}
       PROVE  /\ pc[g].side \in Sides \ {s}
              /\ Pair(pc[g].side) \in Pairs \ {x}
  <2>1. pc[g].side \in Joined /\ pc[g].side \in Sides /\ Pair(pc[g].side) \in Pairs
    BY <1>0, <1>12, OnItsWay
  <2>2. pc[g].side # s
    BY <1>0, <1>3, <1>12, OneOnItsWay
  <2>3. setting \in Settings /\ Cardinality(setting.rooms) = 1
    BY <1>0, <1>12 DEF TypeOK, OneLink
  <2> QED
    BY <2>1, <2>2, <2>3, OneSide
<1>13. ASSUME OneLink, NEW g \in Handles, pc'[g].use \in {"offer", "answer"}
       PROVE  /\ shared'[Pair(pc'[g].side)] = None
              /\ st'[pc'[g].side].connected = None
              /\ pc'[g].use = "offer" =>
                   /\ Leads(pc'[g].side)
                   /\ g \in {st'[pc'[g].side].offerPeer, st'[pc'[g].side].init}
              /\ pc'[g].use = "answer" =>
                   /\ ~Leads(pc'[g].side) /\ g = st'[pc'[g].side].answering
  <2>1. g # h /\ pc'[g] = pc[g]
    BY <1>4, <1>13
  <2>2. PICK u \in Sides \ {s} : u = pc[g].side /\ Pair(u) # x
    BY <1>12, <1>13, <2>1
  <2>3. /\ shared[Pair(u)] = None /\ st[u].connected = None
        /\ Pair(u) \in Pairs
        /\ pc[g].use = "offer" => Leads(u) /\ g \in {st[u].offerPeer, st[u].init}
        /\ pc[g].use = "answer" => ~Leads(u) /\ g = st[u].answering
    BY <1>0, <1>13, <2>1, <2>2, OnItsWay
  <2>4. shared'[Pair(u)] = None
    BY <1>5, <2>2, <2>3
  <2>5. /\ st'[u].connected = None /\ st'[u].offerPeer = st[u].offerPeer
        /\ st'[u].init = st[u].init /\ st'[u].answering = st[u].answering
    BY <1>6, <2>3
  <2> QED
    BY <2>1, <2>2, <2>3, <2>4, <2>5
<1>14. ASSUME OneLink, NEW t \in tasks', t.step = "init"
       PROVE  /\ t.offer \in Handles /\ pc'[t.offer].use # "ended"
              /\ st'[t.side].init = t.offer /\ st'[t.side].offerPeer = None
  <2>1. t \in tasks
    BY <1>14
  <2>2. /\ t.offer \in Handles /\ Alive(t.offer)
        /\ pc[t.offer].use = "offer" /\ pc[t.offer].side = t.side
        /\ pc[t.offer].remote = None
        /\ st[t.side].init = t.offer /\ st[t.side].offerPeer = None
    BY <1>0, <1>14, <2>1, InitTask
  <2>3. t.offer # h
    BY <2>2
  <2>4. t.side \in Sides \ {s}
    BY <1>12, <1>14, <2>2, <2>3
  <2>5. t.offer \notin gone
    BY <1>0, <1>1, <1>3, <1>14, <2>1, <2>2 DEF Makers, Dropped
  <2> QED
    BY <1>4, <1>6, <2>2, <2>3, <2>4, <2>5
<1>15. OneLink => \A u \in Sides : st'[u].offerPeer # None => st'[u].init = None
  BY <1>0, <1>6, <1>7 DEF Single
<1>16. Single'
  BY <1>2, <1>13, <1>14, <1>15, SingleFrom
<1> QED
  BY <1>9, <1>10, <1>11, <1>16 DEF Registry

LEMMA connectPeerRegistry ==
  ASSUME LinkInv, Registry, NEW h \in Handles, connectPeer(h)
  PROVE  Registry'
<1>0. /\ TypeOK /\ Single /\ Places /\ Leases /\ None \notin Handles
      /\ DOMAIN pc = Handles
  BY Handled DEF LinkInv, SignalTypes, Registry, TypeOK
<1> DEFINE s == pc[h].side
           x == Pair(s)
           known == IF stale[Me(s)] THEN None ELSE shared[x]
           used == [pc[h] EXCEPT !.use = "shared", !.open = TRUE]
           gone == (Dropped(s) \union {shared[x]}) \ {h}
<1>1. /\ Linked(h) /\ pc[h].use \in {"offer", "answer", "leased"}
      /\ tasks' = tasks /\ setting' = setting
      /\ \/ /\ pc' = [pc EXCEPT ![h].open = TRUE]
            /\ UNCHANGED <<st, shared, stale>>
         \/ /\ pc' = Destroy({h})
            /\ UNCHANGED <<st, shared, stale>>
         \/ /\ st[s].connected = None /\ shared[x] # None
            /\ st' = [st EXCEPT ![s] = attached(s, shared[x])]
            /\ pc' = Destroy(Dropped(s) \union {h})
            /\ UNCHANGED <<shared, stale>>
         \/ /\ stale[Me(s)] \/ shared[x] = None
            /\ shared' = register(x, h)
            /\ st' = [unbound(x) EXCEPT ![s] = attached(s, h)]
            /\ pc' = [Destroy(gone) EXCEPT ![h] = used]
            /\ UNCHANGED stale
  <2>1. /\ Linked(h) /\ pc[h].use \in {"offer", "answer", "leased"}
        /\ tasks' = tasks /\ setting' = setting
        /\ \/ /\ \/ pc' = [pc EXCEPT ![h].open = TRUE]
                 \/ pc' = Destroy({h})
              /\ UNCHANGED <<st, shared, stale>>
           \/ /\ st[s].connected = None /\ known # None
              /\ st' = [st EXCEPT ![s] = attached(s, known)]
              /\ pc' = Destroy(Dropped(s) \union {h})
              /\ UNCHANGED <<shared, stale>>
           \/ /\ known = None
              /\ shared' = register(x, h)
              /\ st' = [unbound(x) EXCEPT ![s] = attached(s, h)]
              /\ pc' = [Destroy(gone) EXCEPT ![h] = used]
              /\ UNCHANGED stale
    BY DEF connectPeer
  <2>2. /\ known # None => known = shared[x]
        /\ known = None => stale[Me(s)] \/ shared[x] = None
    OBVIOUS
  <2> HIDE DEF s, x, known, used, gone
  <2> QED
    BY <2>1, <2>2
<1>2. Alive(h) /\ pc[h].remote # None /\ pc[h] \in Connections
  BY <1>0, <1>1 DEF Linked, Alive, TypeOK
<1>3. s \in Joined /\ s \in Sides /\ x \in Pairs
  BY <1>0, <1>2, SideFacts DEF Places, Joined
<1>4. used.use = "shared" /\ used.side = s
  BY <1>2 DEF Connections
<1>5. gone = (Dropped(s) \union {shared[x]}) \ {h} /\ s = pc[h].side /\ x = Pair(s)
  OBVIOUS
<1> HIDE DEF s, x, known, used, gone
<1>6. CASE /\ pc' = [pc EXCEPT ![h].open = TRUE]
           /\ UNCHANGED <<st, shared, stale>>
  <2>1. \A g \in Handles : pc'[g].use = pc[g].use /\ pc'[g].side = pc[g].side
    BY <1>0, <1>2, <1>6 DEF Connections
  <2>2. Mild
    BY <1>1, <1>6, <2>1 DEF Mild
  <2> QED
    BY <2>2, MildKeeps
<1>7. CASE pc' = Destroy({h}) /\ UNCHANGED <<st, shared, stale>>
  <2>1. \A y \in Pairs : shared[y] # h
    BY <1>0, <1>1, RegisteredFacts
  <2> QED
    BY <1>1, <1>2, <1>7, <2>1, StrayLoses DEF Ends
<1>8. CASE /\ st[s].connected = None /\ shared[x] # None
           /\ st' = [st EXCEPT ![s] = attached(s, shared[x])]
           /\ pc' = Destroy(Dropped(s) \union {h})
           /\ UNCHANGED <<shared, stale>>
  <2>1. ~OneLink
    <3>1. pc[h].use = "leased" => ~OneLink
      BY <1>0, <1>2 DEF Leases, OneLink
    <3> QED
      BY <1>0, <1>1, <1>5, <1>8, <3>1, OnItsWay
  <2>2. \A g \in Dropped(s) \union {h} :
          g = st[s].offerPeer \/ (~OneLink /\ pc[g].use # "shared")
    BY <1>1, <2>1 DEF Dropped
  <2>3. /\ st[s].connected = None /\ shared[Pair(s)] # None
        /\ st' = [st EXCEPT ![s] = attached(s, shared[Pair(s)])]
        /\ tasks' = tasks /\ UNCHANGED <<shared, stale, setting>>
    BY <1>1, <1>5, <1>8
  <2> DEFINE ended == Dropped(s) \union {h}
  <2>4. /\ pc' = Destroy(ended)
        /\ \A g \in ended :
             g = st[s].offerPeer \/ (~OneLink /\ pc[g].use # "shared")
    BY <1>8, <2>2
  <2> HIDE DEF ended
  <2> QED
    BY <1>3, <2>3, <2>4, AttachLoses
<1>9. CASE /\ stale[Me(s)] \/ shared[x] = None
           /\ shared' = register(x, h)
           /\ st' = [unbound(x) EXCEPT ![s] = attached(s, h)]
           /\ pc' = [Destroy(gone) EXCEPT ![h] = used]
           /\ UNCHANGED stale
  BY <1>1, <1>2, <1>3, <1>4, <1>5, <1>9, RegisterKeeps
<1> QED
  BY <1>1, <1>6, <1>7, <1>8, <1>9

-----------------------------------------------------------------------------
LEMMA RegistryInit ==
  ASSUME Init
  PROVE  Registry
<1>1. /\ \A h : ~Alive(h)
      /\ \A x \in Pairs : shared[x] = None
      /\ \A s \in Sides : st[s].connected = None /\ st[s].offerPeer = None
      /\ tasks = {}
  BY DEF Init, Alive, Ended, Idle
<1> QED
  BY <1>1
  DEF Registry, Single, Registered, AllRegistered, ConnectedIsShared

LEMMA RegistryStep ==
  ASSUME RegistryInv, [Next]_vars
  PROVE  RegistryInv'
<1>0. LinkInv /\ Leaders /\ Registry
  BY DEF RegistryInv
<1>1. LinkInv' /\ Leaders'
  BY <1>0, LinkStep
<1>2. CASE UNCHANGED vars
  <2>1. Mild
    BY <1>2 DEF Mild, vars
  <2> QED
    BY <1>0, <1>1, <2>1, MildKeeps DEF RegistryInv
<1>3. ASSUME NEW s \in Joined,
             \/ clearConnectedPeer(s) \/ activate(s) \/ exitPeer(s)
             \/ sendOffer(s) \/ publishAnswer(s) \/ handleAnswer(s)
             \/ \E y \in setting.relays : prunePendingOffer(s, y)
      PROVE  Registry'
  BY <1>0, <1>3, MildOwn, MildKeeps
<1>4. ASSUME NEW s \in Joined, applyOffer(s) \/ applyAnswer(s)
      PROVE  Registry'
  BY <1>0, <1>4, MildApply, MildKeeps
<1>5. ASSUME NEW s \in Joined, NEW y \in setting.relays, handleAnnouncement(s, y)
      PROVE  Registry'
  BY <1>0, <1>5, handleAnnouncementRegistry
<1>6. ASSUME NEW s \in Joined,
             announceOffers(s) \/ handleOffer(s) \/ ensureOffer(s)
      PROVE  Registry'
  BY <1>0, <1>6, announceOffersRegistry, handleOfferRegistry,
     ensureOfferRegistry
<1>7. ASSUME NEW s \in Joined,
             attachShared(s) \/ expireOffer(s) \/ expireAnswer(s)
      PROVE  Registry'
  BY <1>0, <1>7, attachSharedRegistry, expireRegistry
<1>8. ASSUME NEW h \in Handles, connectPeer(h) PROVE Registry'
  BY <1>0, <1>8, connectPeerRegistry
<1>9. ASSUME \/ \E h \in Handles :
              notice(h) \/ fail(h) \/ flicker(h) \/ peerError(h)
             \/ \E x \in Pairs : idle(x)
      PROVE  Registry'
  BY <1>0, <1>9, LinkRegistry
<1>10. ASSUME NEW m \in net, lose(m) PROVE Registry'
  BY <1>0, <1>10, MildLose, MildKeeps
<1> QED
  BY <1>1, <1>2, <1>3, <1>4, <1>5, <1>6, <1>7, <1>8, <1>9, <1>10
  DEF Next, RegistryInv

(* A connection that lives is on its way, and known to its side, or shared,  *)
(* unless it has left the registry.                                          *)
LEMMA NothingLeaks ==
  ASSUME RegistryInv
  PROVE  KnownUntilClosed
<1>0. LinkInv /\ Single /\ AllRegistered /\ Leases /\ TypeOK /\ Places
  BY DEF RegistryInv, Registry, LinkInv, SignalTypes
<1>1. ASSUME NEW h \in Handles, Alive(h), pc[h].use # "left", OneLink,
             "error" \notin setting.faults
      PROVE  \/ \E s \in Sides :
                  h \in {st[s].offerPeer, st[s].init, st[s].answering}
             \/ \E x \in Pairs : h = shared[x]
  <2>1. pc[h].use \in {"offer", "answer", "leased", "shared"}
    BY <1>0, <1>1, ConnectionTyped DEF Alive, Uses
  <2>2. pc[h].use # "leased"
    BY <1>0, <1>1 DEF Leases, OneLink
  <2>3. CASE pc[h].use \in {"offer", "answer"}
    BY <1>0, <1>1, <2>3, OnItsWay
  <2>4. CASE pc[h].use = "shared"
    <3>1. Pair(pc[h].side) \in Pairs
      BY <1>0, <1>1, SideFacts DEF Places, Joined
    <3> QED
      BY <1>0, <1>1, <2>4, <3>1 DEF AllRegistered
  <2> QED
    BY <2>1, <2>2, <2>3, <2>4
<1> QED
  BY <1>1 DEF KnownUntilClosed

(* A step without a fault leaves a connection that works where it is.        *)
LEMMA WorkingStep ==
  ASSUME LinkInv, [Next]_vars, NEW x \in Pairs, NEW s \in Joined,
         Linked(shared[x]), Pair(s) = x, st[s].connected = shared[x],
         ~LeftBehind(x), Cardinality(setting.rooms) = 1, faults' = faults
  PROVE  shared'[x] = shared[x]
<1>0. TypeOK /\ Places /\ None \notin Handles /\ DOMAIN shared = Pairs
  BY Handled DEF LinkInv, SignalTypes, TypeOK
<1>1. /\ shared[x] # None /\ s \in Sides /\ setting \in Settings
      /\ faults \in Int
  <2>1. setting.often \in Nat /\ faults \in 0 .. setting.often
    BY <1>0, SettingTyped DEF TypeOK
  <2> QED
    BY <1>0, <2>1 DEF Linked, Alive, Joined, TypeOK
<1>2. \A k : ~Fault(k)
  BY <1>1 DEF Fault
<1>3. ASSUME NEW h \in Handles, connectPeer(h) PROVE shared'[x] = shared[x]
  <2>1. \/ shared' = shared
        \/ /\ st[pc[h].side].connected = None
           /\ shared' = register(Pair(pc[h].side), h)
    BY <1>3 DEF connectPeer
  <2>2. Alive(h)
    BY <1>3 DEF connectPeer, Linked
  <2>3. pc[h].side \in Joined
    BY <1>0, <2>2 DEF Places
  <2>4. Pair(pc[h].side) = x => pc[h].side = s
    BY <1>1, <2>3, OneSide
  <2>5. CASE /\ st[pc[h].side].connected = None
             /\ shared' = register(Pair(pc[h].side), h)
    <3>1. Pair(pc[h].side) # x
      BY <1>1, <2>4, <2>5
    <3> QED
      BY <1>0, <2>5, <3>1 DEF register
  <2> QED
    BY <2>1, <2>5
<1>4. ASSUME NEW h \in Handles, notice(h) PROVE shared'[x] = shared[x]
  <2>1. ~Linked(h)
    BY <1>4 DEF notice, Linked
  <2>2. \/ shared' = shared
        \/ /\ pc[h].use = "shared" /\ Alive(h)
           /\ shared' = [shared EXCEPT ![Pair(pc[h].side)] = None]
    BY <1>4 DEF notice, emitClose, clearShared
  <2>3. CASE pc[h].use = "shared" /\ Alive(h) /\ Pair(pc[h].side) = x
    BY <2>1, <2>3 DEF LeftBehind
  <2> QED
    BY <1>0, <2>2, <2>3
<1>5. ASSUME NEW h \in Handles, fail(h) \/ flicker(h) \/ peerError(h)
      PROVE  shared'[x] = shared[x]
  BY <1>2, <1>5 DEF fail, flicker, peerError
<1>6. ASSUME NEW y \in Pairs, idle(y) PROVE shared'[x] = shared[x]
  <2>1. y # x /\ shared' = [shared EXCEPT ![y] = None]
    BY <1>1, <1>6 DEF idle, clearShared
  <2> QED
    BY <1>0, <2>1
<1>7. CASE UNCHANGED vars
  BY <1>7 DEF vars
<1>8. ASSUME NEW m \in net, lose(m) PROVE shared'[x] = shared[x]
  BY <1>8 DEF lose
<1>9. ASSUME NEW u \in Joined,
             \/ attachShared(u) \/ ensureOffer(u) \/ sendOffer(u)
             \/ announceOffers(u) \/ clearConnectedPeer(u)
             \/ handleOffer(u) \/ applyOffer(u) \/ publishAnswer(u)
             \/ handleAnswer(u) \/ applyAnswer(u)
             \/ expireOffer(u) \/ expireAnswer(u) \/ activate(u) \/ exitPeer(u)
             \/ \E y \in setting.relays :
                  handleAnnouncement(u, y) \/ prunePendingOffer(u, y)
      PROVE  shared'[x] = shared[x]
  BY <1>9 DEF attachShared, ensureOffer, sendOffer, announceOffers,
     clearConnectedPeer, handleOffer, applyOffer, publishAnswer, handleAnswer,
     applyAnswer, expireOffer, expireAnswer, activate, exitPeer,
     handleAnnouncement, prunePendingOffer
<1> QED
  BY <1>3, <1>4, <1>5, <1>6, <1>7, <1>8, <1>9 DEF Next

-----------------------------------------------------------------------------
(* The variables keep their types, and a side is active only when it is      *)
(* connected: TypeOK of signalling, for the PeerStates and the registry of   *)
(* every setting.                                                            *)
THEOREM TypeCorrect == Spec => []TypeOK
<1>1. Init => LinkInv /\ Leaders
  BY LinkInit
<1>2. LinkInv /\ Leaders /\ [Next]_vars => (LinkInv /\ Leaders)'
  BY LinkStep
<1>3. LinkInv => TypeOK
  BY DEF LinkInv, SignalTypes
<1> QED
  BY <1>1, <1>2, <1>3, PTL DEF Spec

(* handleAnswer applies an answer to the offer it was made for, whatever     *)
(* offers were made, recycled and answered meanwhile, and however late or    *)
(* how often the relays deliver it.                                          *)
THEOREM AnswerFitsOfferHolds == Spec => []AnswerFitsOffer
<1>1. Init => LinkInv /\ Leaders
  BY LinkInit
<1>2. LinkInv /\ Leaders /\ [Next]_vars => (LinkInv /\ Leaders)'
  BY LinkStep
<1>3. LinkInv => AnswerFitsOffer
  BY DEF LinkInv
<1> QED
  BY <1>1, <1>2, <1>3, PTL DEF Spec

(* What the registry and the rooms know of connections is kept.              *)
LEMMA RegistryInvariant == Spec => []RegistryInv
<1>1. Init => RegistryInv
  BY LinkInit, RegistryInit DEF RegistryInv
<1>2. RegistryInv /\ [Next]_vars => RegistryInv'
  BY RegistryStep
<1> QED
  BY <1>1, <1>2, PTL DEF Spec

(* A room's connection is the one that SharedPeerManager has, and it lives,  *)
(* for as long as the map of the app is the one in use, or there is one link *)
(* at a time.                                                                *)
THEOREM ConnectedIsSharedHolds == Spec => []ConnectedIsShared
<1>1. RegistryInv => ConnectedIsShared
  BY DEF RegistryInv, Registry
<1> QED
  BY <1>1, RegistryInvariant, PTL

(* With one link at a time, every connection that has not said it closes is  *)
(* one that a side, the registry, the offers of the tracker or a handler     *)
(* still knows, and can destroy; one that has said so is forgotten as it is. *)
THEOREM KnownUntilClosedHolds == Spec => []KnownUntilClosed
<1>1. RegistryInv => KnownUntilClosed
  BY NothingLeaks
<1> QED
  BY <1>1, RegistryInvariant, PTL

(* What WorkingKept says of a step.                                          *)
StaysWorking ==
  \A x \in Pairs :
    (/\ Linked(shared[x]) /\ pc[shared[x]].remote = shared[<<x[2], x[1]>>]
     /\ \E s \in Joined : Pair(s) = x /\ st[s].connected = shared[x]
     /\ ~LeftBehind(x)
     /\ Cardinality(setting.rooms) = 1
     /\ faults' = faults) => shared'[x] = shared[x]

(* connectPeer and the idle timer do not take a connection from a room that  *)
(* uses it while both ends work, nor does the close handler of another       *)
(* connection, unless that is an earlier one that the registry dropped       *)
(* without closing it.                                                       *)
THEOREM WorkingKeptHolds == Spec => WorkingKept
<1>1. Init => LinkInv /\ Leaders
  BY LinkInit
<1>2. LinkInv /\ Leaders /\ [Next]_vars => (LinkInv /\ Leaders)'
  BY LinkStep
<1>3. LinkInv /\ [Next]_vars => [StaysWorking]_vars
  BY WorkingStep DEF StaysWorking
<1>4. Spec => [][StaysWorking]_vars
  BY <1>1, <1>2, <1>3, PTL DEF Spec
<1> QED
  BY <1>4 DEF WorkingKept, StaysWorking
=============================================================================
