------------------------ MODULE StrategyRoomsProofs ------------------------
(***************************************************************************)
(* Proofs about StrategyRooms, for every choice of settings and bounds:    *)
(* the types of its variables, that a room that is awake announces itself  *)
(* and, if it is passive, has a reason to be awake, and that presence is   *)
(* told.                                                                   *)
(***************************************************************************)
EXTENDS StrategyRooms, SequenceTheorems, TLAPS

Told == {Here, Gone, Leave}
Loops == [inflight : Nat, slot : BOOLEAN, orphans : Nat]

(* The variables are tables over the peers. *)
Tables ==
  /\ setting \in Settings
  /\ room \in [Peers -> {"out", "in", "leaving"}]
  /\ token \in [Peers -> BOOLEAN]
  /\ awake \in [Peers -> BOOLEAN]
  /\ subscribed \in [Peers -> BOOLEAN]
  /\ grace \in [Peers -> BOOLEAN]
  /\ exited \in [Peers -> BOOLEAN]
  /\ loops \in [Peers -> Loops]
  /\ signaling \in [Peers -> BOOLEAN]
  /\ net \in {"none", "up", "down"}
  /\ registered \in [Peers -> BOOLEAN]
  /\ bound \in [Peers -> BOOLEAN]
  /\ remote \in [Peers -> BOOLEAN]
  /\ kept \in [Peers -> BOOLEAN]
  /\ wire \in [Peers -> Seq(Told)]

(* What is true of the room of one peer, whatever the other does: one that  *)
(* was left keeps nothing, and what takes away the last reason of a passive *)
(* room to be awake puts it to sleep. *)
Orderly(p) ==
  /\ room[p] = "out" => /\ ~awake[p] /\ ~token[p] /\ ~subscribed[p]
                        /\ ~grace[p] /\ ~signaling[p] /\ ~bound[p]
  /\ bound[p] => registered[p]
  /\ grace[p] => awake[p]
  /\ Running(p) <= MaxLoops
  /\ awake[p] /\ (subscribed[p] \/ Passive(p)) => Running(p) > 0
  /\ Passive(p) /\ awake[p] => grace[p] \/ signaling[p] \/ bound[p] \/ exited[p]

RoomInv == Tables /\ \A p \in Peers : Orderly(p)

(* Of two peers, each has the other. *)
LEMMA TwoPeers ==
  ASSUME NEW p \in Peers
  PROVE  /\ Other(p) \in Peers /\ Other(p) # p /\ Other(Other(p)) = p
         /\ \A q \in Peers : q = p \/ q = Other(p)
<1>1. PICK a \in Peers, b \in Peers : a # b /\ Peers = {a, b}
  BY PeersAssumption
<1>2. \A c \in Peers : \E d \in Peers : d # c
  BY <1>1
<1>3. \A c \in Peers : Other(c) \in Peers /\ Other(c) # c
  BY <1>2 DEF Other
<1> QED
  BY <1>1, <1>3

(* Frames that are sent are frames of the other peer's wire. *)
LEMMA SentType ==
  ASSUME wire \in [Peers -> Seq(Told)], NEW p \in Peers, NEW s \in Seq(Told)
  PROVE  Sent(p, s) \in [Peers -> Seq(Told)]
<1>1. Other(p) \in Peers
  BY TwoPeers
<1>2. wire[Other(p)] \o s \in Seq(Told)
  BY <1>1, ConcatProperties
<1> QED
  BY <1>1, <1>2 DEF Sent

(* The frames of a step: one or none. *)
LEMMA FramesType ==
  /\ \A c : If(c, <<Here>>) \in Seq(Told)
  /\ \A c : If(c, <<Gone>>) \in Seq(Told)
  /\ \A c : If(c, <<Leave>>) \in Seq(Told)
  /\ <<>> \in Seq(Told) /\ Here \in Told /\ Gone \in Told /\ Leave \in Told
<1>1. Here \in Told /\ Gone \in Told /\ Leave \in Told
  BY DEF Told
<1> QED
  BY <1>1 DEF If

(* The loops of one peer that run, of those that are set: a timer, the *)
(* orphans, and what the relay has not confirmed. *)
Load(l) == l.inflight + l.orphans + (IF l.slot THEN 1 ELSE 0)

(* How the actions change the loops of a peer. *)
LEMMA LoopChanges ==
  ASSUME NEW l \in Loops
  PROVE  /\ Load(l) \in Nat
         /\ l.inflight + l.orphans \in Nat /\ l.inflight + l.orphans <= Load(l)
         /\ Load(l) <= l.inflight + l.orphans + 1
         /\ ~l.slot => Load(l) = l.inflight + l.orphans
  BY DEF Loops, Load

(* A timer that is ended. *)
LEMMA SlotEnded ==
  ASSUME NEW l \in Loops
  PROVE  \E g \in Loops :
           /\ g = [l EXCEPT !.slot = FALSE]
           /\ Load(g) = l.inflight + l.orphans
           /\ Load(g) <= Load(l)
<1> DEFINE g == [l EXCEPT !.slot = FALSE]
<1>1. /\ g \in Loops /\ g.slot = FALSE
      /\ g.inflight = l.inflight /\ g.orphans = l.orphans
  BY DEF Loops
<1>2. g = [l EXCEPT !.slot = FALSE]
  OBVIOUS
<1> HIDE DEF g
<1>3. Load(g) = l.inflight + l.orphans
  BY <1>1, LoopChanges
<1> QED
  BY <1>1, <1>2, <1>3, LoopChanges

(* An announcement that is queued. *)
LEMMA OneQueued ==
  ASSUME NEW l \in Loops
  PROVE  \E g \in Loops :
           /\ g = [l EXCEPT !.inflight = l.inflight + 1]
           /\ Load(g) = Load(l) + 1
<1> DEFINE g == [l EXCEPT !.inflight = l.inflight + 1]
<1>1. /\ g \in Loops /\ g.slot = l.slot
      /\ g.inflight = l.inflight + 1 /\ g.orphans = l.orphans
  BY DEF Loops
<1>2. g = [l EXCEPT !.inflight = l.inflight + 1]
  OBVIOUS
<1> HIDE DEF g
<1>3. Load(g) = Load(l) + 1
  BY <1>1 DEF Load, Loops
<1> QED
  BY <1>1, <1>2, <1>3

(* The loops of a room that is woken. *)
LEMMA OneWoken ==
  ASSUME NEW l \in Loops
  PROVE  \E g \in Loops :
           /\ g = [l EXCEPT !.slot = FALSE, !.inflight = l.inflight + 1]
           /\ Load(g) > 0 /\ Load(g) <= Load(l) + 1
<1> DEFINE g == [l EXCEPT !.slot = FALSE, !.inflight = l.inflight + 1]
<1> DEFINE h == [l EXCEPT !.slot = FALSE]
<1>1. /\ g \in Loops /\ g.slot = FALSE
      /\ g.inflight = l.inflight + 1 /\ g.orphans = l.orphans
  <2>1. /\ h \in Loops /\ h.slot = FALSE
        /\ h.inflight = l.inflight /\ h.orphans = l.orphans
    BY DEF Loops
  <2>2. g = [h EXCEPT !.inflight = l.inflight + 1]
    OBVIOUS
  <2> HIDE DEF g, h
  <2> QED
    BY <2>1, <2>2 DEF Loops
<1>2. g = [l EXCEPT !.slot = FALSE, !.inflight = l.inflight + 1]
  OBVIOUS
<1> HIDE DEF g
<1>3. Load(g) = l.inflight + 1 + l.orphans /\ Load(g) \in Nat
  BY <1>1 DEF Load, Loops
<1>4. l.inflight + l.orphans <= Load(l) /\ l.inflight \in Nat /\ l.orphans \in Nat
      /\ Load(l) \in Nat
  BY LoopChanges DEF Loops
<1> QED
  BY <1>1, <1>2, <1>3, <1>4

(* What a change of the loops of one peer leaves as it is. *)
LEMMA LoopsOfOne ==
  ASSUME loops \in [Peers -> Loops], NEW p \in Peers, NEW g \in Loops,
         loops' = [loops EXCEPT ![p] = g]
  PROVE  /\ loops' \in [Peers -> Loops]
         /\ Running(p)' = Load(g) /\ Load(g) \in Nat
         /\ \A q \in Peers : q # p => Running(q)' = Running(q)
<1>1. Load(g) \in Nat
  BY LoopChanges
<1> QED
  BY <1>1 DEF Running, Load

(* A step that starts no loop, and keeps those of a room that stays awake. *)
QuietLoops(p, g) ==
  /\ loops' = [loops EXCEPT ![p] = g]
  /\ Load(g) <= Running(p)
  /\ awake'[p] => awake[p] /\ Load(g) = Running(p)

(* Going to sleep is such a step. *)
LEMMA QuietStep ==
  ASSUME NEW p \in Peers, loops \in [Peers -> Loops], awake \in [Peers -> BOOLEAN],
         \/ UNCHANGED <<awake, loops>>
         \/ /\ awake' = [awake EXCEPT ![p] = FALSE]
            /\ loops' = [loops EXCEPT ![p].slot = FALSE]
  PROVE  \E g \in Loops : QuietLoops(p, g)
<1>1. loops[p] \in Loops /\ Running(p) = Load(loops[p]) /\ Load(loops[p]) \in Nat
  BY LoopChanges DEF Running, Load
<1>2. CASE UNCHANGED <<awake, loops>>
  <2>1. QuietLoops(p, loops[p])
    BY <1>1, <1>2 DEF QuietLoops
  <2> QED
    BY <1>1, <2>1
<1>3. CASE /\ awake' = [awake EXCEPT ![p] = FALSE]
           /\ loops' = [loops EXCEPT ![p].slot = FALSE]
  <2>1. PICK g \in Loops : g = [loops[p] EXCEPT !.slot = FALSE] /\ Load(g) <= Running(p)
    BY <1>1, SlotEnded
  <2>2. loops' = [loops EXCEPT ![p] = g]
    BY <1>3, <2>1
  <2>3. ~awake'[p]
    BY <1>3
  <2> QED
    BY <2>1, <2>2, <2>3 DEF QuietLoops
<1> QED
  BY <1>2, <1>3

(* Every step keeps RoomInv. *)
LEMMA StepRoomInv == RoomInv /\ [Next]_vars => RoomInv'
<1> SUFFICES ASSUME RoomInv, [Next]_vars
             PROVE  RoomInv'
  OBVIOUS
<1>t. Tables
  BY DEF RoomInv
<1>o. \A p \in Peers : Orderly(p)
  BY DEF RoomInv
<1>m. MaxLoops \in Nat
  BY BoundsAssumption
<1>s. CASE UNCHANGED vars
  BY <1>s DEF vars, RoomInv, Tables, Orderly, Running, Passive, roomVars, linkVars
<1>1. CASE connect \/ fail
  BY <1>1, <1>t, <1>o DEF connect, fail, RoomInv, Tables, Orderly, Running, Passive,
     roomVars, linkVars
<1>p. ASSUME NEW p \in Peers,
             \/ joinRoom(p) \/ derived(p) \/ subscribe(p)
             \/ announced(p) \/ announceTimer(p) \/ hear(p) \/ lose(p)
             \/ graceTimer(p) \/ endSignaling(p)
             \/ connectPeer(p) \/ receive(p) \/ handshakeTimeout(p)
             \/ idleTimer(p) \/ clear(p) \/ startLeave(p) \/ finishLeave(p)
      PROVE  RoomInv'
  <2> SUFFICES Tables' /\ \A q \in Peers : Orderly(q)'
    BY DEF RoomInv
  <2>o. Orderly(p) /\ Other(p) \in Peers
    BY <1>o, TwoPeers
  <2>l. /\ loops[p] \in Loops /\ loops[p].inflight \in Nat
        /\ loops[p].orphans \in Nat /\ loops[p].slot \in BOOLEAN
        /\ Running(p) = Load(loops[p]) /\ Load(loops[p]) \in Nat
    BY <1>t, LoopChanges DEF Tables, Loops, Running, Load
  <2>w. /\ Sent(p, If(token[p], <<Here>>)) \in [Peers -> Seq(Told)]
        /\ Sent(p, If(token[p], <<Gone>>)) \in [Peers -> Seq(Told)]
    BY <1>t, SentType, FramesType DEF Tables
  <2>1. CASE joinRoom(p)
    <3>1. Tables'
      BY <2>1, <1>t DEF joinRoom, Tables, linkVars
    <3>2. \A q \in Peers : Orderly(q)'
      BY <2>1, <1>t, <1>o DEF joinRoom, Tables, linkVars, Orderly, Running, Passive
    <3> QED
      BY <3>1, <3>2
  <2>2. CASE derived(p)
    <3>1. Tables'
      BY <2>2, <1>t, SentType, FramesType
      DEF derived, attach, noAttach, Tables, linkVars, Sleeps, Passive
    <3>2. \A q \in Peers : Orderly(q)'
      BY <2>2, <1>t, <1>o
      DEF derived, attach, noAttach, Tables, linkVars, Orderly, Running, Passive, Sleeps
    <3> QED
      BY <3>1, <3>2
  <2>3. CASE subscribe(p)
    <3>1. PICK g \in Loops :
            /\ loops' = [loops EXCEPT ![p] = g]
            /\ IF awake[p] THEN Load(g) = Running(p) + 1 /\ Running(p) < MaxLoops
                           ELSE Load(g) = Running(p)
      <4>1. CASE awake[p]
        <5>1. PICK g \in Loops : /\ g = [loops[p] EXCEPT !.inflight = loops[p].inflight + 1]
                                 /\ Load(g) = Running(p) + 1
          BY <2>l, OneQueued
        <5>2. loops' = [loops EXCEPT ![p] = g] /\ Running(p) < MaxLoops
          BY <2>3, <4>1, <5>1 DEF subscribe, queueAnnounce
        <5> QED
          BY <4>1, <5>1, <5>2
      <4>2. CASE ~awake[p]
        BY <2>3, <4>2, <2>l, <1>t DEF subscribe, Tables
      <4> QED
        BY <4>1, <4>2
    <3>r. /\ loops' \in [Peers -> Loops] /\ Running(p)' = Load(g) /\ Load(g) \in Nat
          /\ \A q \in Peers : q # p => Running(q)' = Running(q)
      BY <1>t, <3>1, LoopsOfOne DEF Tables
    <3>2. Tables'
      BY <2>3, <1>t, <3>1 DEF subscribe, Tables, linkVars
    <3>3. \A q \in Peers : Orderly(q)'
      BY <2>3, <1>t, <1>o, <1>m, <2>l, <3>1, <3>r
      DEF subscribe, Tables, linkVars, Orderly, Passive
    <3> QED
      BY <3>2, <3>3
  <2>4. CASE announced(p)
    <3>1. PICK g \in Loops :
            /\ loops' = [loops EXCEPT ![p] = g]
            /\ Load(g) <= Running(p) /\ (awake[p] => Load(g) = Running(p))
      <4>1. CASE awake[p]
        <5> DEFINE g == [inflight |-> loops[p].inflight - 1, slot |-> TRUE,
                         orphans |-> loops[p].orphans + (IF loops[p].slot THEN 1 ELSE 0)]
        <5>1. g \in Loops /\ Load(g) = Running(p) /\ Load(g) <= Running(p)
          BY <2>4, <2>l DEF announced, Loops, Load
        <5>2. loops' = [loops EXCEPT ![p] = g]
          BY <2>4, <4>1 DEF announced
        <5> HIDE DEF g
        <5> QED
          BY <5>1, <5>2, <2>l
      <4>2. CASE ~awake[p]
        <5> DEFINE g == [loops[p] EXCEPT !.inflight = loops[p].inflight - 1]
        <5>1. g \in Loops /\ Load(g) <= Running(p)
          BY <2>4, <2>l DEF announced, Loops, Load
        <5>2. loops' = [loops EXCEPT ![p] = g]
          BY <2>4, <4>2 DEF announced
        <5> HIDE DEF g
        <5> QED
          BY <5>1, <5>2, <4>2
      <4> QED
        BY <4>1, <4>2
    <3>r. /\ loops' \in [Peers -> Loops] /\ Running(p)' = Load(g) /\ Load(g) \in Nat
          /\ \A q \in Peers : q # p => Running(q)' = Running(q)
      BY <1>t, <3>1, LoopsOfOne DEF Tables
    <3>2. Tables'
      BY <2>4, <1>t, <3>1 DEF announced, Tables, linkVars, roomVars
    <3>3. UNCHANGED <<setting, room, token, awake, subscribed, grace, exited, signaling,
                      registered, bound>>
      BY <2>4 DEF announced, linkVars, roomVars
    <3>4. Orderly(p)'
      BY <2>o, <1>m, <2>l, <3>1, <3>r, <3>3 DEF Orderly, Passive
    <3>5. ASSUME NEW q \in Peers, q # p
          PROVE  Orderly(q)'
      BY <1>o, <3>r, <3>3, <3>5 DEF Orderly, Passive
    <3> QED
      BY <3>2, <3>4, <3>5
  <2>5. CASE announceTimer(p)
    <3>1. PICK rest \in Loops :
            /\ Load(rest) + 1 = Running(p)
            /\ IF awake[p] THEN queueAnnounce(p, rest)
                           ELSE loops' = [loops EXCEPT ![p] = rest]
      <4>1. PICK rest \in {[loops[p] EXCEPT !.slot = FALSE],
                           [loops[p] EXCEPT !.orphans = @ - 1]} :
              /\ rest # loops[p] /\ rest.orphans \in Nat
              /\ IF awake[p] THEN queueAnnounce(p, rest)
                             ELSE loops' = [loops EXCEPT ![p] = rest]
        BY <2>5 DEF announceTimer
      <4>2. CASE rest = [loops[p] EXCEPT !.slot = FALSE]
        <5>1. loops[p].slot
          <6> SUFFICES ASSUME loops[p].slot = FALSE
                       PROVE  FALSE
            BY <2>l
          <6> QED
            BY <4>1, <4>2, <2>l DEF Loops
        <5>2. rest \in Loops /\ Load(rest) + 1 = Running(p)
          <6>1. PICK g \in Loops : /\ g = [loops[p] EXCEPT !.slot = FALSE]
                                   /\ Load(g) = loops[p].inflight + loops[p].orphans
            BY <2>l, SlotEnded
          <6>2. Running(p) = loops[p].inflight + loops[p].orphans + 1
            BY <5>1, <2>l DEF Load
          <6> QED
            BY <4>2, <6>1, <6>2
        <5> QED
          BY <4>1, <5>2
      <4>3. CASE rest = [loops[p] EXCEPT !.orphans = @ - 1]
        <5>1. rest \in Loops /\ Load(rest) + 1 = Running(p)
          BY <4>1, <4>3, <2>l DEF Load, Loops
        <5> QED
          BY <4>1, <5>1
      <4> QED
        BY <4>1, <4>2, <4>3
    <3>2. PICK g \in Loops :
            /\ loops' = [loops EXCEPT ![p] = g]
            /\ Load(g) <= Running(p) /\ (awake[p] => Load(g) = Running(p))
      <4>1. CASE awake[p]
        <5>1. PICK g \in Loops : /\ g = [rest EXCEPT !.inflight = rest.inflight + 1]
                                 /\ Load(g) = Running(p)
          BY <3>1, OneQueued
        <5>2. loops' = [loops EXCEPT ![p] = g]
          BY <3>1, <4>1, <5>1 DEF queueAnnounce
        <5>3. Running(p) <= Running(p)
          BY <2>l
        <5> QED
          BY <5>1, <5>2, <5>3
      <4>2. CASE ~awake[p]
        <5>1. Load(rest) \in Nat
          BY LoopChanges
        <5> QED
          BY <3>1, <4>2, <2>l, <5>1
      <4> QED
        BY <4>1, <4>2
    <3>r. /\ loops' \in [Peers -> Loops] /\ Running(p)' = Load(g) /\ Load(g) \in Nat
          /\ \A q \in Peers : q # p => Running(q)' = Running(q)
      BY <1>t, <3>2, LoopsOfOne DEF Tables
    <3>3. Tables'
      BY <2>5, <1>t, <3>2 DEF announceTimer, Tables, linkVars, roomVars
    <3>4. UNCHANGED <<setting, room, token, awake, subscribed, grace, exited, signaling,
                      registered, bound>>
      BY <2>5 DEF announceTimer, linkVars, roomVars
    <3>5. Orderly(p)'
      BY <2>o, <1>m, <2>l, <3>2, <3>r, <3>4 DEF Orderly, Passive
    <3>6. ASSUME NEW q \in Peers, q # p
          PROVE  Orderly(q)'
      BY <1>o, <3>r, <3>4, <3>6 DEF Orderly, Passive
    <3> QED
      BY <3>3, <3>5, <3>6
  <2>6. CASE hear(p)
    <3>1. PICK g \in Loops :
            /\ loops' = [loops EXCEPT ![p] = g]
            /\ Load(g) <= MaxLoops
            /\ awake'[p] => IF awake[p] THEN Load(g) = Running(p) ELSE Load(g) > 0
      <4>1. CASE UNCHANGED <<awake, loops>>
        BY <4>1, <2>l, <2>o, <1>t DEF Tables, Orderly
      <4>2. CASE ~awake[p] /\ wake(p)
        <5>1. PICK g \in Loops : /\ g = [loops[p] EXCEPT !.slot = FALSE,
                                                        !.inflight = loops[p].inflight + 1]
                                 /\ Load(g) > 0 /\ Load(g) <= Running(p) + 1
          BY <2>l, OneWoken
        <5>2. loops' = [loops EXCEPT ![p] = g] /\ Running(p) < MaxLoops
          BY <4>2, <5>1 DEF wake
        <5>3. Load(g) \in Nat /\ Running(p) \in Nat
          BY <2>l, LoopChanges
        <5>4. Load(g) <= MaxLoops
          BY <5>1, <5>2, <5>3, <1>m
        <5> QED
          BY <4>2, <5>1, <5>2, <5>4
      <4> QED
        BY <2>6, <4>1, <4>2 DEF hear
    <3>r. /\ loops' \in [Peers -> Loops] /\ Running(p)' = Load(g) /\ Load(g) \in Nat
          /\ \A q \in Peers : q # p => Running(q)' = Running(q)
      BY <1>t, <3>1, LoopsOfOne DEF Tables
    <3>2. /\ wire' \in [Peers -> Seq(Told)]
          /\ \/ UNCHANGED <<awake, grace>>
             \/ ~awake[p] /\ awake' = [awake EXCEPT ![p] = TRUE]
                          /\ grace' = [grace EXCEPT ![p] = TRUE]
      BY <2>6, <1>t, <2>w DEF hear, wake, Tables
    <3>3. \/ noAttach
          \/ registered[p] /\ attach(p, token[p])
          \/ /\ signaling' = [signaling EXCEPT ![p] = @ \/ ~registered[p]]
             /\ UNCHANGED <<bound, exited, kept>>
      BY <2>6 DEF hear
    <3>4. room[p] # "out" /\ UNCHANGED <<setting, room, token, subscribed, net,
                                        registered, remote>>
      BY <2>6 DEF hear, linkVars
    <3>5. Tables'
      BY <1>t, <3>1, <3>2, <3>3, <3>4 DEF Tables, attach, noAttach, Sleeps, Passive
    <3>6. Orderly(p)'
      BY <1>t, <2>o, <3>1, <3>2, <3>3, <3>4, <3>r
      DEF Tables, attach, noAttach, Sleeps, Passive, Orderly
    <3>7. ASSUME NEW q \in Peers, q # p
          PROVE  Orderly(q)'
      <4>1. /\ awake'[q] = awake[q] /\ grace'[q] = grace[q] /\ bound'[q] = bound[q]
            /\ exited'[q] = exited[q] /\ signaling'[q] = signaling[q]
            /\ Running(q)' = Running(q)
        BY <1>t, <3>1, <3>2, <3>3, <3>7, LoopsOfOne DEF Tables, attach, noAttach
      <4> QED
        BY <1>o, <3>4, <4>1 DEF Orderly, Passive
    <3> QED
      BY <3>5, <3>6, <3>7
  <2>7. CASE lose(p)
    BY <2>7, <1>t, <1>o
    DEF lose, Tables, roomVars, linkVars, Orderly, Running, Passive
  <2>8. CASE graceTimer(p)
    <3>1. \/ deactivate(p)
          \/ /\ bound[p] \/ signaling[p]
             /\ grace' = [grace EXCEPT ![p] = FALSE]
             /\ UNCHANGED <<awake, exited, loops, wire>>
      BY <2>8 DEF graceTimer
    <3>2. PICK g \in Loops : QuietLoops(p, g)
      BY <1>t, <3>1, QuietStep DEF Tables, deactivate
    <3>r. /\ loops' \in [Peers -> Loops] /\ Running(p)' = Load(g) /\ Load(g) \in Nat
          /\ \A q \in Peers : q # p => Running(q)' = Running(q)
      BY <1>t, <3>2, LoopsOfOne DEF Tables, QuietLoops
    <3>3. Tables'
      BY <2>8, <1>t, <3>1, <3>2, <3>r, <2>w
      DEF graceTimer, deactivate, Tables, linkVars, QuietLoops
    <3>4. Orderly(p)'
      BY <2>8, <1>t, <2>o, <2>l, <1>m, <3>1, <3>2, <3>r
      DEF graceTimer, deactivate, Tables, linkVars, QuietLoops, Orderly, Passive
    <3>5. ASSUME NEW q \in Peers, q # p
          PROVE  Orderly(q)'
      BY <2>8, <1>t, <1>o, <3>1, <3>2, <3>5, <3>r
      DEF graceTimer, deactivate, Tables, linkVars, QuietLoops, Orderly, Passive
    <3> QED
      BY <3>3, <3>4, <3>5
  <2>9. CASE endSignaling(p)
    <3>1. \/ deactivate(p)
          \/ ~(Sleeps(p) /\ ~bound[p]) /\ UNCHANGED <<awake, grace, exited, loops, wire>>
      BY <2>9 DEF endSignaling
    <3>2. PICK g \in Loops : QuietLoops(p, g)
      BY <1>t, <3>1, QuietStep DEF Tables, deactivate
    <3>r. /\ loops' \in [Peers -> Loops] /\ Running(p)' = Load(g) /\ Load(g) \in Nat
          /\ \A q \in Peers : q # p => Running(q)' = Running(q)
      BY <1>t, <3>2, LoopsOfOne DEF Tables, QuietLoops
    <3>3. Tables'
      BY <2>9, <1>t, <3>1, <3>2, <3>r, <2>w
      DEF endSignaling, deactivate, Tables, linkVars, QuietLoops
    <3>4. Orderly(p)'
      BY <2>9, <1>t, <2>o, <2>l, <1>m, <3>1, <3>2, <3>r
      DEF endSignaling, deactivate, Tables, linkVars, QuietLoops, Orderly, Passive,
          Sleeps
    <3>5. ASSUME NEW q \in Peers, q # p
          PROVE  Orderly(q)'
      BY <2>9, <1>t, <1>o, <3>1, <3>2, <3>5, <3>r
      DEF endSignaling, deactivate, Tables, linkVars, QuietLoops, Orderly, Passive
    <3> QED
      BY <3>3, <3>4, <3>5
  <2>10. CASE connectPeer(p)
    <3>1. Tables'
      <4>1. wire' \in [Peers -> Seq(Told)]
        <5> DEFINE s == If(room[p] # "out" /\ token[p] /\ awake[p], <<Here>>)
        <5>1. wire[Other(p)] \o s \in Seq(Told)
          BY <1>t, <2>o, FramesType, ConcatProperties DEF Tables
        <5>2. wire' = [wire EXCEPT ![Other(p)] = wire[Other(p)] \o s]
          BY <2>10 DEF connectPeer
        <5> HIDE DEF s
        <5> QED
          BY <5>1, <5>2, <1>t DEF Tables
      <4> QED
        BY <2>10, <4>1, <1>t
        DEF connectPeer, attach, noAttach, Tables, linkVars, Sleeps, Passive
    <3>2. \A q \in Peers : Orderly(q)'
      BY <2>10, <1>t, <1>o
      DEF connectPeer, attach, noAttach, Tables, linkVars, Orderly, Running, Passive,
          Sleeps
    <3> QED
      BY <3>1, <3>2
  <2>11. CASE receive(p)
    <3>0. /\ registered[p]
          /\ UNCHANGED <<setting, room, token, awake, subscribed, grace, loops, net,
                         registered>>
      BY <2>11 DEF receive, linkVars
    <3>1. wire' \in [Peers -> Seq(Told)]
      <4>1. Tail(wire[p]) \in Seq(Told)
        BY <2>11, <1>t, HeadTailProperties DEF receive, Tables
      <4> QED
        BY <2>11, <4>1, <1>t DEF receive, Tables
    <3>2. remote' \in [Peers -> BOOLEAN]
      BY <2>11, <1>t DEF receive, Tables
    <3>3. \/ noAttach
          \/ token[p] /\ attach(p, TRUE)
          \/ token[p] /\ exitPeer(p) /\ UNCHANGED <<kept, signaling>>
          \/ kept' = [kept EXCEPT ![p] = TRUE] /\ UNCHANGED <<bound, exited, signaling>>
      BY <2>11 DEF receive
    <3>4. Tables'
      BY <1>t, <3>0, <3>1, <3>2, <3>3
      DEF attach, noAttach, exitPeer, Tables, Sleeps, Passive
    <3>5. \A q \in Peers : Orderly(q)'
      <4>1. \A q \in Peers : Running(q)' = Running(q)
        BY <3>0 DEF Running
      <4>2. CASE noAttach
        BY <1>o, <3>0, <4>1, <4>2 DEF noAttach, Orderly, Passive
      <4>3. CASE token[p] /\ attach(p, TRUE)
        BY <1>t, <1>o, <3>0, <4>1, <4>3 DEF attach, Tables, Orderly, Passive, Sleeps
      <4>4. CASE token[p] /\ exitPeer(p) /\ UNCHANGED <<kept, signaling>>
        BY <1>t, <1>o, <3>0, <4>1, <4>4 DEF exitPeer, Tables, Orderly, Passive, Sleeps
      <4>5. CASE kept' = [kept EXCEPT ![p] = TRUE] /\ UNCHANGED <<bound, exited, signaling>>
        BY <1>o, <3>0, <4>1, <4>5 DEF Orderly, Passive
      <4> QED
        BY <3>3, <4>2, <4>3, <4>4, <4>5
    <3> QED
      BY <3>4, <3>5
  <2>12. CASE handshakeTimeout(p)
    <3>1. Tables'
      BY <2>12, <1>t DEF handshakeTimeout, exitPeer, Tables, linkVars, Sleeps, Passive
    <3>2. \A q \in Peers : Orderly(q)'
      BY <2>12, <1>t, <1>o
      DEF handshakeTimeout, exitPeer, Tables, linkVars, Orderly, Running, Passive, Sleeps
    <3> QED
      BY <3>1, <3>2
  <2>13. CASE idleTimer(p)
    BY <2>13, <1>t, <1>o
    DEF idleTimer, Tables, roomVars, linkVars, Orderly, Running, Passive
  <2>14. CASE clear(p)
    <3>0. /\ UNCHANGED <<setting, room, token, subscribed, signaling>>
          /\ registered' = [registered EXCEPT ![p] = FALSE]
          /\ bound' = [bound EXCEPT ![p] = FALSE]
      BY <2>14 DEF clear
    <3>1. \/ /\ awake' = [awake EXCEPT ![p] = FALSE]
             /\ grace' = [grace EXCEPT ![p] = FALSE]
             /\ exited' = [exited EXCEPT ![p] = FALSE]
             /\ loops' = [loops EXCEPT ![p].slot = FALSE]
          \/ /\ ~(bound[p] /\ Sleeps(p) /\ ~signaling[p])
             /\ UNCHANGED <<awake, grace, exited, loops>>
      BY <2>14 DEF clear
    <3>2. PICK g \in Loops : QuietLoops(p, g)
      BY <1>t, <3>1, QuietStep DEF Tables
    <3>r. /\ loops' \in [Peers -> Loops] /\ Running(p)' = Load(g) /\ Load(g) \in Nat
          /\ \A q \in Peers : q # p => Running(q)' = Running(q)
      BY <1>t, <3>2, LoopsOfOne DEF Tables, QuietLoops
    <3>3. wire' \in [Peers -> Seq(Told)]
      BY <2>14, <1>t, FramesType DEF clear, Tables
    <3>4. Tables'
      BY <2>14, <1>t, <3>1, <3>2, <3>3, <3>r DEF clear, Tables, QuietLoops
    <3>5. Orderly(p)'
      BY <1>t, <2>o, <2>l, <1>m, <3>0, <3>1, <3>2, <3>r
      DEF Tables, QuietLoops, Orderly, Passive, Sleeps
    <3>6. ASSUME NEW q \in Peers, q # p
          PROVE  Orderly(q)'
      BY <1>t, <1>o, <3>0, <3>1, <3>2, <3>6, <3>r
      DEF Tables, QuietLoops, Orderly, Passive
    <3> QED
      BY <3>4, <3>5, <3>6
  <2>15. CASE startLeave(p)
    <3>1. Tables'
      BY <2>15, <1>t, SentType, FramesType DEF startLeave, Tables, linkVars
    <3>2. \A q \in Peers : Orderly(q)'
      BY <2>15, <1>t, <1>o
      DEF startLeave, Tables, linkVars, Orderly, Running, Passive
    <3> QED
      BY <3>1, <3>2
  <2>16. CASE finishLeave(p)
    <3>1. Tables'
      BY <2>16, <1>t, SentType, FramesType DEF finishLeave, Tables, Loops, NoLoops
    <3>2. \A q \in Peers : Orderly(q)'
      BY <2>16, <1>t, <1>o, <1>m
      DEF finishLeave, Tables, Orderly, Running, Passive, NoLoops
    <3> QED
      BY <3>1, <3>2
  <2> QED
    BY <1>p, <2>1, <2>2, <2>3, <2>4, <2>5, <2>6, <2>7, <2>8, <2>9, <2>10,
       <2>11, <2>12, <2>13, <2>14, <2>15, <2>16
<1> QED
  BY <1>s, <1>1, <1>p DEF Next

-----------------------------------------------------------------------------
(* What a peer will know once the frames on its way have arrived: the last *)
(* word on presence counts, and a leave message is none.                   *)
Final(s, r) ==
  \/ \E i \in DOMAIN s : s[i] = Here /\ \A j \in DOMAIN s : j > i => s[j] = Leave
  \/ r /\ \A j \in DOMAIN s : s[j] = Leave

(* What was told to p, and is on its way, is true of the other room as long *)
(* as they are connected, and nothing is left of an earlier connection.     *)
Heard(p) ==
  /\ ~registered[p] => ~remote[p]
  /\ net = "none" => ~registered[p]
  /\ net # "down" /\ ~registered[Other(p)] => wire[p] = <<>> /\ ~remote[p]
  /\ net = "up" /\ registered[Other(p)]
       => (Final(wire[p], remote[p]) <=> token[Other(p)] /\ awake[Other(p)])

ToldInv == \A p \in Peers : Heard(p)

LEMMA FrameNames == Here # Gone /\ Here # Leave /\ Gone # Leave
BY DEF Here, Gone, Leave

(* What a frame that is added changes. *)
LEMMA FramesAdded ==
  ASSUME NEW s \in Seq(Told), NEW f \in Told
  PROVE  /\ DOMAIN (s \o <<f>>) = 1..(Len(s) + 1)
         /\ (s \o <<f>>)[Len(s) + 1] = f
         /\ \A i \in 1..Len(s) : (s \o <<f>>)[i] = s[i]
         /\ DOMAIN s = 1..Len(s) /\ Len(s) \in Nat
OBVIOUS

LEMMA HereCounts ==
  ASSUME NEW s \in Seq(Told), NEW r \in BOOLEAN
  PROVE  Final(s \o <<Here>>, r)
<1>1. Here \in Told
  BY DEF Told
<1> QED
  BY <1>1, FramesAdded DEF Final

LEMMA FinalAppend ==
  ASSUME NEW s \in Seq(Told), NEW r \in BOOLEAN
  PROVE  /\ ~Final(s \o <<Gone>>, r)
         /\ Final(s \o <<Leave>>, r) <=> Final(s, r)
<1>1. \A f \in Told :
        /\ DOMAIN (s \o <<f>>) = 1..(Len(s) + 1)
        /\ (s \o <<f>>)[Len(s) + 1] = f
        /\ \A i \in 1..Len(s) : (s \o <<f>>)[i] = s[i]
  OBVIOUS
<1>2. DOMAIN s = 1..Len(s) /\ Len(s) \in Nat
  OBVIOUS
<1>3. Here \in Told /\ Gone \in Told /\ Leave \in Told
  BY DEF Told
<1>5. ~Final(s \o <<Gone>>, r)
  BY <1>1, <1>2, <1>3, FrameNames DEF Final
<1>6. Final(s \o <<Leave>>, r) <=> Final(s, r)
  <2> DEFINE t == s \o <<Leave>>
  <2>1. /\ DOMAIN t = 1..(Len(s) + 1) /\ t[Len(s) + 1] = Leave
        /\ \A i \in 1..Len(s) : t[i] = s[i]
    BY <1>1, <1>3
  <2> HIDE DEF t
  <2>2. \A i \in DOMAIN s : i \in DOMAIN t /\ i < Len(s) + 1
    BY <1>2, <2>1
  <2>3. \A i \in DOMAIN t : i \in DOMAIN s \/ i = Len(s) + 1
    BY <1>2, <2>1
  <2>4. ASSUME Final(s, r)
        PROVE  Final(t, r)
    BY <1>2, <2>1, <2>2, <2>3, <2>4 DEF Final
  <2>5. ASSUME Final(t, r)
        PROVE  Final(s, r)
    BY <1>2, <2>1, <2>2, <2>3, <2>5, FrameNames DEF Final
  <2> QED
    BY <2>4, <2>5 DEF t
<1> QED
  BY <1>5, <1>6

(* A frame that arrives is the word that counts, as far as it goes. *)
LEMMA FinalTail ==
  ASSUME NEW s \in Seq(Told), s # <<>>, NEW r \in BOOLEAN, NEW u \in BOOLEAN,
         Head(s) = Here => u, Head(s) = Gone => ~u, Head(s) = Leave => (u <=> r)
  PROVE  Final(Tail(s), u) <=> Final(s, r)
<1> DEFINE t == Tail(s)
<1>1. /\ Len(s) \in Nat /\ Len(s) > 0 /\ DOMAIN s = 1..Len(s)
      /\ DOMAIN t = 1..(Len(s) - 1)
      /\ \A i \in DOMAIN t : t[i] = s[i + 1]
      /\ Head(s) = s[1]
  OBVIOUS
<1> HIDE DEF t
<1>2. /\ \A i \in DOMAIN t : i + 1 \in DOMAIN s /\ s[i + 1] = t[i]
      /\ \A i \in DOMAIN s : i # 1 => i - 1 \in DOMAIN t /\ t[i - 1] = s[i]
      /\ 1 \in DOMAIN s
  BY <1>1
<1>3. (\A j \in DOMAIN t : t[j] = Leave) <=> (\A j \in DOMAIN s : j > 1 => s[j] = Leave)
  BY <1>1, <1>2
<1>4. (\E i \in DOMAIN t : t[i] = Here /\ \A j \in DOMAIN t : j > i => t[j] = Leave)
      <=> (\E i \in DOMAIN s : i > 1 /\ s[i] = Here /\ \A j \in DOMAIN s : j > i => s[j] = Leave)
  <2>1. ASSUME NEW i \in DOMAIN t, t[i] = Here, \A j \in DOMAIN t : j > i => t[j] = Leave
        PROVE  /\ i + 1 \in DOMAIN s /\ i + 1 > 1 /\ s[i + 1] = Here
               /\ \A j \in DOMAIN s : j > i + 1 => s[j] = Leave
    BY <1>1, <1>2, <2>1
  <2>2. ASSUME NEW i \in DOMAIN s, i > 1, s[i] = Here,
               \A j \in DOMAIN s : j > i => s[j] = Leave
        PROVE  /\ i - 1 \in DOMAIN t /\ t[i - 1] = Here
               /\ \A j \in DOMAIN t : j > i - 1 => t[j] = Leave
    BY <1>1, <1>2, <2>2
  <2> QED
    BY <2>1, <2>2
<1>5. Final(s, r) <=> \/ \E i \in DOMAIN t : t[i] = Here /\ \A j \in DOMAIN t : j > i => t[j] = Leave
                      \/ s[1] = Here /\ \A j \in DOMAIN t : t[j] = Leave
                      \/ r /\ s[1] = Leave /\ \A j \in DOMAIN t : t[j] = Leave
  <2>1. (\E i \in DOMAIN s : s[i] = Here /\ \A j \in DOMAIN s : j > i => s[j] = Leave)
        <=> \/ \E i \in DOMAIN t : t[i] = Here /\ \A j \in DOMAIN t : j > i => t[j] = Leave
            \/ s[1] = Here /\ \A j \in DOMAIN t : t[j] = Leave
    <3>1. \A i \in DOMAIN s : i = 1 \/ i > 1
      BY <1>1
    <3> QED
      BY <3>1, <1>2, <1>3, <1>4
  <2>2. (\A j \in DOMAIN s : s[j] = Leave)
        <=> s[1] = Leave /\ \A j \in DOMAIN t : t[j] = Leave
    <3>1. \A i \in DOMAIN s : i = 1 \/ i > 1
      BY <1>1
    <3> QED
      BY <3>1, <1>2, <1>3
  <2> QED
    BY <2>1, <2>2 DEF Final
<1>6. Final(t, u) <=> \/ \E i \in DOMAIN t : t[i] = Here /\ \A j \in DOMAIN t : j > i => t[j] = Leave
                      \/ u /\ \A j \in DOMAIN t : t[j] = Leave
  BY DEF Final
<1>7. s[1] \in Told /\ s[1] = Head(s)
  BY <1>1
<1>8. u <=> s[1] = Here \/ (r /\ s[1] = Leave)
  BY <1>7, FrameNames DEF Told
<1>9. Final(t, u) <=> Final(s, r)
  BY <1>5, <1>6, <1>8
<1> QED
  BY <1>9 DEF t

(* What is sent goes to the other peer, and over a connection only. *)
LEMMA SentFrames ==
  ASSUME Tables, NEW p \in Peers, NEW s
  PROVE  /\ Sent(p, s)[p] = wire[p]
         /\ Sent(p, s)[Other(p)] = IF registered[p] /\ net = "up"
                                     THEN wire[Other(p)] \o s ELSE wire[Other(p)]
BY TwoPeers DEF Sent, Tables

(* What p says to the other peer keeps it informed. *)
Says(p, s) ==
  \A f \in Seq(Told), r \in BOOLEAN :
    (Final(f, r) <=> token[p] /\ awake[p])
      => (Final(f \o s, r) <=> token'[p] /\ awake'[p])

LEMMA SaysEnough ==
  ASSUME NEW p \in Peers, token[p] \in BOOLEAN, awake[p] \in BOOLEAN
  PROVE  /\ token'[p] /\ awake'[p] => Says(p, <<Here>>)
         /\ ~(token'[p] /\ awake'[p]) => Says(p, <<Gone>>)
         /\ (token'[p] /\ awake'[p] <=> token[p] /\ awake[p])
              => Says(p, <<>>) /\ Says(p, <<Leave>>)
<1>1. ASSUME token'[p] /\ awake'[p]
      PROVE  Says(p, <<Here>>)
  <2>1. \A f \in Seq(Told), r \in BOOLEAN : Final(f \o <<Here>>, r)
    BY HereCounts
  <2> QED
    BY <1>1, <2>1 DEF Says
<1>2. ASSUME ~(token'[p] /\ awake'[p])
      PROVE  Says(p, <<Gone>>)
  <2>1. \A f \in Seq(Told), r \in BOOLEAN : ~Final(f \o <<Gone>>, r)
    BY FinalAppend
  <2> QED
    BY <1>2, <2>1 DEF Says
<1>3. ASSUME token'[p] /\ awake'[p] <=> token[p] /\ awake[p]
      PROVE  Says(p, <<>>) /\ Says(p, <<Leave>>)
  <2>1. \A f \in Seq(Told), r \in BOOLEAN :
          /\ Final(f \o <<Leave>>, r) <=> Final(f, r)
          /\ Final(f \o <<>>, r) <=> Final(f, r)
    BY FinalAppend, ConcatEmptySeq
  <2> QED
    BY <1>3, <2>1 DEF Says
<1> QED
  BY <1>1, <1>2, <1>3

(* A step of p that says what there is to say keeps ToldInv. *)
LEMMA Speaks ==
  ASSUME Tables, ToldInv, NEW p \in Peers, NEW s \in Seq(Told), Says(p, s),
         UNCHANGED <<registered, remote>>,
         \A q \in Peers : q # p => token'[q] = token[q] /\ awake'[q] = awake[q],
         wire'[p] = wire[p],
         wire'[Other(p)] = IF registered[p] /\ net = "up"
                             THEN wire[Other(p)] \o s ELSE wire[Other(p)],
         \/ net' = net
         \/ /\ net = "up" /\ ~registered[p]
            /\ net' = IF registered[Other(p)] THEN "down" ELSE "none"
  PROVE  ToldInv'
<1> DEFINE o == Other(p)
<1>1. o \in Peers /\ o # p /\ Other(o) = p /\ \A q \in Peers : q = p \/ q = o
  BY TwoPeers
<1>2. Heard(p) /\ Heard(o)
  BY <1>1 DEF ToldInv
<1>3. Heard(p)'
  BY <1>1, <1>2 DEF Heard
<1>4. Heard(o)'
  <2>1. wire[o] \in Seq(Told) /\ remote[o] \in BOOLEAN
    BY <1>1 DEF Tables
  <2>2. net = "up" /\ registered[p]
          => (Final(wire[o] \o s, remote[o]) <=> token'[p] /\ awake'[p])
    BY <1>1, <1>2, <2>1 DEF Heard, Says
  <2> HIDE DEF o
  <2> QED
    BY <1>1, <1>2, <2>2 DEF Heard, o
<1> QED
  BY <1>1, <1>3, <1>4 DEF ToldInv

(* The same, of a step that says nothing. *)
LEMMA Silence ==
  ASSUME Tables, ToldInv, NEW p \in Peers,
         UNCHANGED <<registered, remote, wire, net>>,
         \A q \in Peers : (token[q] /\ awake[q])' <=> token[q] /\ awake[q]
  PROVE  ToldInv'
BY TwoPeers DEF ToldInv, Heard

(* Every step keeps ToldInv. *)
LEMMA StepToldInv == RoomInv /\ ToldInv /\ [Next]_vars => ToldInv'
<1> SUFFICES ASSUME RoomInv, ToldInv, [Next]_vars
             PROVE  ToldInv'
  OBVIOUS
<1>t. Tables /\ Tables'
  BY StepRoomInv DEF RoomInv
<1>o. \A p \in Peers : Orderly(p)
  BY DEF RoomInv
<1>s. CASE UNCHANGED vars
  BY <1>s, TwoPeers DEF vars, roomVars, linkVars, ToldInv, Heard
<1>1. CASE connect
  BY <1>1, TwoPeers, FinalAppend DEF connect, roomVars, ToldInv, Heard
<1>2. CASE fail
  BY <1>2, TwoPeers DEF fail, roomVars, ToldInv, Heard
<1>p. ASSUME NEW p \in Peers,
             \/ joinRoom(p) \/ derived(p) \/ subscribe(p)
             \/ announced(p) \/ announceTimer(p) \/ hear(p) \/ lose(p)
             \/ graceTimer(p) \/ endSignaling(p)
             \/ connectPeer(p) \/ receive(p) \/ handshakeTimeout(p)
             \/ idleTimer(p) \/ clear(p) \/ startLeave(p) \/ finishLeave(p)
      PROVE  ToldInv'
  <2> DEFINE o == Other(p)
  <2>o. o \in Peers /\ o # p /\ Other(o) = p /\ \A q \in Peers : q = p \/ q = o
    BY TwoPeers
  <2>b. /\ token[p] \in BOOLEAN /\ awake[p] \in BOOLEAN /\ bound[p] \in BOOLEAN
        /\ wire[o] \in Seq(Told) /\ wire[p] \in Seq(Told)
        /\ remote[p] \in BOOLEAN /\ remote[o] \in BOOLEAN
    BY <1>t, <2>o DEF Tables
  <2>h. Heard(p) /\ Heard(o)
    BY <2>o DEF ToldInv
  <2>e. wire[o] \o <<>> = wire[o]
    BY <2>b, ConcatEmptySeq
  <2>f. /\ <<>> \in Seq(Told) /\ <<Here>> \in Seq(Told) /\ <<Gone>> \in Seq(Told)
        /\ <<Leave>> \in Seq(Told)
    BY DEF Told
  <2>i. \A c, t : If(c, t) = IF c THEN t ELSE <<>>
    BY DEF If
  <2>3. CASE joinRoom(p)
    BY <2>3, <1>t, <1>o, Silence DEF joinRoom, linkVars, Tables, Orderly
  <2>4. CASE derived(p)
    <3>1. PICK t \in {<<>>, <<Here>>} :
            /\ wire' = Sent(p, t)
            /\ t = IF awake[p] THEN <<Here>> ELSE <<>>
      BY <2>4, <2>i DEF derived
    <3>2. /\ UNCHANGED <<registered, remote, net, awake>>
          /\ token' = [token EXCEPT ![p] = TRUE] /\ ~token[p]
      BY <2>4 DEF derived, linkVars
    <3>3. Says(p, t)
      BY <3>1, <3>2, <2>b, <1>t, SaysEnough DEF Tables
    <3>w. /\ wire'[p] = wire[p]
          /\ wire'[Other(p)] = IF registered[p] /\ net = "up"
                                 THEN wire[Other(p)] \o t ELSE wire[Other(p)]
      BY <3>1, <1>t, SentFrames
    <3>q. t \in Seq(Told)
      BY <3>1, <2>f
    <3> QED
      BY <3>1, <3>2, <3>3, <3>q, <3>w, <1>t, Speaks DEF Tables
  <2>5. CASE subscribe(p)
    BY <2>5, Silence, <1>t DEF subscribe, linkVars
  <2>6. CASE announced(p) \/ announceTimer(p) \/ lose(p)
    BY <2>6, Silence, <1>t DEF announced, announceTimer, lose, roomVars, linkVars
  <2>7. CASE hear(p)
    <3>1. UNCHANGED <<registered, remote, net, token>>
      BY <2>7 DEF hear, linkVars
    <3>2. CASE UNCHANGED <<awake, wire>>
      BY <3>1, <3>2, <1>t, Silence
    <3>3. CASE ~awake[p] /\ wake(p)
      <4>1. PICK t \in {<<>>, <<Here>>} :
              /\ wire' = Sent(p, t)
              /\ t = IF token[p] THEN <<Here>> ELSE <<>>
        BY <3>3, <2>i DEF wake
      <4>2. awake' = [awake EXCEPT ![p] = TRUE]
        BY <3>3 DEF wake
      <4>3. Says(p, t)
        BY <3>1, <4>1, <4>2, <3>3, <2>b, <1>t, SaysEnough DEF Tables
      <4>w. /\ wire'[p] = wire[p]
            /\ wire'[Other(p)] = IF registered[p] /\ net = "up"
                                   THEN wire[Other(p)] \o t ELSE wire[Other(p)]
        BY <4>1, <1>t, SentFrames
      <4>q. t \in Seq(Told)
        BY <4>1, <2>f
      <4> QED
        BY <3>1, <4>1, <4>2, <4>3, <4>q, <4>w, <1>t, Speaks DEF Tables
    <3> QED
      BY <2>7, <3>2, <3>3 DEF hear
  <2>8. ASSUME deactivate(p), UNCHANGED <<registered, remote, token>>,
               \/ net' = net
               \/ /\ net = "up" /\ ~registered[p]
                  /\ net' = IF registered[Other(p)] THEN "down" ELSE "none"
        PROVE  ToldInv'
    <3>1. PICK t \in {<<>>, <<Gone>>} :
            /\ wire' = Sent(p, t)
            /\ t = IF token[p] THEN <<Gone>> ELSE <<>>
      BY <2>8, <2>i DEF deactivate
    <3>2. awake' = [awake EXCEPT ![p] = FALSE]
      BY <2>8 DEF deactivate
    <3>3. Says(p, t)
      BY <2>8, <3>1, <3>2, <2>b, <1>t, SaysEnough DEF Tables
    <3>w. /\ wire'[p] = wire[p]
          /\ wire'[Other(p)] = IF registered[p] /\ net = "up"
                                 THEN wire[Other(p)] \o t ELSE wire[Other(p)]
      BY <3>1, <1>t, SentFrames
    <3>q. t \in Seq(Told)
      BY <3>1, <2>f
    <3> QED
      BY <2>8, <3>1, <3>2, <3>3, <3>q, <3>w, <1>t, Speaks DEF Tables
  <2>9. CASE graceTimer(p)
    <3>1. UNCHANGED <<registered, remote, token, net>>
      BY <2>9 DEF graceTimer, linkVars
    <3> QED
      BY <2>9, <3>1, <2>8, <1>t, Silence DEF graceTimer
  <2>10. CASE endSignaling(p)
    <3>1. UNCHANGED <<registered, remote, token>>
      BY <2>10 DEF endSignaling
    <3>2. \/ net' = net
          \/ /\ net = "up" /\ ~registered[p]
             /\ net' = IF registered[Other(p)] THEN "down" ELSE "none"
      BY <2>10 DEF endSignaling
    <3>3. CASE UNCHANGED <<awake, wire>>
      <4>1. Says(p, <<>>)
        BY <3>1, <3>3, <2>b, SaysEnough
      <4> QED
        BY <3>1, <3>2, <3>3, <4>1, <2>e, <2>f, <1>t, Speaks
    <3> QED
      BY <2>10, <3>1, <3>2, <3>3, <2>8 DEF endSignaling
  <2>11. CASE connectPeer(p)
    <3>1. /\ UNCHANGED <<room, token, awake, net, remote>>
          /\ net = "up" /\ ~registered[p] /\ registered' = [registered EXCEPT ![p] = TRUE]
      BY <2>11 DEF connectPeer
    <3>2. PICK t \in {<<>>, <<Here>>} :
            /\ wire' = [wire EXCEPT ![o] = wire[o] \o t]
            /\ t = IF room[p] # "out" /\ token[p] /\ awake[p] THEN <<Here>> ELSE <<>>
      BY <2>11, <2>i DEF connectPeer
    <3>3. token[p] /\ awake[p] => room[p] # "out"
      BY <1>o DEF Orderly
    <3>4. Says(p, t)
      <4>1. CASE token[p] /\ awake[p]
        BY <3>1, <3>2, <3>3, <4>1, <2>b, SaysEnough
      <4>2. CASE ~(token[p] /\ awake[p])
        BY <3>1, <3>2, <4>2, <2>b, SaysEnough
      <4> QED
        BY <4>1, <4>2
    <3>5. wire[o] = <<>> /\ ~remote[o]
      BY <3>1, <2>h, <2>o DEF Heard
    <3>6. Final(wire'[o], remote[o]) <=> token[p] /\ awake[p]
      <4>1. wire'[o] = <<>> \o t
        BY <3>2, <3>5, <2>o, <1>t DEF Tables
      <4>2. Final(<<>> \o <<Here>>, remote[o]) /\ ~Final(<<>> \o <<>>, remote[o])
        <5>1. Final(<<>> \o <<Here>>, remote[o])
          BY <2>b, <2>f, HereCounts
        <5>2. ~Final(<<>>, remote[o])
          BY <3>5 DEF Final
        <5> QED
          BY <2>f, <5>1, <5>2, ConcatEmptySeq
      <4> QED
        BY <3>2, <3>3, <4>1, <4>2
    <3>7. Heard(p)'
      BY <3>1, <3>2, <2>h, <2>o, <1>t DEF Heard, Tables
    <3>8. Heard(o)'
      <4> HIDE DEF o
      <4> QED
        BY <3>1, <3>6, <3>7, <2>h, <2>o, <1>t DEF Heard, Tables
    <3> QED
      BY <3>7, <3>8, <2>o DEF ToldInv
  <2>12. CASE receive(p)
    <3>1. /\ UNCHANGED <<token, awake, net, registered>>
          /\ registered[p] /\ wire[p] # <<>> /\ wire' = [wire EXCEPT ![p] = Tail(wire[p])]
      BY <2>12 DEF receive, linkVars
    <3>2. \/ Head(wire[p]) = Here /\ remote' = [remote EXCEPT ![p] = TRUE]
          \/ Head(wire[p]) = Gone /\ remote' = [remote EXCEPT ![p] = FALSE]
          \/ Head(wire[p]) = Leave /\ remote' = remote
      BY <2>12 DEF receive
    <3>3. Final(Tail(wire[p]), remote'[p]) <=> Final(wire[p], remote[p])
      <4>1. /\ remote'[p] \in BOOLEAN
            /\ Head(wire[p]) = Here => remote'[p]
            /\ Head(wire[p]) = Gone => ~remote'[p]
            /\ Head(wire[p]) = Leave => (remote'[p] <=> remote[p])
        BY <3>2, <1>t, FrameNames DEF Tables
      <4> QED
        BY <3>1, <4>1, <2>b, FinalTail
    <3>4. /\ wire'[p] = Tail(wire[p]) /\ wire'[o] = wire[o] /\ remote'[o] = remote[o]
      BY <3>1, <3>2, <2>o, <1>t DEF Tables
    <3>5. Heard(p)'
      BY <3>1, <3>3, <3>4, <2>h, <2>o DEF Heard
    <3>6. Heard(o)'
      BY <3>1, <3>4, <2>h, <2>o DEF Heard
    <3> QED
      BY <3>5, <3>6, <2>o DEF ToldInv
  <2>13. CASE handshakeTimeout(p)
    BY <2>13, Silence, <1>t DEF handshakeTimeout, linkVars
  <2>14. CASE idleTimer(p)
    BY <2>14, <2>h, <2>o DEF idleTimer, roomVars, ToldInv, Heard
  <2>15. CASE clear(p)
    <3>1. /\ net' = IF registered[o] THEN "down" ELSE "none"
          /\ registered' = [registered EXCEPT ![p] = FALSE]
          /\ remote' = [remote EXCEPT ![p] = FALSE]
          /\ wire' = [q \in Peers |-> IF q = p \/ ~registered[q] THEN <<>> ELSE wire[q]]
      BY <2>15 DEF clear
    <3>2. Heard(p)'
      BY <3>1, <2>h, <2>o, <1>t DEF Heard, Tables
    <3>3. Heard(o)'
      BY <3>1, <2>h, <2>o, <1>t DEF Heard, Tables
    <3> QED
      BY <3>2, <3>3, <2>o DEF ToldInv
  <2>16. CASE startLeave(p)
    <3>1. UNCHANGED <<registered, remote, net, token, awake>>
      BY <2>16 DEF startLeave, linkVars
    <3>2. PICK t \in {<<>>, <<Leave>>} : wire' = Sent(p, t)
      BY <2>16, <2>i DEF startLeave
    <3>3. Says(p, t)
      BY <3>1, <3>2, <2>b, SaysEnough
    <3>w. /\ wire'[p] = wire[p]
          /\ wire'[Other(p)] = IF registered[p] /\ net = "up"
                                 THEN wire[Other(p)] \o t ELSE wire[Other(p)]
      BY <3>2, <1>t, SentFrames
    <3>q. t \in Seq(Told)
      BY <3>2, <2>f
    <3> QED
      BY <3>1, <3>2, <3>3, <3>q, <3>w, <1>t, Speaks DEF Tables
  <2>17. CASE finishLeave(p)
    <3>1. /\ UNCHANGED <<registered, remote>>
          /\ token' = [token EXCEPT ![p] = FALSE] /\ awake' = [awake EXCEPT ![p] = FALSE]
          /\ \/ net' = net
             \/ /\ net = "up" /\ ~registered[p]
                /\ net' = IF registered[Other(p)] THEN "down" ELSE "none"
      BY <2>17 DEF finishLeave
    <3>2. PICK t \in {<<>>, <<Gone>>} :
            wire' = Sent(p, t) /\ t = IF token[p] THEN <<Gone>> ELSE <<>>
      BY <2>17, <2>i DEF finishLeave
    <3>3. Says(p, t)
      BY <3>1, <3>2, <2>b, <1>t, SaysEnough DEF Tables
    <3>w. /\ wire'[p] = wire[p]
          /\ wire'[Other(p)] = IF registered[p] /\ net = "up"
                                 THEN wire[Other(p)] \o t ELSE wire[Other(p)]
      BY <3>2, <1>t, SentFrames
    <3>q. t \in Seq(Told)
      BY <3>2, <2>f
    <3> QED
      BY <3>1, <3>2, <3>3, <3>q, <3>w, <1>t, Speaks DEF Tables
  <2> QED
    BY <1>p, <2>3, <2>4, <2>5, <2>6, <2>7, <2>9, <2>10, <2>11, <2>12,
       <2>13, <2>14, <2>15, <2>16, <2>17
<1> QED
  BY <1>s, <1>1, <1>2, <1>p DEF Next

-----------------------------------------------------------------------------
(* At first there is nothing. *)
LEMMA InitRoomInv == Init => RoomInv /\ ToldInv
<1> SUFFICES ASSUME Init
             PROVE  RoomInv /\ ToldInv
  OBVIOUS
<1>1. NoLoops \in Loops /\ <<>> \in Seq(Told)
  BY DEF NoLoops, Loops
<1>2. Tables
  BY <1>1 DEF Init, Tables
<1>3. ASSUME NEW p \in Peers
      PROVE  Orderly(p)
  <2>1. /\ NoLoops.inflight = 0 /\ NoLoops.orphans = 0 /\ ~NoLoops.slot
    BY DEF NoLoops
  <2>2. loops[p] = NoLoops
    BY DEF Init
  <2>3. loops[p].inflight = 0 /\ loops[p].orphans = 0 /\ ~loops[p].slot
    BY <2>1, <2>2
  <2>4. Running(p) = 0
    BY <2>3 DEF Running
  <2>5. /\ ~awake[p] /\ ~token[p] /\ ~subscribed[p]
        /\ ~grace[p] /\ ~signaling[p] /\ ~bound[p]
    BY DEF Init
  <2>6. Running(p) <= MaxLoops
    BY <2>4, BoundsAssumption
  <2> QED
    BY <2>5, <2>6 DEF Orderly
<1>4. ToldInv
  BY TwoPeers DEF Init, ToldInv, Heard
<1> QED
  BY <1>2, <1>3, <1>4 DEF RoomInv

(* The inductive invariant, of every state. *)
LEMMA RoomsHold == Spec => [](RoomInv /\ ToldInv)
<1>1. RoomInv /\ ToldInv /\ [Next]_vars => (RoomInv /\ ToldInv)'
  BY StepRoomInv, StepToldInv
<1> QED
  BY InitRoomInv, <1>1, PTL DEF Spec

(* Type correctness: no more loops of announcements than MaxLoops, no room  *)
(* that is bound without a connection or after it was left, and no grace    *)
(* for a room that sleeps (core/src/strategy.ts, shared-peer.ts). *)
THEOREM TypeCorrect == Spec => []TypeOK
<1>1. RoomInv => TypeOK
  <2> SUFFICES ASSUME RoomInv
               PROVE  TypeOK
    OBVIOUS
  <2>1. Tables /\ \A p \in Peers : Orderly(p)
    BY DEF RoomInv
  <2>2. ASSUME NEW p \in Peers
        PROVE  loops[p].inflight + loops[p].orphans \in 0..MaxLoops
    <3>1. /\ loops[p].inflight \in Nat /\ loops[p].orphans \in Nat
          /\ loops[p].slot \in BOOLEAN
      BY <2>1 DEF Tables, Loops
    <3>2. Running(p) <= MaxLoops
      BY <2>1 DEF Orderly
    <3> QED
      BY <3>1, <3>2, BoundsAssumption DEF Running
  <2> QED
    BY <2>1, <2>2 DEF TypeOK, Tables, Orderly
<1> QED
  BY RoomsHold, <1>1, PTL

(* A room that is awake never stops to announce itself: whatever puts it to *)
(* sleep ends the timer, and whatever wakes it queues an announcement, for  *)
(* any number of loops at a time (queueAnnounce, requeueAnnounce and        *)
(* checkDeactivate of core/src/strategy.ts). *)
THEOREM KeepsAnnouncingHolds == Spec => []KeepsAnnouncing
<1>1. RoomInv => KeepsAnnouncing
  BY DEF RoomInv, Orderly, KeepsAnnouncing
<1> QED
  BY RoomsHold, <1>1, PTL

(* A passive room is not awake for nothing: it has a peer, signals, waits   *)
(* for passiveActivationTimeout, or lost its peer by exitPeer.              *)
THEOREM AwakeForAReasonHolds == Spec => []AwakeForAReason
<1>1. RoomInv => AwakeForAReason
  BY DEF RoomInv, Orderly, AwakeForAReason
<1> QED
  BY RoomsHold, <1>1, PTL

(* Presence is told: when all frames have arrived, each peer knows whether  *)
(* the room of the other is there and awake (sendRoomPresence of            *)
(* core/src/strategy.ts, dispatchData of core/src/shared-peer.ts). *)
THEOREM PresenceToldHolds == Spec => []PresenceTold
<1>1. RoomInv /\ ToldInv => PresenceTold
  <2> SUFFICES ASSUME RoomInv, ToldInv, net = "up", \A p \in Peers : registered[p],
                      NEW p \in Peers, wire[p] = <<>>
               PROVE  remote[p] <=> token[Other(p)] /\ awake[Other(p)]
    BY DEF PresenceTold
  <2>1. Heard(p) /\ Other(p) \in Peers /\ remote[p] \in BOOLEAN
    BY TwoPeers DEF ToldInv, RoomInv, Tables
  <2>2. Final(<<>>, remote[p]) <=> remote[p]
    BY DEF Final
  <2> QED
    BY <2>1, <2>2 DEF Heard
<1> QED
  BY RoomsHold, <1>1, PTL
=============================================================================
