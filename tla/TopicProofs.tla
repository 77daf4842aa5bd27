----------------------------- MODULE TopicProofs -----------------------------
(***************************************************************************)
(* Proofs about TopicStrategy, with any number of rooms, of joins of a     *)
(* room and of connections: a room that has joined has its handlers, and   *)
(* the relay has what the client wants of it.                              *)
(***************************************************************************)
EXTENDS TopicStrategy, FiniteSetTheorems, TLAPS

(* A subscription is there for the root topic, and for the own one. *)
OnRoot(i) == sub[i].phase \in {"root", "done"}
OnSelf(i) == sub[i].self \in {"awaited", "had"}

(* How far a subscription is, and what that says of it. *)
Stage(i) ==
  /\ sub[i].phase \in {"out", "waiting"} => sub[i].self = "no" /\ ~sub[i].awake
  /\ ~didOpen => sub[i].phase \in {"out", "waiting"}
  /\ sub[i].phase = "out" => ~sub[i].left
  /\ sub[i].phase = "gone" => sub[i].left
  /\ sub[i].self = "released" => sub[i].phase = "gone"
  /\ sub[i].awake => sub[i].self \in {"had", "released"}
  /\ passive[i[1]] => sub[i].phase # "self"
  /\ ~passive[i[1]] /\ OnRoot(i) => sub[i].self = "had"
  /\ sub[i].phase # "out" => i[2] <= MaxJoins[adapter]

(* A room is joined again when it was left, and what waits goes on in turn. *)
Turn(i, j) ==
  i[1] = j[1] /\ j[2] < i[2] =>
    /\ sub[i].phase # "out" => sub[j].left
    /\ sub[i].phase \notin {"out", "waiting"} => sub[j].phase \notin {"out", "waiting"}
    /\ sub[i].phase \notin {"out", "waiting", "self"} => sub[j].phase # "self"

(* Subscriptions of a topic that are still to be cleaned up. *)
Holders(t) ==
  {i \in Instances : i[1] = t.room /\ IF t.kind = "root" THEN OnRoot(i) ELSE OnSelf(i)}

(* Handlers are those of such subscriptions; they include all of rooms that  *)
(* are not left, and are one at most, except over the self-hosted relay.     *)
Held(t) ==
  /\ handlers[t] \subseteq Holders(t)
  /\ \A i \in Holders(t) : ~sub[i].left => i \in handlers[t]
  /\ adapter # "ws" => \A i, j \in handlers[t] : i = j

RootMessage == [topic : {Root(r) : r \in Rooms}, sub : SubIds \cup {0}]

Typed ==
  /\ adapter \in AdaptersUsed
  /\ passive \in [Rooms -> BOOLEAN]
  /\ sub \in [Instances -> SubStates]
  /\ handlers \in [Topics -> SUBSET Instances]
  /\ down \in Seq(RootMessage)

ListenInv ==
  /\ Typed
  /\ \A i \in Instances : Stage(i)
  /\ \A i, j \in Instances : Turn(i, j)
  /\ \A t \in Topics : Held(t)
  /\ sock = "open" => didOpen


-----------------------------------------------------------------------------
(* The topics of rooms differ. *)
LEMMA TopicsDiffer ==
  /\ \A r \in Rooms : Root(r) \in Topics /\ Self(r) \in Topics
  /\ \A r, q : Root(r) # Self(q)
  /\ \A r, q : Root(r) = Root(q) => r = q
  /\ \A r, q : Self(r) = Self(q) => r = q
  /\ \A t \in Topics : t.room \in Rooms /\ (t = Root(t.room) \/ t = Self(t.room))
BY DEF Root, Self, Topics

LEMMA InstanceRoom ==
  ASSUME NEW i \in Instances
  PROVE  i[1] \in Rooms /\ RootOf(i) \in Topics /\ SelfOf(i) \in Topics
BY TopicsDiffer DEF Instances, RootOf, SelfOf

(* Joins are numbered from 1 on. *)
LEMMA JoinNumbers ==
  \E N \in Nat : Instances = Rooms \X (1..N)
<1> DEFINE M == {MaxJoins[a] : a \in Adapters}
<1>1. M = {MaxJoins["nostr"], MaxJoins["ws"], MaxJoins["mqtt"]}
  BY DEF Adapters
<1>2. MaxJoins["nostr"] \in Nat /\ MaxJoins["ws"] \in Nat /\ MaxJoins["mqtt"] \in Nat
  BY JoinsAssumption DEF Adapters
<1> HIDE DEF M
<1>3. \E x \in M : \A y \in M : x >= y
  BY <1>1, <1>2
<1>4. Max(M) \in M
  BY <1>3 DEF Max
<1>5. Max(M) \in Nat
  BY <1>1, <1>2, <1>4
<1>6. Instances = Rooms \X (1..Max(M))
  BY DEF Instances, M
<1> QED
  BY <1>5, <1>6

LEMMA JoinedBefore ==
  ASSUME NEW i \in Instances
  PROVE  /\ i[1] \in Rooms /\ i[2] \in Nat \ {0} /\ i = <<i[1], i[2]>>
         /\ \A n \in 1..i[2] : <<i[1], n>> \in Instances
<1>1. PICK N \in Nat : Instances = Rooms \X (1..N)
  BY JoinNumbers
<1> QED
  BY <1>1

(* The values of a function on a finite set. *)
LEMMA FiniteImage ==
  ASSUME NEW A, IsFiniteSet(A), NEW f, DOMAIN f = A, NEW B, B = {f[x] : x \in A},
         f = [x \in A |-> f[x]]
  PROVE  IsFiniteSet(B)
<1>1. f \in [A -> B] /\ \A y \in B : \E x \in A : f[x] = y
  OBVIOUS
<1>2. f \in Surjection(A, B)
  BY <1>1 DEF Surjection
<1> QED
  BY <1>2, FS_Surjection

(* A set as a sequence. *)
LEMMA SetAsSequence ==
  ASSUME NEW S, IsFiniteSet(S)
  PROVE  /\ SetToSeq(S) \in Seq(S)
         /\ \A m, n \in 1..Len(SetToSeq(S)) : SetToSeq(S)[m] = SetToSeq(S)[n] => m = n
         /\ \A x \in S : \E n \in 1..Len(SetToSeq(S)) : SetToSeq(S)[n] = x
<1> DEFINE k == Cardinality(S)
           g == SetToSeq(S)
<1>1. k \in Nat /\ ExistsBijection(1..k, S)
  BY FS_CardinalityType
<1>2. PICK f \in Bijection(1..k, S) : TRUE
  BY <1>1 DEF ExistsBijection
<1>3. f \in [1..k -> S] /\ IsInjective(f)
  BY <1>2 DEF Bijection, Injection
<1>4. g \in [1..k -> S] /\ IsInjective(g)
  BY <1>3 DEF SetToSeq
<1>5. g \in Injection(1..k, S)
  BY <1>4 DEF IsInjective, Injection
<1>6. IsFiniteSet(1..k) /\ Cardinality(1..k) = k
  BY <1>1, FS_Interval
<1>7. g \in Surjection(1..k, S)
  BY <1>5, <1>6, FS_Injection
<1>8. \A x \in S : \E n \in 1..k : g[n] = x
  BY <1>7 DEF Surjection
<1>10. \A m, n \in 1..k : g[m] = g[n] => m = n
  BY <1>4 DEF IsInjective
<1> HIDE DEF g
<1>9. g \in Seq(S) /\ Len(g) = k
  BY <1>1, <1>4
<1> QED
  BY <1>8, <1>9, <1>10 DEF g

-----------------------------------------------------------------------------
(* What subscribing and unsubscribing do to the handlers. *)
Added(h, t, is) == [h EXCEPT ![t] = IF adapter = "ws" THEN h[t] \cup is ELSE is]
Removed(h, t, i) == [h EXCEPT ![t] = IF adapter = "nostr" THEN {} ELSE h[t] \ {i}]

LEMMA SubscribeHandlers ==
  ASSUME adapter \in Adapters, NEW h, NEW b, NEW r, NEW o, NEW t, NEW is
  PROVE  subscribeTopic([handlers |-> h, batch |-> b, refs |-> r, out |-> o], t, is).handlers
           = Added(h, t, is)
<1>1. CASE adapter = "nostr"
  BY <1>1 DEF subscribeTopic, batchAdd, Added
<1>2. CASE adapter = "ws"
  BY <1>2 DEF subscribeTopic, wsSubscribe, Added
<1>3. CASE adapter = "mqtt"
  BY <1>3 DEF subscribeTopic, mqttSubscribe, Added
<1> QED
  BY <1>1, <1>2, <1>3 DEF Adapters

ClientOf(h, b, r, o) == [handlers |-> h, batch |-> b, refs |-> r, out |-> o]

HasHandlers(c, h) == \E b, r, o : c = ClientOf(h, b, r, o)

LEMMA UnsubscribeHandlers ==
  ASSUME adapter \in Adapters, NEW h, NEW c, HasHandlers(c, h), NEW t, NEW i
  PROVE  HasHandlers(unsubscribeTopic(c, t, i), Removed(h, t, i))
<1>0. PICK b, r, o : c = [handlers |-> h, batch |-> b, refs |-> r, out |-> o]
  BY DEF HasHandlers, ClientOf
<1>1. CASE adapter = "nostr"
  <2> DEFINE rest == RemoveFirst(b.topics, t)
  <2>1. unsubscribeTopic(c, t, i) = batchRemove(c, t)
    BY <1>1 DEF unsubscribeTopic
  <2>2. CASE rest = <<>>
    BY <1>0, <1>1, <2>1, <2>2 DEF batchRemove, Removed, HasHandlers, ClientOf
  <2>3. CASE rest # <<>>
    BY <1>0, <1>1, <2>1, <2>3 DEF batchRemove, Removed, HasHandlers, ClientOf
  <2> QED
    BY <2>2, <2>3
<1>2. CASE adapter = "ws"
  <2>1. unsubscribeTopic(c, t, i) = wsUnsubscribe(c, t, i)
    BY <1>2 DEF unsubscribeTopic
  <2> QED
    BY <1>0, <1>2, <2>1 DEF wsUnsubscribe, Removed, HasHandlers, ClientOf
<1>3. CASE adapter = "mqtt"
  <2>1. unsubscribeTopic(c, t, i) = mqttUnsubscribe(c, t, i)
    BY <1>3 DEF unsubscribeTopic
  <2> QED
    BY <1>0, <1>3, <2>1 DEF mqttUnsubscribe, Removed, HasHandlers, ClientOf
<1> QED
  BY <1>1, <1>2, <1>3 DEF Adapters

(* The same of the steps that do. *)
LEMMA SubscribeStep ==
  ASSUME adapter \in Adapters, NEW t, NEW is,
         AdapterBecomes(subscribeTopic(Adapter, t, is))
  PROVE  handlers' = Added(handlers, t, is)
BY SubscribeHandlers DEF AdapterBecomes, Becomes, Adapter

LEMMA UnsubscribeStep ==
  ASSUME adapter \in Adapters, NEW t, NEW i,
         AdapterBecomes(unsubscribeTopic(Adapter, t, i))
  PROVE  handlers' = Removed(handlers, t, i)
<1>1. HasHandlers(Adapter, handlers)
  BY DEF HasHandlers, ClientOf, Adapter
<1>2. HasHandlers(unsubscribeTopic(Adapter, t, i), Removed(handlers, t, i))
  BY <1>1, UnsubscribeHandlers
<1> QED
  BY <1>2 DEF HasHandlers, ClientOf, AdapterBecomes, Becomes

LEMMA UnsubscribeBoth ==
  ASSUME adapter \in Adapters, NEW t, NEW u, NEW i,
         AdapterBecomes(unsubscribeTopic(unsubscribeTopic(Adapter, t, i), u, i))
  PROVE  handlers' = Removed(Removed(handlers, t, i), u, i)
<1>1. HasHandlers(Adapter, handlers)
  BY DEF HasHandlers, ClientOf, Adapter
<1>2. HasHandlers(unsubscribeTopic(Adapter, t, i), Removed(handlers, t, i))
  BY <1>1, UnsubscribeHandlers
<1>3. HasHandlers(unsubscribeTopic(unsubscribeTopic(Adapter, t, i), u, i),
                  Removed(Removed(handlers, t, i), u, i))
  BY <1>2, UnsubscribeHandlers
<1> QED
  BY <1>3 DEF HasHandlers, ClientOf, AdapterBecomes, Becomes

(* Flushing leaves them alone. *)
LEMMA FlushHandlers ==
  ASSUME NEW h, NEW b, NEW o
  PROVE  flushBatch([handlers |-> h, batch |-> b, out |-> o]).handlers = h
BY DEF flushBatch
-----------------------------------------------------------------------------
(* The types a subscription has. *)
LEMMA SubType ==
  ASSUME Typed, NEW i \in Instances
  PROVE  /\ sub[i].phase \in {"out", "waiting", "self", "root", "done", "gone"}
         /\ sub[i].left \in BOOLEAN /\ sub[i].held \in BOOLEAN /\ sub[i].awake \in BOOLEAN
         /\ sub[i].self \in {"no", "awaited", "had", "released"}
         /\ sub[i] \in SubStates
BY DEF Typed, SubStates

LEMMA AdapterType ==
  ASSUME Typed
  PROVE  adapter \in Adapters
BY AdaptersAssumption DEF Typed

(* One subscription changes. *)
LEMMA SubChange ==
  ASSUME Typed, NEW i \in Instances, NEW s \in SubStates, sub' = [sub EXCEPT ![i] = s]
  PROVE  /\ sub' \in [Instances -> SubStates] /\ sub'[i] = s
         /\ \A j \in Instances \ {i} : sub'[j] = sub[j]
BY DEF Typed

(* Who holds a topic then. *)
LEMMA HoldersChange ==
  ASSUME NEW i \in Instances, \A j \in Instances \ {i} : sub'[j] = sub[j]
  PROVE  /\ \A t \in Topics : t # RootOf(i) /\ t # SelfOf(i) => Holders(t)' = Holders(t)
         /\ (OnRoot(i)' <=> OnRoot(i)) => Holders(RootOf(i))' = Holders(RootOf(i))
         /\ (OnSelf(i)' <=> OnSelf(i)) => Holders(SelfOf(i))' = Holders(SelfOf(i))
         /\ OnRoot(i)' /\ ~OnRoot(i) =>
              i \notin Holders(RootOf(i))
                /\ Holders(RootOf(i))' = Holders(RootOf(i)) \cup {i}
         /\ OnSelf(i)' /\ ~OnSelf(i) =>
              i \notin Holders(SelfOf(i))
                /\ Holders(SelfOf(i))' = Holders(SelfOf(i)) \cup {i}
         /\ OnRoot(i) /\ ~OnRoot(i)' =>
              i \in Holders(RootOf(i))
                /\ Holders(RootOf(i))' = Holders(RootOf(i)) \ {i}
         /\ OnSelf(i) /\ ~OnSelf(i)' =>
              i \in Holders(SelfOf(i))
                /\ Holders(SelfOf(i))' = Holders(SelfOf(i)) \ {i}
<1>1. \A j \in Instances \ {i} : (OnRoot(j)' <=> OnRoot(j)) /\ (OnSelf(j)' <=> OnSelf(j))
  BY DEF OnRoot, OnSelf
<1>2. /\ RootOf(i).room = i[1] /\ RootOf(i).kind = "root"
      /\ SelfOf(i).room = i[1] /\ SelfOf(i).kind = "self"
      /\ \A t \in Topics : t # RootOf(i) /\ t # SelfOf(i) => t.room # i[1]
  BY DEF RootOf, SelfOf, Root, Self, Topics
<1> QED
  BY <1>1, <1>2 DEF Holders

(* Steps of the socket and of messages: no handler comes or goes. *)
LEMMA Silent ==
  ASSUME ListenInv, UNCHANGED <<adapter, passive, sub, handlers>>,
         didOpen' = didOpen \/ didOpen' = TRUE, sock' = "open" => didOpen',
         down' \in Seq(RootMessage)
  PROVE  ListenInv'
<1>1. Typed'
  BY DEF ListenInv, Typed
<1>2. \A i \in Instances : Stage(i)'
  BY DEF ListenInv, Stage, OnRoot
<1>3. \A i, j \in Instances : Turn(i, j)'
  BY DEF ListenInv, Turn
<1>4. \A t \in Topics : Held(t)'
  BY DEF ListenInv, Held, Holders, OnRoot, OnSelf
<1> QED
  BY <1>1, <1>2, <1>3, <1>4 DEF ListenInv

(* Steps in which one subscription moves on. *)
LEMMA MovesOn ==
  ASSUME ListenInv, NEW i \in Instances, NEW s \in SubStates,
         sub' = [sub EXCEPT ![i] = s],
         UNCHANGED <<adapter, passive, down, sock, didOpen>>,
         handlers' \in [Topics -> SUBSET Instances],
         Stage(i)', \A j \in Instances : Turn(i, j)' /\ Turn(j, i)',
         \A t \in Topics : Held(t)'
  PROVE  ListenInv'
<1>1. /\ sub' \in [Instances -> SubStates] /\ sub'[i] = s
      /\ \A j \in Instances \ {i} : sub'[j] = sub[j]
  BY SubChange DEF ListenInv
<1>2. Typed'
  BY <1>1 DEF ListenInv, Typed
<1>3. \A j \in Instances : Stage(j)'
  BY <1>1 DEF ListenInv, Stage, OnRoot
<1>4. \A j, k \in Instances : Turn(j, k)'
  BY <1>1 DEF ListenInv, Turn
<1> QED
  BY <1>2, <1>3, <1>4 DEF ListenInv

(* It has the handlers that it had. *)
LEMMA KeepsHandlers ==
  ASSUME ListenInv, NEW i \in Instances, NEW s \in SubStates,
         sub' = [sub EXCEPT ![i] = s],
         UNCHANGED <<adapter, passive, handlers, down, sock, didOpen>>,
         Stage(i)', \A j \in Instances : Turn(i, j)' /\ Turn(j, i)',
         OnRoot(i)' <=> OnRoot(i), OnSelf(i)' <=> OnSelf(i),
         sub[i].left => s.left
  PROVE  ListenInv'
<1>1. /\ sub' \in [Instances -> SubStates] /\ sub'[i] = s
      /\ \A j \in Instances \ {i} : sub'[j] = sub[j]
  BY SubChange DEF ListenInv
<1>2. \A t \in Topics : Holders(t)' = Holders(t)
  BY <1>1, HoldersChange
<1>3. \A j \in Instances : ~sub'[j].left => ~sub[j].left
  BY <1>1
<1>4. \A t \in Topics : Holders(t) \subseteq Instances
  BY DEF Holders
<1>5. \A t \in Topics : Held(t)'
  BY <1>2, <1>3, <1>4 DEF ListenInv, Held
<1> QED
  BY <1>5, MovesOn DEF ListenInv, Typed

(* It subscribes to a topic: whoever else holds that has left. *)
LEMMA Subscribes ==
  ASSUME ListenInv, NEW t \in Topics, NEW is \in SUBSET Instances,
         handlers' = Added(handlers, t, is), UNCHANGED adapter,
         \A j \in Instances : sub'[j].left = sub[j].left,
         Holders(t)' = Holders(t) \cup is,
         \A u \in Topics \ {t} : Holders(u)' = Holders(u),
         adapter # "ws" =>
           (\A i, j \in is : i = j) /\ (\A j \in Holders(t) : sub[j].left \/ j \in is)
  PROVE  handlers' \in [Topics -> SUBSET Instances] /\ \A u \in Topics : Held(u)'
<1>1. handlers \in [Topics -> SUBSET Instances]
  BY DEF ListenInv, Typed
<1>2. handlers' \in [Topics -> SUBSET Instances]
  BY <1>1 DEF Added
<1>3. /\ adapter = "ws" => handlers'[t] = handlers[t] \cup is
      /\ adapter # "ws" => handlers'[t] = is
      /\ \A u \in Topics \ {t} : handlers'[u] = handlers[u]
  BY <1>1 DEF Added
<1>4. \A u \in Topics : Held(u) /\ Holders(u) \subseteq Instances
  BY DEF ListenInv, Holders
<1>5. Held(t)'
  <2>1. CASE adapter = "ws"
    BY <1>3, <1>4, <2>1 DEF Held
  <2>2. CASE adapter # "ws"
    BY <1>3, <1>4, <2>2 DEF Held
  <2> QED
    BY <2>1, <2>2
<1>6. \A u \in Topics \ {t} : Held(u)'
  BY <1>3, <1>4 DEF Held
<1> QED
  BY <1>2, <1>5, <1>6

LEMMA JoinListens ==
  ASSUME ListenInv, NEW i \in Instances, joinRoom(i)
  PROVE  ListenInv'
<1> DEFINE s == [sub[i] EXCEPT !.phase = "waiting"]
<1>1. /\ i[2] <= MaxJoins[adapter] /\ sub[i].phase = "out"
      /\ i[2] > 1 => sub[<<i[1], i[2] - 1>>].left
      /\ sub' = [sub EXCEPT ![i] = s]
      /\ UNCHANGED <<adapter, passive, handlers, down, sock, didOpen>>
  BY DEF joinRoom, clientVars, socketVars
<1>2. sub[i] \in SubStates /\ s \in SubStates
  BY SubType DEF ListenInv, SubStates
<1>3. /\ s.phase = "waiting" /\ s.left = sub[i].left /\ s.self = sub[i].self
      /\ s.awake = sub[i].awake
  BY <1>2 DEF SubStates
<1> HIDE DEF s
<1>4. sub'[i] = s /\ \A j \in Instances \ {i} : sub'[j] = sub[j]
  BY <1>1, <1>2, SubChange DEF ListenInv
<1>5. Stage(i)'
  BY <1>1, <1>3, <1>4 DEF ListenInv, Stage, OnRoot
<1>6. ASSUME NEW j \in Instances
      PROVE  Turn(i, j)' /\ Turn(j, i)'
  <2>1. ASSUME i[1] = j[1], j[2] < i[2]
        PROVE  sub[j].left /\ j # i
    <3>1. i[1] \in Rooms /\ i[2] \in Nat /\ j[2] \in Nat /\ j[2] >= 1
          /\ i = <<i[1], i[2]>> /\ j = <<j[1], j[2]>>
      BY JoinedBefore
    <3> DEFINE k == <<i[1], i[2] - 1>>
    <3>2. k \in Instances /\ k[1] = i[1] /\ k[2] = i[2] - 1
      BY <2>1, <3>1, JoinedBefore
    <3>3. sub[k].left
      BY <1>1, <2>1, <3>1
    <3>4. sub[k].phase # "out"
      BY <3>2, <3>3 DEF ListenInv, Stage
    <3> HIDE DEF k
    <3>5. CASE j[2] = i[2] - 1
      BY <2>1, <3>1, <3>3, <3>5 DEF k
    <3>6. CASE j[2] < i[2] - 1
      BY <2>1, <3>1, <3>2, <3>4, <3>6 DEF ListenInv, Turn
    <3> QED
      BY <2>1, <3>1, <3>5, <3>6
  <2>2. Turn(i, j)'
    BY <1>3, <1>4, <2>1 DEF Turn
  <2>3. Turn(j, i)'
    <3>1. Turn(j, i) /\ (sub[i].phase = "out" => ~sub[i].left)
      BY DEF ListenInv, Stage
    <3>2. i[2] \in Nat
      BY JoinedBefore
    <3>3. CASE j = i
      BY <3>2, <3>3 DEF Turn
    <3>4. CASE j # i
      BY <1>1, <1>3, <1>4, <3>1, <3>4 DEF Turn
    <3> QED
      BY <3>3, <3>4
  <2> QED
    BY <2>2, <2>3
<1> QED
  BY <1>1, <1>2, <1>3, <1>4, <1>5, <1>6, KeepsHandlers DEF OnRoot, OnSelf

LEMMA SubscribedListens ==
  ASSUME ListenInv, NEW i \in Instances, subscribed(i)
  PROVE  ListenInv'
<1> DEFINE s == [sub[i] EXCEPT !.phase = "done"]
<1>1. /\ sub[i].phase = "root" /\ sub' = [sub EXCEPT ![i] = s]
      /\ UNCHANGED <<adapter, passive, handlers, down, sock, didOpen>>
  BY DEF subscribed, clientVars, socketVars
<1>2. sub[i] \in SubStates /\ s \in SubStates
  BY SubType DEF ListenInv, SubStates
<1>3. /\ s.phase = "done" /\ s.left = sub[i].left /\ s.self = sub[i].self
      /\ s.awake = sub[i].awake
  BY <1>2 DEF SubStates
<1> HIDE DEF s
<1>4. sub'[i] = s /\ \A j \in Instances \ {i} : sub'[j] = sub[j]
  BY <1>1, <1>2, SubChange DEF ListenInv
<1>5. Stage(i)'
  BY <1>1, <1>3, <1>4 DEF ListenInv, Stage, OnRoot
<1>6. \A j \in Instances : Turn(i, j)' /\ Turn(j, i)'
  BY <1>1, <1>3, <1>4 DEF ListenInv, Turn
<1> QED
  BY <1>1, <1>2, <1>3, <1>4, <1>5, <1>6, KeepsHandlers DEF OnRoot, OnSelf

LEMMA LeaveListens ==
  ASSUME ListenInv, NEW i \in Instances, leave(i)
  PROVE  ListenInv'
<1> DEFINE s == [sub[i] EXCEPT !.left = TRUE]
<1>1. /\ sub[i].phase # "out" /\ sub' = [sub EXCEPT ![i] = s]
      /\ UNCHANGED <<adapter, passive, handlers, down, sock, didOpen>>
  BY DEF leave, clientVars, socketVars
<1>2. sub[i] \in SubStates /\ s \in SubStates
  BY SubType DEF ListenInv, SubStates
<1>3. /\ s.phase = sub[i].phase /\ s.left = TRUE /\ s.self = sub[i].self
      /\ s.awake = sub[i].awake
  BY <1>2 DEF SubStates
<1> HIDE DEF s
<1>4. sub'[i] = s /\ \A j \in Instances \ {i} : sub'[j] = sub[j]
  BY <1>1, <1>2, SubChange DEF ListenInv
<1>5. Stage(i)'
  BY <1>1, <1>3, <1>4 DEF ListenInv, Stage, OnRoot
<1>6. \A j \in Instances : Turn(i, j)' /\ Turn(j, i)'
  BY <1>1, <1>3, <1>4 DEF ListenInv, Turn
<1> QED
  BY <1>1, <1>2, <1>3, <1>4, <1>5, <1>6, KeepsHandlers DEF OnRoot, OnSelf

LEMMA WakeListens ==
  ASSUME ListenInv, NEW i \in Instances, wake(i)
  PROVE  ListenInv'
<1> DEFINE s == [sub[i] EXCEPT !.held = FALSE,
                               !.awake = @ \/ sub[i].phase # "gone"]
<1>1. /\ sub[i].self \in {"had", "released"} /\ sub' = [sub EXCEPT ![i] = s]
      /\ UNCHANGED <<adapter, passive, handlers, down, sock, didOpen>>
  BY DEF wake, clientVars, socketVars
<1>2. sub[i] \in SubStates /\ s \in SubStates
  BY SubType DEF ListenInv, SubStates
<1>3. /\ s.phase = sub[i].phase /\ s.left = sub[i].left /\ s.self = sub[i].self
  BY <1>2 DEF SubStates
<1> HIDE DEF s
<1>4. sub'[i] = s /\ \A j \in Instances \ {i} : sub'[j] = sub[j]
  BY <1>1, <1>2, SubChange DEF ListenInv
<1>5. Stage(i)'
  BY <1>1, <1>3, <1>4 DEF ListenInv, Stage, OnRoot
<1>6. \A j \in Instances : Turn(i, j)' /\ Turn(j, i)'
  BY <1>1, <1>3, <1>4 DEF ListenInv, Turn
<1> QED
  BY <1>1, <1>2, <1>3, <1>4, <1>5, <1>6, KeepsHandlers DEF OnRoot, OnSelf

(* Who holds a topic is past what waits for the relay. *)
LEMMA HolderStage ==
  ASSUME ListenInv, NEW t \in Topics, NEW j \in Holders(t)
  PROVE  j \in Instances /\ j[1] = t.room /\ sub[j].phase \notin {"out", "waiting"}
<1>1. j \in Instances /\ j[1] = t.room /\ (OnRoot(j) \/ OnSelf(j))
  BY DEF Holders
<1> QED
  BY <1>1 DEF ListenInv, Stage, OnRoot, OnSelf

(* Of joins of one room that hold a topic, an earlier one has left. *)
LEMMA OthersLeft ==
  ASSUME ListenInv, NEW i \in Instances, NEW t \in Topics, t.room = i[1],
         NEW j \in Holders(t), sub[i].phase # "out",
         i[2] < j[2] => FALSE
  PROVE  sub[j].left \/ j = i
<1>1. j \in Instances /\ j[1] = i[1]
  BY HolderStage
<1>2. /\ i[2] \in Nat /\ j[2] \in Nat
      /\ i = <<i[1], i[2]>> /\ j = <<j[1], j[2]>>
  BY <1>1, JoinedBefore
<1>3. CASE j[2] < i[2]
  BY <1>1, <1>3 DEF ListenInv, Turn
<1>4. CASE j[2] = i[2]
  BY <1>1, <1>2, <1>4
<1> QED
  BY <1>2, <1>3, <1>4

(* On Nostr, where a room is joined once, nobody else holds its topics. *)
LEMMA NostrOnce ==
  ASSUME ListenInv, MaxJoins["nostr"] <= 1, adapter = "nostr",
         NEW i \in Instances, sub[i].phase # "out", NEW t \in Topics, t.room = i[1]
  PROVE  Holders(t) \subseteq {i}
<1>1. MaxJoins["nostr"] \in Nat
  BY JoinsAssumption DEF Adapters
<1>2. SUFFICES ASSUME NEW j \in Holders(t)
               PROVE  j = i
  OBVIOUS
<1>3. j \in Instances /\ j[1] = i[1] /\ sub[j].phase # "out"
  BY HolderStage
<1>4. /\ i[2] \in Nat \ {0} /\ j[2] \in Nat \ {0}
      /\ i = <<i[1], i[2]>> /\ j = <<j[1], j[2]>>
  BY <1>3, JoinedBefore
<1>5. i[2] <= MaxJoins["nostr"] /\ j[2] <= MaxJoins["nostr"]
  BY <1>3 DEF ListenInv, Stage
<1>6. i[2] = 1 /\ j[2] = 1
  BY <1>1, <1>4, <1>5
<1> QED
  BY <1>3, <1>4, <1>6

LEMMA StartListens ==
  ASSUME ListenInv, NEW i \in Instances, startSubscribe(i)
  PROVE  ListenInv'
<1> DEFINE p == passive[i[1]]
           s == IF p THEN [sub[i] EXCEPT !.phase = "root"]
                     ELSE [sub[i] EXCEPT !.phase = "self", !.self = "awaited"]
<1>0. PICK t : t = IF p THEN RootOf(i) ELSE SelfOf(i)
  OBVIOUS
<1>1. /\ sub[i].phase = "waiting" /\ InTurn(i) /\ didOpen
      /\ AdapterBecomes(subscribeTopic(Adapter, t, {i}))
      /\ UNCHANGED <<adapter, passive, down, sock, didOpen>>
  BY <1>0 DEF startSubscribe, socketVars
<1>2. sub' = [sub EXCEPT ![i] = s]
  <2>1. CASE p
    BY <2>1 DEF startSubscribe
  <2>2. CASE ~p
    BY <2>2 DEF startSubscribe
  <2> QED
    BY <2>1, <2>2
<1>3. handlers' = Added(handlers, t, {i})
  BY <1>1, SubscribeStep, AdapterType DEF ListenInv
<1>4. sub[i] \in SubStates /\ s \in SubStates
  BY SubType DEF ListenInv, SubStates
<1>5. /\ s.left = sub[i].left /\ s.awake = sub[i].awake
      /\ p => s.phase = "root" /\ s.self = sub[i].self
      /\ ~p => s.phase = "self" /\ s.self = "awaited"
  BY <1>4 DEF SubStates
<1>6. sub[i].self = "no" /\ ~sub[i].awake
  BY <1>1 DEF ListenInv, Stage
<1>7. t \in Topics /\ t.room = i[1] /\ RootOf(i) # SelfOf(i)
  BY <1>0, InstanceRoom, TopicsDiffer DEF RootOf, SelfOf, Root, Self
<1>8. p = passive[i[1]] /\ (p => t = RootOf(i)) /\ (~p => t = SelfOf(i))
  BY <1>0
<1> HIDE DEF s, p
<1>9. sub'[i] = s /\ \A j \in Instances \ {i} : sub'[j] = sub[j]
  BY <1>2, <1>4, SubChange DEF ListenInv
<1>10. Stage(i)'
  BY <1>1, <1>5, <1>6, <1>8, <1>9 DEF ListenInv, Stage, OnRoot
<1>11. ASSUME NEW j \in Instances
       PROVE  Turn(i, j)' /\ Turn(j, i)'
  <2>1. ASSUME i[1] = j[1], j[2] < i[2]
        PROVE  sub[j].phase \notin {"out", "waiting"} /\ (p => sub[j].phase # "self")
    <3>1. j[2] \in 1..(i[2] - 1) /\ j = <<i[1], j[2]>>
      BY <2>1, JoinedBefore
    <3>2. sub[j].phase # "waiting"
      BY <1>1, <3>1 DEF InTurn
    <3>3. sub[j].left
      BY <1>1, <2>1 DEF ListenInv, Turn
    <3>4. sub[j].phase # "out"
      BY <3>3 DEF ListenInv, Stage
    <3>5. p => sub[j].phase # "self"
      BY <1>8, <2>1 DEF ListenInv, Stage
    <3> QED
      BY <3>2, <3>4, <3>5
  <2>2. i[2] \in Nat
    BY JoinedBefore
  <2>3. Turn(i, j)'
    BY <1>1, <1>5, <1>9, <2>1, <2>2 DEF ListenInv, Turn
  <2>4. Turn(j, i)'
    BY <1>1, <1>5, <1>9, <2>2 DEF ListenInv, Turn
  <2> QED
    BY <2>3, <2>4
<1>12. /\ Holders(t)' = Holders(t) \cup {i}
       /\ \A u \in Topics \ {t} : Holders(u)' = Holders(u)
  <2>1. p => OnRoot(i)' /\ ~OnRoot(i) /\ (OnSelf(i)' <=> OnSelf(i))
    BY <1>1, <1>5, <1>9 DEF OnRoot, OnSelf
  <2>2. ~p => OnSelf(i)' /\ ~OnSelf(i) /\ (OnRoot(i)' <=> OnRoot(i))
    BY <1>1, <1>5, <1>6, <1>9 DEF OnRoot, OnSelf
  <2> QED
    <3>1. CASE p
      BY <1>7, <1>8, <1>9, <2>1, <3>1, HoldersChange
    <3>2. CASE ~p
      BY <1>7, <1>8, <1>9, <2>2, <3>2, HoldersChange
    <3> QED
      BY <3>1, <3>2
<1>13. \A j \in Holders(t) : sub[j].left \/ j \in {i}
  <2>1. SUFFICES ASSUME NEW j \in Holders(t)
                 PROVE  sub[j].left \/ j = i
    OBVIOUS
  <2>2. j \in Instances /\ j[1] = i[1] /\ sub[j].phase \notin {"out", "waiting"}
    BY <1>7, HolderStage
  <2>3. ~(i[2] < j[2])
    BY <1>1, <2>2 DEF ListenInv, Turn
  <2> QED
    BY <1>1, <1>7, <2>3, OthersLeft
<1>14. \A j \in Instances : sub'[j].left = sub[j].left
  BY <1>5, <1>9
<1>15. handlers' \in [Topics -> SUBSET Instances] /\ \A u \in Topics : Held(u)'
  <2>1. t \in Topics /\ UNCHANGED adapter /\ {i} \in SUBSET Instances
    BY <1>1, <1>7
  <2>2. adapter # "ws" =>
          (\A k, j \in {i} : k = j) /\ (\A j \in Holders(t) : sub[j].left \/ j \in {i})
    BY <1>13
  <2> QED
    BY <1>3, <1>12, <1>14, <2>1, <2>2, Subscribes
<1> QED
  BY <1>1, <1>2, <1>4, <1>10, <1>11, <1>15, MovesOn

LEMMA RootListens ==
  ASSUME ListenInv, NEW i \in Instances, subscribeRoot(i)
  PROVE  ListenInv'
<1> DEFINE t == RootOf(i)
           s == [sub[i] EXCEPT !.phase = "root"]
<1>1. /\ sub[i].phase = "self" /\ sub[i].self = "had" /\ InTurn(i)
      /\ AdapterBecomes(subscribeTopic(Adapter, t, {i}))
      /\ sub' = [sub EXCEPT ![i] = s]
      /\ UNCHANGED <<adapter, passive, down, sock, didOpen>>
  BY DEF subscribeRoot, socketVars
<1>3. handlers' = Added(handlers, t, {i})
  BY <1>1, SubscribeStep, AdapterType DEF ListenInv
<1>4. sub[i] \in SubStates /\ s \in SubStates
  BY SubType DEF ListenInv, SubStates
<1>5. /\ s.left = sub[i].left /\ s.awake = sub[i].awake
      /\ s.phase = "root" /\ s.self = sub[i].self
  BY <1>4 DEF SubStates
<1>7. t \in Topics /\ t.room = i[1] /\ t.kind = "root" /\ t # SelfOf(i)
  BY InstanceRoom, TopicsDiffer DEF RootOf, SelfOf, Root, Self
<1> HIDE DEF s
<1>9. sub'[i] = s /\ \A j \in Instances \ {i} : sub'[j] = sub[j]
  BY <1>1, <1>4, SubChange DEF ListenInv
<1>10. Stage(i)'
  BY <1>1, <1>5, <1>9 DEF ListenInv, Stage, OnRoot
<1>11. ASSUME NEW j \in Instances
       PROVE  Turn(i, j)' /\ Turn(j, i)'
  <2>1. ASSUME i[1] = j[1], j[2] < i[2]
        PROVE  sub[j].phase # "self"
    <3>1. j[2] \in 1..(i[2] - 1) /\ j = <<i[1], j[2]>>
      BY <2>1, JoinedBefore
    <3> QED
      BY <1>1, <3>1 DEF InTurn
  <2>2. i[2] \in Nat
    BY JoinedBefore
  <2>3. Turn(i, j)'
    BY <1>1, <1>5, <1>9, <2>1, <2>2 DEF ListenInv, Turn
  <2>4. Turn(j, i)'
    BY <1>1, <1>5, <1>9, <2>2 DEF ListenInv, Turn
  <2> QED
    BY <2>3, <2>4
<1>12. /\ Holders(t)' = Holders(t) \cup {i}
       /\ \A u \in Topics \ {t} : Holders(u)' = Holders(u)
  <2>1. OnRoot(i)' /\ ~OnRoot(i) /\ (OnSelf(i)' <=> OnSelf(i))
    BY <1>1, <1>5, <1>9 DEF OnRoot, OnSelf
  <2> QED
    BY <1>7, <1>9, <2>1, HoldersChange
<1>13. \A j \in Holders(t) : sub[j].left \/ j \in {i}
  <2>1. SUFFICES ASSUME NEW j \in Holders(t)
                 PROVE  sub[j].left \/ j = i
    OBVIOUS
  <2>2. j \in Instances /\ j[1] = i[1] /\ OnRoot(j)
    BY <1>7 DEF Holders
  <2>3. ~(i[2] < j[2])
    BY <1>1, <2>2 DEF ListenInv, Turn, OnRoot
  <2> QED
    BY <1>1, <1>7, <2>3, OthersLeft
<1>14. \A j \in Instances : sub'[j].left = sub[j].left
  BY <1>5, <1>9
<1>15. handlers' \in [Topics -> SUBSET Instances] /\ \A u \in Topics : Held(u)'
  <2>1. t \in Topics /\ UNCHANGED adapter /\ {i} \in SUBSET Instances
    BY <1>1, <1>7
  <2>2. adapter # "ws" =>
          (\A k, j \in {i} : k = j) /\ (\A j \in Holders(t) : sub[j].left \/ j \in {i})
    BY <1>13
  <2> QED
    BY <1>3, <1>12, <1>14, <2>1, <2>2, Subscribes
<1> QED
  BY <1>1, <1>4, <1>10, <1>11, <1>15, MovesOn

(* One that has left unsubscribes; on Nostr nobody else holds the topic. *)
LEMMA Unsubscribes ==
  ASSUME ListenInv, adapter = "nostr" => MaxJoins["nostr"] <= 1,
         NEW i \in Instances, NEW t \in Topics,
         t.room = i[1], sub[i].left, UNCHANGED adapter,
         NEW h \in [Topics -> SUBSET Instances], h[t] = handlers[t],
         \A j \in Instances : sub'[j].left = sub[j].left,
         Holders(t)' = Holders(t) \ {i}
  PROVE  /\ Removed(h, t, i) \in [Topics -> SUBSET Instances]
         /\ \A u \in Topics \ {t} : Removed(h, t, i)[u] = h[u]
         /\ handlers'[t] = Removed(h, t, i)[t] => Held(t)'
<1>1. /\ Removed(h, t, i) \in [Topics -> SUBSET Instances]
      /\ \A u \in Topics \ {t} : Removed(h, t, i)[u] = h[u]
      /\ adapter = "nostr" => Removed(h, t, i)[t] = {}
      /\ adapter # "nostr" => Removed(h, t, i)[t] = h[t] \ {i}
  BY DEF Removed
<1>2. Held(t) /\ Holders(t) \subseteq Instances
  BY DEF ListenInv, Holders
<1>3. sub[i].phase # "out"
  BY DEF ListenInv, Stage
<1>4. ASSUME handlers'[t] = Removed(h, t, i)[t]
      PROVE  Held(t)'
  <2>1. CASE adapter = "nostr"
    <3>1. Holders(t)' = {}
      BY <1>3, <2>1, NostrOnce
    <3> QED
      BY <1>1, <1>4, <2>1, <3>1 DEF Held
  <2>2. CASE adapter # "nostr"
    BY <1>1, <1>2, <1>4, <2>2 DEF Held
  <2> QED
    BY <2>1, <2>2
<1> QED
  BY <1>1, <1>4

LEMMA SelfListens ==
  ASSUME ListenInv, adapter = "nostr" => MaxJoins["nostr"] <= 1,
         NEW i \in Instances, selfSubscribed(i)
  PROVE  ListenInv'
<1>1. /\ sub[i].self = "awaited" /\ sub[i] \in SubStates
      /\ UNCHANGED <<adapter, passive, down, sock, didOpen>>
  BY SubType DEF selfSubscribed, socketVars, ListenInv
<1>2. CASE sub[i].phase # "gone"
  <2> DEFINE s == [sub[i] EXCEPT !.self = "had"]
  <2>1. sub' = [sub EXCEPT ![i] = s] /\ UNCHANGED handlers
    BY <1>2 DEF selfSubscribed, clientVars
  <2>2. /\ s \in SubStates /\ s.phase = sub[i].phase /\ s.left = sub[i].left
        /\ s.self = "had" /\ s.awake = sub[i].awake
    BY <1>1 DEF SubStates
  <2> HIDE DEF s
  <2>3. sub'[i] = s /\ \A j \in Instances \ {i} : sub'[j] = sub[j]
    BY <2>1, <2>2, SubChange DEF ListenInv
  <2>4. Stage(i)'
    BY <1>1, <2>2, <2>3 DEF ListenInv, Stage, OnRoot
  <2>5. \A j \in Instances : Turn(i, j)' /\ Turn(j, i)'
    BY <1>1, <2>2, <2>3 DEF ListenInv, Turn
  <2>6. (OnRoot(i)' <=> OnRoot(i)) /\ (OnSelf(i)' <=> OnSelf(i))
    BY <1>1, <2>2, <2>3 DEF OnRoot, OnSelf
  <2> QED
    BY <1>1, <2>1, <2>2, <2>4, <2>5, <2>6, KeepsHandlers
<1>3. CASE sub[i].phase = "gone"
  <2> DEFINE s == [sub[i] EXCEPT !.self = "released"]
             t == SelfOf(i)
  <2>1. sub' = [sub EXCEPT ![i] = s] /\ AdapterBecomes(unsubscribeTopic(Adapter, t, i))
    BY <1>3 DEF selfSubscribed
  <2>2. /\ s \in SubStates /\ s.phase = sub[i].phase /\ s.left = sub[i].left
        /\ s.self = "released" /\ s.awake = sub[i].awake
    BY <1>1 DEF SubStates
  <2> HIDE DEF s
  <2>3. sub'[i] = s /\ \A j \in Instances \ {i} : sub'[j] = sub[j]
    BY <2>1, <2>2, SubChange DEF ListenInv
  <2>4. Stage(i)'
    BY <1>1, <1>3, <2>2, <2>3 DEF ListenInv, Stage, OnRoot
  <2>5. \A j \in Instances : Turn(i, j)' /\ Turn(j, i)'
    BY <1>1, <2>2, <2>3 DEF ListenInv, Turn
  <2>6. (OnRoot(i)' <=> OnRoot(i)) /\ OnSelf(i) /\ ~OnSelf(i)'
    BY <1>1, <2>2, <2>3 DEF OnRoot, OnSelf
  <2>7. t \in Topics /\ t.room = i[1] /\ t # RootOf(i)
    BY InstanceRoom, TopicsDiffer DEF RootOf, SelfOf, Root, Self
  <2>8. /\ Holders(t)' = Holders(t) \ {i}
        /\ \A u \in Topics \ {t} : Holders(u)' = Holders(u)
    BY <2>3, <2>6, <2>7, HoldersChange
  <2>9. handlers' = Removed(handlers, t, i)
    BY <2>1, UnsubscribeStep, AdapterType DEF ListenInv
  <2>10. \A j \in Instances : sub'[j].left = sub[j].left
    BY <2>2, <2>3
  <2>11. sub[i].left /\ handlers \in [Topics -> SUBSET Instances] /\ UNCHANGED adapter
    BY <1>1, <1>3 DEF ListenInv, Stage, Typed
  <2>12. /\ handlers' \in [Topics -> SUBSET Instances]
         /\ \A u \in Topics \ {t} : handlers'[u] = handlers[u]
         /\ Held(t)'
    BY <2>7, <2>8, <2>9, <2>10, <2>11, Unsubscribes
  <2>13. \A u \in Topics \ {t} : Held(u)'
    <3>1. \A u \in Topics : Held(u) /\ Holders(u) \subseteq Instances
      BY DEF ListenInv, Holders
    <3> QED
      BY <2>8, <2>10, <2>11, <2>12, <3>1 DEF Held
  <2> QED
    BY <1>1, <2>1, <2>2, <2>4, <2>5, <2>12, <2>13, MovesOn
<1> QED
  BY <1>2, <1>3

LEMMA CleanupListens ==
  ASSUME ListenInv, adapter = "nostr" => MaxJoins["nostr"] <= 1,
         NEW i \in Instances, cleanupSubscription(i)
  PROVE  ListenInv'
<1> DEFINE had == sub[i].self = "had"
           s == IF had THEN [sub[i] EXCEPT !.phase = "gone", !.self = "released"]
                       ELSE [sub[i] EXCEPT !.phase = "gone"]
<1>1. /\ sub[i].phase = "done" /\ sub[i].left /\ sub[i] \in SubStates
      /\ UNCHANGED <<adapter, passive, down, sock, didOpen>>
  BY SubType DEF cleanupSubscription, socketVars, ListenInv
<1>2. sub' = [sub EXCEPT ![i] = s]
  <2>1. CASE had
    BY <2>1 DEF cleanupSubscription
  <2>2. CASE ~had
    BY <2>2 DEF cleanupSubscription
  <2> QED
    BY <2>1, <2>2
<1>3. /\ s \in SubStates /\ s.phase = "gone" /\ s.left = sub[i].left
      /\ s.awake = sub[i].awake
      /\ s.self = IF had THEN "released" ELSE sub[i].self
  BY <1>1 DEF SubStates
<1>4. /\ RootOf(i) \in Topics /\ RootOf(i).room = i[1]
      /\ SelfOf(i) \in Topics /\ SelfOf(i).room = i[1] /\ SelfOf(i) # RootOf(i)
  BY InstanceRoom, TopicsDiffer DEF RootOf, SelfOf, Root, Self
<1> HIDE DEF s
<1>5. sub'[i] = s /\ \A j \in Instances \ {i} : sub'[j] = sub[j]
  BY <1>2, <1>3, SubChange DEF ListenInv
<1>6. Stage(i)'
  BY <1>1, <1>3, <1>5 DEF ListenInv, Stage, OnRoot
<1>7. \A j \in Instances : Turn(i, j)' /\ Turn(j, i)'
  BY <1>1, <1>3, <1>5 DEF ListenInv, Turn
<1>8. /\ OnRoot(i) /\ ~OnRoot(i)'
      /\ had => OnSelf(i) /\ ~OnSelf(i)'
      /\ ~had => (OnSelf(i)' <=> OnSelf(i))
  BY <1>1, <1>3, <1>5 DEF OnRoot, OnSelf
<1>9. /\ Holders(RootOf(i))' = Holders(RootOf(i)) \ {i}
      /\ had => Holders(SelfOf(i))' = Holders(SelfOf(i)) \ {i}
      /\ ~had => Holders(SelfOf(i))' = Holders(SelfOf(i))
      /\ \A u \in Topics \ {RootOf(i), SelfOf(i)} : Holders(u)' = Holders(u)
  BY <1>5, <1>8, HoldersChange
<1>10. \A j \in Instances : sub'[j].left = sub[j].left
  BY <1>3, <1>5
<1>11. handlers \in [Topics -> SUBSET Instances] /\ UNCHANGED adapter
  BY <1>1 DEF ListenInv, Typed
<1>12. \A u \in Topics : Held(u) /\ Holders(u) \subseteq Instances
  BY DEF ListenInv, Holders
<1>13. CASE had
  <2> DEFINE h == Removed(handlers, SelfOf(i), i)
  <2>1. handlers' = Removed(h, RootOf(i), i)
    <3>1. AdapterBecomes(unsubscribeTopic(unsubscribeTopic(Adapter, SelfOf(i), i),
                                          RootOf(i), i))
      BY <1>13 DEF cleanupSubscription
    <3> QED
      BY <3>1, UnsubscribeBoth, AdapterType DEF ListenInv
  <2>2. /\ h \in [Topics -> SUBSET Instances]
        /\ \A u \in Topics \ {SelfOf(i)} : h[u] = handlers[u]
        /\ handlers'[SelfOf(i)] = h[SelfOf(i)] => Held(SelfOf(i))'
    BY <1>1, <1>4, <1>9, <1>10, <1>11, <1>13, Unsubscribes
  <2> HIDE DEF h
  <2>3. /\ handlers' \in [Topics -> SUBSET Instances]
        /\ \A u \in Topics \ {RootOf(i)} : handlers'[u] = h[u]
        /\ Held(RootOf(i))'
    BY <1>1, <1>4, <1>9, <1>10, <1>11, <2>1, <2>2, Unsubscribes
  <2>4. \A u \in Topics \ {RootOf(i), SelfOf(i)} : Held(u)'
    BY <1>9, <1>10, <1>11, <1>12, <2>2, <2>3 DEF Held
  <2>5. Held(SelfOf(i))'
    BY <1>4, <2>2, <2>3
  <2> QED
    BY <1>1, <1>2, <1>3, <1>6, <1>7, <2>3, <2>4, <2>5, MovesOn
<1>14. CASE ~had
  <2>1. handlers' = Removed(handlers, RootOf(i), i)
    <3>1. AdapterBecomes(unsubscribeTopic(Adapter, RootOf(i), i))
      BY <1>14 DEF cleanupSubscription
    <3> QED
      BY <3>1, UnsubscribeStep, AdapterType DEF ListenInv
  <2>2. /\ handlers' \in [Topics -> SUBSET Instances]
        /\ \A u \in Topics \ {RootOf(i)} : handlers'[u] = handlers[u]
        /\ Held(RootOf(i))'
    BY <1>1, <1>4, <1>9, <1>10, <1>11, <2>1, Unsubscribes
  <2>3. \A u \in Topics \ {RootOf(i)} : Holders(u)' = Holders(u)
    BY <1>9, <1>14
  <2>4. \A u \in Topics \ {RootOf(i)} : Held(u)'
    BY <1>10, <1>11, <1>12, <2>2, <2>3 DEF Held
  <2> QED
    BY <1>1, <1>2, <1>3, <1>6, <1>7, <2>2, <2>4, MovesOn
<1> QED
  BY <1>13, <1>14

(* What an announcement does to a subscription that holds the root topic. *)
LEMMA HeardHolder ==
  ASSUME ListenInv, NEW i \in Instances, OnRoot(i)
  PROVE  LET s == Heard(sub[i], i[1])
         IN  /\ s \in SubStates /\ s.phase = sub[i].phase /\ s.left = sub[i].left
             /\ s.self = IF passive[i[1]] /\ sub[i].self = "no" THEN "awaited" ELSE sub[i].self
             /\ s.awake => sub[i].awake \/ sub[i].self = "had"
<1>1. sub[i] \in SubStates /\ sub[i].phase # "gone"
  BY SubType DEF ListenInv, OnRoot
<1>2. CASE passive[i[1]]
  BY <1>1, <1>2 DEF Heard, SubStates
<1>3. CASE ~passive[i[1]]
  <2>1. sub[i].self = "had"
    BY <1>3 DEF ListenInv, Stage
  <2> QED
    BY <1>1, <1>3, <2>1 DEF Heard, SubStates
<1> QED
  BY <1>2, <1>3

(* Which subscriptions start to subscribe to the own topic of their room. *)
Starting(r, starts) ==
  /\ starts = {} => UNCHANGED clientVars
  /\ starts # {} => AdapterBecomes(subscribeTopic(Adapter, Self(r), starts))
  /\ \A i \in Instances :
       /\ sub'[i].phase = sub[i].phase /\ sub'[i].left = sub[i].left
       /\ sub'[i].self = IF i \in starts THEN "awaited" ELSE sub[i].self
       /\ i \in starts => sub[i].self = "no" /\ OnRoot(i) /\ passive[i[1]] /\ i[1] = r
       /\ sub'[i].awake => sub[i].awake \/ sub[i].self = "had"
  /\ starts \cap Holders(Self(r)) = {}
  /\ Holders(Self(r))' = Holders(Self(r)) \cup starts
  /\ \A u \in Topics \ {Self(r)} : Holders(u)' = Holders(u)
  /\ adapter # "ws" => \A i, j \in starts : i = j
  /\ adapter # "ws" => starts = {} \/ \A j \in Holders(Self(r)) : sub[j].left

LEMMA ReceiveEffect ==
  ASSUME ListenInv, receive
  PROVE  /\ UNCHANGED <<adapter, passive, socketVars, relayVars>>
         /\ down' \in Seq(RootMessage) /\ sub' \in [Instances -> SubStates]
         /\ \E r \in Rooms : \E starts \in SUBSET Instances : Starting(r, starts)
<1> DEFINE m == Head(down)
           heard == Receivers(m)
           after == [i \in Instances |->
                       IF i \in heard THEN Heard(sub[i], i[1]) ELSE sub[i]]
           starting == {i \in heard : sub[i].self = "no" /\ after[i].self = "awaited"}
<1>1. /\ down # <<>> /\ sub' = after /\ down' = Tail(down)
      /\ starting = {} => UNCHANGED clientVars
      /\ starting # {} => AdapterBecomes(subscribeTopic(Adapter, Self(m.topic.room), starting))
      /\ UNCHANGED <<adapter, passive, socketVars, relayVars>>
  BY DEF receive
<1>2. m \in RootMessage /\ Tail(down) \in Seq(RootMessage)
  BY <1>1 DEF ListenInv, Typed
<1>3. PICK r \in Rooms : m.topic = Root(r) /\ m.topic.room = r
  BY <1>2 DEF RootMessage, Root
<1>4. PICK listeners : listeners = heard
  OBVIOUS
<1>5. PICK starts : starts = starting
  OBVIOUS
<1>6. listeners \subseteq handlers[Root(r)]
  BY <1>3, <1>4 DEF Receivers, NostrReceivers
<1>7. /\ Root(r) \in Topics /\ Self(r) \in Topics
      /\ Self(r).room = r /\ Self(r).kind = "self"
      /\ Root(r).room = r /\ Root(r).kind = "root"
  BY TopicsDiffer DEF Root, Self
<1>8. \A i \in listeners : i \in Instances /\ i[1] = r /\ OnRoot(i)
  BY <1>6, <1>7 DEF ListenInv, Held, Holders
<1>9. \A i \in Instances : sub'[i] = IF i \in listeners THEN Heard(sub[i], i[1]) ELSE sub[i]
  BY <1>1, <1>4
<1>10. starts = {i \in listeners : sub[i].self = "no" /\ sub'[i].self = "awaited"}
  BY <1>1, <1>4, <1>5
<1>11. sub' \in [Instances -> SubStates]
  <2>1. \A i \in listeners : Heard(sub[i], i[1]) \in SubStates
    BY <1>8, HeardHolder
  <2>2. \A i \in Instances : sub[i] \in SubStates
    BY SubType DEF ListenInv
  <2>3. sub' = [i \in Instances |-> IF i \in listeners THEN Heard(sub[i], i[1]) ELSE sub[i]]
    BY <1>1, <1>4
  <2> QED
    BY <2>1, <2>2, <2>3
<1>12. starts # {} =>
         AdapterBecomes(subscribeTopic(Adapter, Self(r), starts))
  BY <1>1, <1>3, <1>5
<1>13. starts = {} => UNCHANGED clientVars
  BY <1>1, <1>5
<1> HIDE DEF after, starting, heard, m
<1>14. ASSUME NEW i \in Instances
       PROVE  /\ sub'[i].phase = sub[i].phase /\ sub'[i].left = sub[i].left
              /\ sub'[i].self = IF i \in starts THEN "awaited" ELSE sub[i].self
              /\ i \in starts => sub[i].self = "no" /\ OnRoot(i) /\ passive[i[1]] /\ i[1] = r
              /\ sub'[i].awake => sub[i].awake \/ sub[i].self = "had"
  <2>1. CASE i \in listeners
    <3>1. OnRoot(i) /\ i[1] = r /\ sub'[i] = Heard(sub[i], i[1])
      BY <1>8, <1>9, <2>1
    <3>2. /\ sub'[i].phase = sub[i].phase /\ sub'[i].left = sub[i].left
          /\ sub'[i].self = IF passive[i[1]] /\ sub[i].self = "no" THEN "awaited" ELSE sub[i].self
          /\ sub'[i].awake => sub[i].awake \/ sub[i].self = "had"
      BY <3>1, HeardHolder
    <3> QED
      BY <1>10, <2>1, <3>1, <3>2
  <2>2. CASE i \notin listeners
    BY <1>9, <1>10, <2>2
  <2> QED
    BY <2>1, <2>2
<1>15. starts \subseteq listeners
  BY <1>10
<1>19. Holders(Self(r))' = Holders(Self(r)) \cup starts
  BY <1>7, <1>8, <1>14, <1>15 DEF Holders, OnSelf
<1>20. \A u \in Topics \ {Self(r)} : Holders(u)' = Holders(u)
  <2>1. \A i \in Instances : OnRoot(i)' <=> OnRoot(i)
    BY <1>14 DEF OnRoot
  <2>2. \A i \in Instances : i[1] # r => (OnSelf(i)' <=> OnSelf(i))
    BY <1>14 DEF OnSelf
  <2>3. \A u \in Topics \ {Self(r)} : u.kind = "root" \/ u.room # r
    BY DEF Topics, Self
  <2> QED
    BY <2>1, <2>2, <2>3 DEF Holders
<1>21. starts \in SUBSET Instances
  BY <1>8, <1>15
<1>22. starts \cap Holders(Self(r)) = {}
  BY <1>7, <1>14, <1>21 DEF Holders, OnSelf
<1>23. ASSUME adapter # "ws", starts # {}
       PROVE  /\ \A i, j \in starts : i = j
              /\ \A j \in Holders(Self(r)) : sub[j].left
  <2>1. Held(Root(r))
    BY <1>7 DEF ListenInv
  <2>2. \A i, j \in handlers[Root(r)] : i = j
    BY <1>23, <2>1 DEF Held
  <2>3. SUFFICES ASSUME NEW j \in Holders(Self(r)), ~sub[j].left
                 PROVE  FALSE
    BY <1>6, <1>15, <2>2
  <2>4. PICK i \in starts : TRUE
    BY <1>23
  <2>5. i \in Instances /\ i[1] = r /\ OnRoot(i) /\ passive[r]
    BY <1>14, <1>21
  <2>6. j \in Instances /\ j[1] = r /\ sub[j].phase \notin {"out", "waiting"}
    BY <1>7, HolderStage
  <2>7. CASE i[2] < j[2]
    <3>1. sub[j].phase \notin {"self", "gone"}
      BY <2>3, <2>5, <2>6 DEF ListenInv, Stage
    <3>2. OnRoot(j)
      BY <2>6, <3>1, SubType DEF OnRoot, ListenInv
    <3>3. j \in Holders(Root(r))
      BY <1>7, <2>6, <3>2 DEF Holders
    <3>4. j \in handlers[Root(r)]
      BY <2>1, <2>3, <3>3 DEF Held
    <3>5. j \in starts
      BY <1>6, <1>15, <2>2, <2>4, <3>4
    <3> QED
      BY <1>22, <2>3, <3>5
  <2>8. CASE ~(i[2] < j[2])
    <3>1. sub[i].phase # "out"
      BY <2>5 DEF OnRoot
    <3>2. sub[j].left \/ j = i
      BY <1>7, <2>5, <2>8, <3>1, OthersLeft
    <3> QED
      BY <1>22, <2>3, <3>2
  <2> QED
    BY <2>7, <2>8
<1>24. Starting(r, starts)
  BY <1>12, <1>13, <1>14, <1>19, <1>20, <1>22, <1>23 DEF Starting
<1> QED
  BY <1>1, <1>2, <1>11, <1>21, <1>24 DEF m

LEMMA ReceiveListens ==
  ASSUME ListenInv, receive
  PROVE  ListenInv'
<1>1. /\ UNCHANGED <<adapter, passive, sock, didOpen>>
      /\ down' \in Seq(RootMessage) /\ sub' \in [Instances -> SubStates]
  BY ReceiveEffect DEF socketVars
<1>2. PICK r \in Rooms, starts \in SUBSET Instances : Starting(r, starts)
  BY ReceiveEffect
<1>3. \A i \in Instances : Stage(i)'
  <2>1. SUFFICES ASSUME NEW i \in Instances
                 PROVE  Stage(i)'
    OBVIOUS
  <2>2. Stage(i)
    BY DEF ListenInv
  <2>3. /\ sub'[i].phase = sub[i].phase /\ sub'[i].left = sub[i].left
        /\ sub'[i].self = IF i \in starts THEN "awaited" ELSE sub[i].self
        /\ i \in starts => sub[i].self = "no" /\ OnRoot(i) /\ passive[i[1]]
        /\ sub'[i].awake => sub[i].awake \/ sub[i].self = "had"
    BY <1>2 DEF Starting
  <2> QED
    BY <1>1, <2>2, <2>3 DEF Stage, OnRoot
<1>4. \A i, j \in Instances : Turn(i, j)'
  <2>1. \A i \in Instances : sub'[i].phase = sub[i].phase /\ sub'[i].left = sub[i].left
    BY <1>2 DEF Starting
  <2> QED
    BY <2>1 DEF ListenInv, Turn
<1>5. /\ Holders(Self(r))' = Holders(Self(r)) \cup starts
      /\ \A u \in Topics \ {Self(r)} : Holders(u)' = Holders(u)
      /\ \A j \in Instances : sub'[j].left = sub[j].left
  BY <1>2 DEF Starting
<1>6. Self(r) \in Topics
  BY TopicsDiffer
<1>7. handlers' \in [Topics -> SUBSET Instances] /\ \A u \in Topics : Held(u)'
  <2>1. CASE starts = {}
    <3>1. \A u \in Topics : Held(u) /\ Holders(u) \subseteq Instances
      BY DEF ListenInv, Holders
    <3>2. \A u \in Topics : Holders(u)' = Holders(u)
      BY <1>5, <2>1
    <3>3. UNCHANGED <<handlers, adapter>>
      BY <1>1, <1>2, <2>1 DEF Starting, clientVars
    <3> QED
      BY <1>5, <3>1, <3>2, <3>3 DEF Held, ListenInv, Typed
  <2>2. CASE starts # {}
    <3>1. AdapterBecomes(subscribeTopic(Adapter, Self(r), starts))
      BY <1>2, <2>2 DEF Starting
    <3>2. handlers' = Added(handlers, Self(r), starts)
      BY <3>1, SubscribeStep, AdapterType DEF ListenInv
    <3>3. adapter # "ws" =>
            /\ \A i, j \in starts : i = j
            /\ \A j \in Holders(Self(r)) : sub[j].left \/ j \in starts
      BY <1>2, <2>2 DEF Starting
    <3>4. UNCHANGED adapter
      BY <1>1
    <3> QED
      BY <1>5, <1>6, <3>2, <3>3, <3>4, Subscribes
  <2> QED
    BY <2>1, <2>2
<1> QED
  BY <1>1, <1>3, <1>4, <1>7 DEF ListenInv, Typed

-----------------------------------------------------------------------------
(* The socket's steps. *)
LEMMA SocketListens ==
  ASSUME ListenInv,
         \/ opens \/ closes \/ reconnects \/ pauses \/ resumes \/ unlocks \/ flushes
         \/ \E c \in Conns : relayReads(c) \/ relayForgets(c)
  PROVE  ListenInv'
<1>1. down \in Seq(RootMessage) /\ (sock = "open" => didOpen)
  BY DEF ListenInv, Typed
<1>2. <<>> \in Seq(RootMessage)
  OBVIOUS
<1>3. CASE opens
  <2>1. /\ UNCHANGED <<adapter, passive, sub, down>> /\ didOpen' = TRUE
    BY <1>3 DEF opens, onopen, roomVars
  <2>2. UNCHANGED handlers
    <3>1. CASE handlers' = resubscribeOnReconnect.handlers
      BY <3>1, FlushHandlers DEF resubscribeOnReconnect, Client
    <3>2. CASE UNCHANGED handlers
      BY <3>2
    <3> QED
      BY <1>3, <3>1, <3>2 DEF opens
  <2> QED
    BY <1>1, <2>1, <2>2, Silent
<1>4. CASE closes
  BY <1>1, <1>2, <1>4, Silent DEF closes, onclose, roomVars
<1>5. CASE reconnects
  BY <1>1, <1>5, Silent DEF reconnects, init, roomVars
<1>6. CASE pauses
  BY <1>1, <1>6, Silent DEF pauses, pauseRelayReconnection, roomVars
<1>7. CASE resumes
  BY <1>1, <1>7, Silent DEF resumes, resumeRelayReconnection, roomVars
<1>8. CASE unlocks
  BY <1>1, <1>8, Silent DEF unlocks, unlocked, roomVars
<1>9. CASE flushes
  <2>1. /\ UNCHANGED <<adapter, passive, sub, down, sock, didOpen>>
    BY <1>9 DEF flushes, flushTimer, roomVars, socketVars
  <2>2. UNCHANGED handlers
    <3> DEFINE b == [Client.batch EXCEPT !.timer = FALSE]
    <3>1. [Client EXCEPT !.batch.timer = FALSE] = [Client EXCEPT !.batch = b]
      OBVIOUS
    <3> HIDE DEF b
    <3>2. [Client EXCEPT !.batch = b] = [handlers |-> handlers, batch |-> b, out |-> <<>>]
      BY DEF Client
    <3>3. handlers' = flushBatch([Client EXCEPT !.batch.timer = FALSE]).handlers
      BY <1>9 DEF flushes, flushTimer, Becomes
    <3> QED
      BY <3>1, <3>2, <3>3, FlushHandlers
  <2> QED
    BY <1>1, <2>1, <2>2, Silent
<1>10. CASE \E c \in Conns : relayReads(c) \/ relayForgets(c)
  <2>1. UNCHANGED <<adapter, passive, sub, down, sock, didOpen, handlers>>
    BY <1>10 DEF relayReads, relayForgets, roomVars, socketVars
  <2> QED
    BY <1>1, <2>1, Silent
<1> QED
  BY <1>3, <1>4, <1>5, <1>6, <1>7, <1>8, <1>9, <1>10

(* What a relay sends of an announcement. *)
LEMMA Announced ==
  ASSUME NEW r \in Rooms
  PROVE  Events(Root(r)) \in Seq(RootMessage) /\ Published(Root(r)) \in Seq(RootMessage)
<1> DEFINE S == {[topic |-> Root(r), sub |-> s] : s \in {q \in SubIds : Root(r) \in filters[conn][q]}}
<1>1. Published(Root(r)) \in Seq(RootMessage)
  <2>1. [topic |-> Root(r), sub |-> 0] \in RootMessage
    BY DEF RootMessage
  <2> QED
    BY <2>1 DEF Published
<1>2. S \subseteq RootMessage
  BY DEF RootMessage
<1>3. IsFiniteSet(SubIds)
  <2>1. MaxSubIds \in Nat
    BY ChunkAssumption
  <2> QED
    BY <2>1, FS_Interval DEF SubIds
<1>4. IsFiniteSet({q \in SubIds : Root(r) \in filters[conn][q]})
  BY <1>3, FS_Subset
<1>5. IsFiniteSet(S)
  <2> DEFINE Q == {q \in SubIds : Root(r) \in filters[conn][q]}
             F == [s \in Q |-> [topic |-> Root(r), sub |-> s]]
  <2>1. S = {F[s] : s \in Q} /\ DOMAIN F = Q /\ F = [s \in Q |-> F[s]]
    OBVIOUS
  <2>2. IsFiniteSet(Q)
    BY <1>4
  <2> HIDE DEF Q, F, S
  <2> QED
    BY <2>1, <2>2, FiniteImage
<1>6. Events(Root(r)) = SetToSeq(S)
  BY DEF Events
<1> HIDE DEF S
<1>7. SetToSeq(S) \in Seq(S)
  BY <1>5, SetAsSequence
<1>8. SetToSeq(S) \in Seq(RootMessage)
  BY <1>2, <1>7
<1> QED
  BY <1>1, <1>6, <1>8

LEMMA AnnounceListens ==
  ASSUME ListenInv, NEW r \in Rooms, announce(r)
  PROVE  ListenInv'
<1>1. /\ UNCHANGED <<adapter, passive, sub, sock, didOpen, handlers>>
      /\ \E s \in {Events(Root(r)), Published(Root(r))} : down' = down \o s
  BY DEF announce, roomVars, socketVars, clientVars
<1>2. down \in Seq(RootMessage) /\ (sock = "open" => didOpen)
  BY DEF ListenInv, Typed
<1>3. down' \in Seq(RootMessage)
  BY <1>1, <1>2, Announced
<1> QED
  BY <1>1, <1>2, <1>3, Silent

LEMMA InitListens ==
  ASSUME Init
  PROVE  ListenInv
<1>1. /\ adapter \in AdaptersUsed /\ passive \in [Rooms -> BOOLEAN]
      /\ sub = [i \in Instances |-> NewSub] /\ down = <<>>
      /\ handlers = [t \in Topics |-> {}] /\ sock = "connecting" /\ didOpen = FALSE
  BY DEF Init, SocketInit
<1>2. Typed
  <2>1. NewSub \in SubStates
    BY DEF NewSub, SubStates
  <2> QED
    BY <1>1, <2>1 DEF Typed
<1>3. \A i \in Instances :
        sub[i].phase = "out" /\ sub[i].self = "no" /\ ~sub[i].left /\ ~sub[i].awake
  BY <1>1 DEF NewSub
<1>4. \A i \in Instances : Stage(i)
  BY <1>3 DEF Stage, OnRoot
<1>5. \A i, j \in Instances : Turn(i, j)
  BY <1>3 DEF Turn
<1>6. \A t \in Topics : Holders(t) = {}
  BY <1>3 DEF Holders, OnRoot, OnSelf
<1>7. \A t \in Topics : Held(t)
  BY <1>1, <1>6 DEF Held
<1> QED
  BY <1>1, <1>2, <1>4, <1>5, <1>7 DEF ListenInv

LEMMA NextListens ==
  ASSUME ListenInv, adapter = "nostr" => MaxJoins["nostr"] <= 1, [Next]_vars
  PROVE  ListenInv'
<1>1. ASSUME NEW i \in Instances, joinRoom(i) \/ leave(i) \/ Work(i)
      PROVE  ListenInv'
  BY <1>1, JoinListens, LeaveListens, StartListens, SelfListens, RootListens,
     SubscribedListens, CleanupListens, WakeListens DEF Work
<1>2. CASE UNCHANGED vars
  <2>1. UNCHANGED <<adapter, passive, sub, sock, didOpen, handlers, down>>
    BY <1>2 DEF vars, roomVars, socketVars, clientVars
  <2> QED
    BY <2>1, Silent DEF ListenInv, Typed
<1> QED
  BY <1>1, <1>2, ReceiveListens, SocketListens, AnnounceListens DEF Next

-----------------------------------------------------------------------------
(* The rest is about MQTT and the self-hosted relay. *)

(* The socket: a new one is tried when the last is closed. *)
Socket ==
  /\ sock \in {"connecting", "open", "closed"} /\ conn \in Conns
  /\ didOpen \in BOOLEAN
  /\ retry \in {"none", "timer", "lock"}
  /\ lock \in {"none", "held", "resolved"}
  /\ sock = "closed" => conn < MaxConns
  /\ retry # "none" <=> sock = "closed"
  /\ conn = 1 /\ sock = "connecting" => ~didOpen

(* Nothing was sent over a socket that is still to open. *)
Unused(c) == c > conn \/ (c = conn /\ sock = "connecting")

Tables ==
  /\ up \in [Conns -> Seq(WsFrames)]
  /\ topics \in [Topics -> SUBSET Conns]
  /\ socketTopics \in [Conns -> SUBSET Topics]
  /\ \A c \in Conns : Unused(c) => up[c] = <<>> /\ socketTopics[c] = {}
  /\ ServerTables
  /\ batch = NoBatch
  /\ filters = [c \in Conns |-> NoFilters]

(* MQTT counts those who hold a topic. *)
Counts ==
  /\ refs \in [Topics -> Nat]
  /\ \A t \in Topics : refs[t] = IF adapter = "mqtt" THEN Cardinality(Holders(t)) ELSE 0

(* Whether the server will have topic t, when it has topics T and reads s. *)
Will(T, s, t) ==
  \/ t \in T /\ \A n \in DOMAIN s : s[n].topic # t
  \/ \E n \in DOMAIN s :
       /\ s[n] = WsFrame("subscribe", t)
       /\ \A later \in n + 1..Len(s) : s[later].topic # t

(* Whether a client with handlers h and counts r wants topic t. *)
Wants(h, r, t) == IF adapter = "mqtt" THEN r[t] > 0 ELSE h[t] # {}

(* The topics client and server agree about. *)
AgreedOn == IF sock = "open" /\ (adapter = "ws" => conn = 1) THEN Topics ELSE {}

Agreed ==
  \A t \in AgreedOn : Will(socketTopics[conn], up[conn], t) <=> Wants(handlers, refs, t)

RelayInv == Socket /\ Tables /\ Counts /\ Agreed

-----------------------------------------------------------------------------
(* What the server will have after one frame more, or when it has read one. *)
LEMMA WillAppend ==
  ASSUME NEW T, NEW s \in Seq(WsFrames), NEW f \in WsFrames, NEW t \in Topics
  PROVE  Will(T, Append(s, f), t) <=>
           IF f.topic = t THEN f.op = "subscribe" ELSE Will(T, s, t)
<1> DEFINE a == Append(s, f)
<1>1. /\ Len(a) = Len(s) + 1 /\ DOMAIN a = 1..Len(s) + 1 /\ DOMAIN s = 1..Len(s)
      /\ Len(s) \in Nat /\ a[Len(s) + 1] = f
      /\ \A n \in 1..Len(s) : a[n] = s[n]
  OBVIOUS
<1>2. f = WsFrame("subscribe", t) <=> f.op = "subscribe" /\ f.topic = t
  BY DEF WsFrame, WsFrames
<1>3. WsFrame("subscribe", t).topic = t
  BY DEF WsFrame
<1> HIDE DEF a
<1>4. CASE f.topic = t
  <2>1. ASSUME f.op = "subscribe"
        PROVE  Will(T, a, t)
    <3>1. Len(s) + 1 \in DOMAIN a /\ a[Len(s) + 1] = WsFrame("subscribe", t)
      BY <1>1, <1>2, <1>4, <2>1
    <3>2. \A later \in Len(s) + 1 + 1..Len(a) : FALSE
      BY <1>1
    <3> QED
      BY <3>1, <3>2 DEF Will
  <2>2. ASSUME Will(T, a, t)
        PROVE  f.op = "subscribe"
    <3>1. Len(s) + 1 \in DOMAIN a /\ a[Len(s) + 1].topic = t
      BY <1>1, <1>4
    <3>2. PICK n \in DOMAIN a : /\ a[n] = WsFrame("subscribe", t)
                                /\ \A later \in n + 1..Len(a) : a[later].topic # t
      BY <2>2, <3>1 DEF Will
    <3>3. n = Len(s) + 1
      BY <1>1, <3>1, <3>2
    <3> QED
      BY <1>1, <1>2, <3>2, <3>3
  <2> QED
    BY <1>4, <2>1, <2>2 DEF a
<1>5. CASE f.topic # t
  <2>1. (\A n \in DOMAIN a : a[n].topic # t) <=> (\A n \in DOMAIN s : s[n].topic # t)
    BY <1>1, <1>5
  <2>2. ASSUME NEW n \in DOMAIN s
        PROVE  (\A later \in n + 1..Len(a) : a[later].topic # t)
                 <=> (\A later \in n + 1..Len(s) : s[later].topic # t)
    BY <1>1, <1>5
  <2>3. \A n \in DOMAIN a : a[n] = WsFrame("subscribe", t) => n \in DOMAIN s /\ s[n] = a[n]
    BY <1>1, <1>2, <1>5
  <2>4. \A n \in DOMAIN s : n \in DOMAIN a /\ a[n] = s[n]
    BY <1>1
  <2>5. Will(T, a, t) <=> Will(T, s, t)
    BY <2>1, <2>2, <2>3, <2>4 DEF Will
  <2> QED
    BY <1>5, <2>5 DEF a
<1> QED
  BY <1>4, <1>5

LEMMA WillTail ==
  ASSUME NEW T, NEW s \in Seq(WsFrames), s # <<>>, NEW t \in Topics
  PROVE  LET f == Head(s)
             U == IF f.op = "subscribe" THEN T \cup {f.topic} ELSE T \ {f.topic}
         IN  Will(U, Tail(s), t) <=> Will(T, s, t)
<1> DEFINE f == Head(s)
           U == IF f.op = "subscribe" THEN T \cup {f.topic} ELSE T \ {f.topic}
           r == Tail(s)
<1>1. /\ Len(s) \in Nat \ {0} /\ DOMAIN s = 1..Len(s) /\ DOMAIN r = 1..Len(s) - 1
      /\ Len(r) = Len(s) - 1 /\ s[1] = f /\ f \in WsFrames
      /\ \A n \in 1..Len(s) - 1 : r[n] = s[n + 1]
  OBVIOUS
<1>2. f = WsFrame("subscribe", t) <=> f.op = "subscribe" /\ f.topic = t
  BY <1>1 DEF WsFrame, WsFrames
<1>3. WsFrame("subscribe", t).topic = t
  BY DEF WsFrame
<1>4. t \in U <=> IF f.topic = t THEN f.op = "subscribe" ELSE t \in T
  BY <1>2
<1> HIDE DEF f, U, r
<1>5. (\A n \in DOMAIN r : r[n].topic # t) <=> (\A n \in 2..Len(s) : s[n].topic # t)
  <2>1. ASSUME \A n \in DOMAIN r : r[n].topic # t, NEW n \in 2..Len(s)
        PROVE  s[n].topic # t
    <3>1. n - 1 \in DOMAIN r /\ r[n - 1] = s[n]
      BY <1>1
    <3> QED
      BY <2>1, <3>1
  <2>2. ASSUME \A n \in 2..Len(s) : s[n].topic # t, NEW n \in DOMAIN r
        PROVE  r[n].topic # t
    BY <1>1, <2>2
  <2> QED
    BY <2>1, <2>2
<1> DEFINE LastAt(q, n) == /\ q[n] = WsFrame("subscribe", t)
                         /\ \A later \in n + 1..Len(q) : q[later].topic # t
<1>6. ASSUME NEW n \in DOMAIN r
      PROVE  n + 1 \in DOMAIN s /\ (LastAt(r, n) <=> LastAt(s, n + 1))
  <2>1. n \in 1..Len(s) - 1 /\ n + 1 \in DOMAIN s /\ r[n] = s[n + 1]
    BY <1>1
  <2>2. ASSUME \A later \in n + 1..Len(r) : r[later].topic # t,
               NEW m \in n + 1 + 1..Len(s)
        PROVE  s[m].topic # t
    <3>1. m - 1 \in n + 1..Len(r) /\ r[m - 1] = s[m]
      BY <1>1, <2>1
    <3> QED
      BY <2>2, <3>1
  <2>3. ASSUME \A later \in n + 1 + 1..Len(s) : s[later].topic # t,
               NEW m \in n + 1..Len(r)
        PROVE  r[m].topic # t
    <3>1. m + 1 \in n + 1 + 1..Len(s) /\ r[m] = s[m + 1]
      BY <1>1, <2>1
    <3> QED
      BY <2>3, <3>1
  <2> QED
    BY <2>1, <2>2, <2>3
<1>7. ASSUME NEW n \in DOMAIN s, n # 1
      PROVE  n - 1 \in DOMAIN r /\ n = n - 1 + 1
  BY <1>1, <1>7
<1>8. (\E n \in DOMAIN r : LastAt(r, n)) <=> (\E n \in DOMAIN s \ {1} : LastAt(s, n))
  <2>1. ASSUME NEW n \in DOMAIN r, LastAt(r, n)
        PROVE  \E m \in DOMAIN s \ {1} : LastAt(s, m)
    <3>1. n + 1 # 1
      BY <1>1
    <3> QED
      BY <1>6, <2>1, <3>1
  <2>2. ASSUME NEW n \in DOMAIN s \ {1}, LastAt(s, n)
        PROVE  \E m \in DOMAIN r : LastAt(r, m)
    <3>1. n - 1 \in DOMAIN r /\ n = n - 1 + 1
      BY <1>7
    <3>2. LastAt(r, n - 1)
      BY <1>6, <2>2, <3>1
    <3> QED
      BY <3>1, <3>2
  <2> QED
    BY <2>1, <2>2
<1>9. LastAt(s, 1) <=> /\ f.op = "subscribe" /\ f.topic = t
                     /\ \A n \in 2..Len(s) : s[n].topic # t
  BY <1>1, <1>2
<1>10. (\A n \in DOMAIN s : s[n].topic # t)
         <=> f.topic # t /\ \A n \in 2..Len(s) : s[n].topic # t
  <2>1. \A n \in DOMAIN s : n = 1 \/ n \in 2..Len(s)
    BY <1>1
  <2>2. \A n \in 2..Len(s) : n \in DOMAIN s
    BY <1>1
  <2>3. 1 \in DOMAIN s
    BY <1>1
  <2> QED
    BY <1>1, <2>1, <2>2, <2>3
<1>11. Will(U, r, t) <=> \/ t \in U /\ \A n \in DOMAIN r : r[n].topic # t
                         \/ \E n \in DOMAIN r : LastAt(r, n)
  BY DEF Will
<1>12. Will(T, s, t) <=> \/ t \in T /\ \A n \in DOMAIN s : s[n].topic # t
                         \/ \E n \in DOMAIN s : LastAt(s, n)
  BY DEF Will
<1>13. (\E n \in DOMAIN s : LastAt(s, n))
         <=> LastAt(s, 1) \/ \E n \in DOMAIN s \ {1} : LastAt(s, n)
  <2>1. 1 \in DOMAIN s
    BY <1>1
  <2> HIDE DEF LastAt
  <2> QED
    BY <2>1
<1> HIDE DEF LastAt
<1>14. Will(U, r, t) <=> Will(T, s, t)
  BY <1>4, <1>5, <1>8, <1>9, <1>10, <1>11, <1>12, <1>13
<1> QED
  BY <1>14 DEF U, f, r

(* Over a new socket: what the frames on their way subscribe to. *)
LEMMA WillFresh ==
  ASSUME NEW D \in SUBSET Topics, NEW s,
         s \in Seq({WsFrame("subscribe", u) : u \in D}),
         \A m, n \in 1..Len(s) : s[m] = s[n] => m = n,
         \A u \in D : \E n \in 1..Len(s) : s[n] = WsFrame("subscribe", u),
         NEW t \in Topics
  PROVE  Will({}, s, t) <=> t \in D
<1>1. DOMAIN s = 1..Len(s) /\ Len(s) \in Nat
  OBVIOUS
<1>2. \A n \in 1..Len(s) : \E u \in D : s[n] = WsFrame("subscribe", u)
  OBVIOUS
<1>3. \A u, v : WsFrame("subscribe", u) = WsFrame("subscribe", v) => u = v
  BY DEF WsFrame
<1>4. \A u : WsFrame("subscribe", u).topic = u
  BY DEF WsFrame
<1>5. Will({}, s, t) => t \in D
  BY <1>1, <1>2, <1>3 DEF Will
<1>6. ASSUME t \in D
      PROVE  Will({}, s, t)
  <2>1. PICK n \in 1..Len(s) : s[n] = WsFrame("subscribe", t)
    BY <1>6
  <2>2. ASSUME NEW m \in n + 1..Len(s), s[m].topic = t
        PROVE  FALSE
    <3>1. m \in 1..Len(s) /\ m # n
      BY <1>1
    <3>2. PICK u \in D : s[m] = WsFrame("subscribe", u)
      BY <1>2, <3>1
    <3>3. u = t
      BY <1>4, <2>2, <3>2
    <3> QED
      BY <2>1, <3>1, <3>2, <3>3
  <2> QED
    BY <1>1, <2>1, <2>2 DEF Will
<1> QED
  BY <1>5, <1>6

-----------------------------------------------------------------------------
(* What subscribing and unsubscribing do to the counts. *)
Raised(r, t) == IF adapter = "mqtt" THEN [r EXCEPT ![t] = r[t] + 1] ELSE r
Lowered(r, t) == IF adapter = "mqtt" THEN [r EXCEPT ![t] = r[t] - 1] ELSE r

(* A client that has handlers h and counts r, and that sends over a socket   *)
(* for which the server has topics T, after frames s, what makes them agree  *)
(* about the topics of D.                                                    *)
Tells(o, h, r, T, s, D) ==
  o \in Seq(WsFrames) /\ \A x \in D : Will(T, s \o o, x) <=> Wants(h, r, x)

Agrees(c, h, r, T, s, D) ==
  \E o : c = ClientOf(h, NoBatch, r, o) /\ Tells(o, h, r, T, s, D)

LEMMA TellsMore ==
  ASSUME NEW h, NEW r, NEW T, NEW s \in Seq(WsFrames), NEW D \in SUBSET Topics, NEW o,
         Tells(o, h, r, T, s, D), NEW t \in Topics, NEW op \in {"subscribe", "unsubscribe"},
         NEW g, NEW q,
         \A x \in D \ {t} : Wants(g, q, x) <=> Wants(h, r, x),
         Wants(g, q, t) <=> op = "subscribe"
  PROVE  Tells(Append(o, WsFrame(op, t)), g, q, T, s, D)
<1>1. WsFrame(op, t) \in WsFrames /\ WsFrame(op, t).topic = t /\ WsFrame(op, t).op = op
  BY DEF WsFrame, WsFrames
<1>2. o \in Seq(WsFrames)
  BY DEF Tells
<1> DEFINE f == WsFrame(op, t)
<1> HIDE DEF f
<1>3. f \in WsFrames /\ f.topic = t /\ f.op = op
  BY <1>1 DEF f
<1>4. s \o Append(o, f) = Append(s \o o, f) /\ s \o o \in Seq(WsFrames)
      /\ Append(o, f) \in Seq(WsFrames)
  BY <1>2, <1>3
<1>5. ASSUME NEW x \in D
      PROVE  Will(T, s \o Append(o, f), x) <=> Wants(g, q, x)
  <2>1. Will(T, Append(s \o o, f), x) <=>
          IF f.topic = x THEN f.op = "subscribe" ELSE Will(T, s \o o, x)
    BY <1>3, <1>4, WillAppend
  <2>2. CASE x = t
    BY <1>3, <1>4, <2>1, <2>2
  <2>3. CASE x # t
    <3>1. Will(T, s \o o, x) <=> Wants(h, r, x)
      BY DEF Tells
    <3> QED
      BY <1>3, <1>4, <2>1, <2>3, <3>1
  <2> QED
    BY <2>2, <2>3
<1> QED
  BY <1>4, <1>5 DEF Tells, f

LEMMA TellsSame ==
  ASSUME NEW h, NEW r, NEW T, NEW s, NEW D, NEW o, Tells(o, h, r, T, s, D), NEW g, NEW q,
         \A x \in D : Wants(g, q, x) <=> Wants(h, r, x)
  PROVE  Tells(o, g, q, T, s, D)
BY DEF Tells

LEMMA SubscribeAgrees ==
  ASSUME adapter \in {"ws", "mqtt"}, NEW h \in [Topics -> SUBSET Instances],
         NEW r \in [Topics -> Nat], NEW T, NEW s \in Seq(WsFrames), NEW D \in SUBSET Topics,
         NEW c, Agrees(c, h, r, T, s, D), NEW t \in Topics, NEW is, is # {}
  PROVE  Agrees(subscribeTopic(c, t, is), Added(h, t, is), Raised(r, t), T, s, D)
<1>1. PICK o : c = ClientOf(h, NoBatch, r, o) /\ Tells(o, h, r, T, s, D)
  BY DEF Agrees
<1> DEFINE g == Added(h, t, is)
           q == Raised(r, t)
           p == Append(o, WsFrame("subscribe", t))
<1>2. CASE adapter = "ws"
  <2>1. q = r /\ g = [h EXCEPT ![t] = h[t] \cup is]
    BY <1>2 DEF Raised, Added
  <2>2. subscribeTopic(c, t, is) = ClientOf(g, NoBatch, q, IF h[t] = {} THEN p ELSE o)
    BY <1>1, <1>2, <2>1 DEF subscribeTopic, wsSubscribe, ClientOf
  <2>3. /\ \A x \in D \ {t} : Wants(g, q, x) <=> Wants(h, r, x)
        /\ Wants(g, q, t)
        /\ Wants(h, r, t) <=> h[t] # {}
    BY <1>2, <2>1 DEF Wants
  <2> HIDE DEF g, q
  <2>4. CASE h[t] = {}
    <3>1. Tells(p, g, q, T, s, D)
      BY <1>1, <2>3, TellsMore
    <3> QED
      BY <2>2, <2>4, <3>1 DEF Agrees, g, q
  <2>5. CASE h[t] # {}
    <3>1. Tells(o, g, q, T, s, D)
      BY <1>1, <2>3, <2>5, TellsSame
    <3> QED
      BY <2>2, <2>5, <3>1 DEF Agrees, g, q
  <2> QED
    BY <2>4, <2>5
<1>3. CASE adapter = "mqtt"
  <2>1. q = [r EXCEPT ![t] = r[t] + 1] /\ g = [h EXCEPT ![t] = is]
    BY <1>3 DEF Raised, Added
  <2>2. subscribeTopic(c, t, is) = ClientOf(g, NoBatch, q, IF r[t] = 0 THEN p ELSE o)
    BY <1>1, <1>3, <2>1 DEF subscribeTopic, mqttSubscribe, ClientOf
  <2>3. /\ \A x \in D \ {t} : Wants(g, q, x) <=> Wants(h, r, x)
        /\ Wants(g, q, t)
        /\ Wants(h, r, t) <=> r[t] # 0
    BY <1>3, <2>1 DEF Wants
  <2> HIDE DEF g, q
  <2>4. CASE r[t] = 0
    <3>1. Tells(p, g, q, T, s, D)
      BY <1>1, <2>3, TellsMore
    <3> QED
      BY <2>2, <2>4, <3>1 DEF Agrees, g, q
  <2>5. CASE r[t] # 0
    <3>1. Tells(o, g, q, T, s, D)
      BY <1>1, <2>3, <2>5, TellsSame
    <3> QED
      BY <2>2, <2>5, <3>1 DEF Agrees, g, q
  <2> QED
    BY <2>4, <2>5
<1> QED
  BY <1>2, <1>3

LEMMA UnsubscribeAgrees ==
  ASSUME adapter \in {"ws", "mqtt"}, NEW h \in [Topics -> SUBSET Instances],
         NEW r \in [Topics -> Nat], NEW T, NEW s \in Seq(WsFrames), NEW D \in SUBSET Topics,
         NEW c, Agrees(c, h, r, T, s, D), NEW t \in Topics, NEW i \in Instances,
         adapter = "mqtt" => r[t] > 0
  PROVE  /\ Agrees(unsubscribeTopic(c, t, i), Removed(h, t, i), Lowered(r, t), T, s, D)
         /\ Lowered(r, t) \in [Topics -> Nat]
<1>1. PICK o : c = ClientOf(h, NoBatch, r, o) /\ Tells(o, h, r, T, s, D)
  BY DEF Agrees
<1> DEFINE g == Removed(h, t, i)
           q == Lowered(r, t)
           p == Append(o, WsFrame("unsubscribe", t))
<1>2. CASE adapter = "ws"
  <2>1. q = r /\ g = [h EXCEPT ![t] = h[t] \ {i}]
    BY <1>2 DEF Lowered, Removed
  <2>2. unsubscribeTopic(c, t, i) = ClientOf(g, NoBatch, q, IF h[t] = {i} THEN p ELSE o)
    BY <1>1, <1>2, <2>1 DEF unsubscribeTopic, wsUnsubscribe, ClientOf
  <2>3. /\ \A x \in D \ {t} : Wants(g, q, x) <=> Wants(h, r, x)
        /\ Wants(g, q, t) <=> h[t] \ {i} # {}
        /\ Wants(h, r, t) <=> h[t] # {}
    BY <1>2, <2>1 DEF Wants
  <2>6. q \in [Topics -> Nat]
    BY <2>1
  <2> HIDE DEF g, q
  <2>4. CASE h[t] = {i}
    <3>1. Tells(p, g, q, T, s, D)
      BY <1>1, <2>3, <2>4, TellsMore
    <3> QED
      BY <2>2, <2>4, <2>6, <3>1 DEF Agrees, g, q
  <2>5. CASE h[t] # {i}
    <3>1. Tells(o, g, q, T, s, D)
      BY <1>1, <2>3, <2>5, TellsSame
    <3> QED
      BY <2>2, <2>5, <2>6, <3>1 DEF Agrees, g, q
  <2> QED
    BY <2>4, <2>5
<1>3. CASE adapter = "mqtt"
  <2>1. q = [r EXCEPT ![t] = r[t] - 1] /\ g = [h EXCEPT ![t] = h[t] \ {i}]
    BY <1>3 DEF Lowered, Removed
  <2>2. unsubscribeTopic(c, t, i) = ClientOf(g, NoBatch, q, IF r[t] = 1 THEN p ELSE o)
    BY <1>1, <1>3, <2>1 DEF unsubscribeTopic, mqttUnsubscribe, ClientOf
  <2>3. /\ \A x \in D \ {t} : Wants(g, q, x) <=> Wants(h, r, x)
        /\ Wants(g, q, t) <=> r[t] - 1 > 0
        /\ Wants(h, r, t)
    BY <1>3, <2>1 DEF Wants
  <2>6. q \in [Topics -> Nat]
    BY <1>3, <2>1
  <2> HIDE DEF g, q
  <2>4. CASE r[t] = 1
    <3>2. ~Wants(g, q, t)
      BY <2>3, <2>4
    <3>1. Tells(p, g, q, T, s, D)
      BY <1>1, <2>3, <3>2, TellsMore
    <3> QED
      BY <2>2, <2>4, <2>6, <3>1 DEF Agrees, g, q
  <2>5. CASE r[t] # 1
    <3>1. Tells(o, g, q, T, s, D)
      BY <1>1, <1>3, <2>3, <2>5, TellsSame
    <3> QED
      BY <2>2, <2>5, <2>6, <3>1 DEF Agrees, g, q
  <2> QED
    BY <2>4, <2>5
<1> QED
  BY <1>2, <1>3

(* The step that such a client takes. *)
LEMMA ClientStep ==
  ASSUME RelayInv, NEW c, NEW h, NEW r \in [Topics -> Nat],
         Agrees(c, h, r, socketTopics[conn], up[conn], AgreedOn),
         AdapterBecomes(c), UNCHANGED <<adapter, socketVars, relayVars>>,
         \A t \in Topics : r[t] = IF adapter = "mqtt" THEN Cardinality(Holders(t)') ELSE 0
  PROVE  RelayInv'
<1>1. PICK o : c = ClientOf(h, NoBatch, r, o)
               /\ Tells(o, h, r, socketTopics[conn], up[conn], AgreedOn)
  BY DEF Agrees
<1>2. /\ handlers' = h /\ batch' = NoBatch /\ refs' = r /\ up' = Sent(o)
      /\ o \in Seq(WsFrames)
  BY <1>1 DEF AdapterBecomes, Becomes, ClientOf, Tells
<1>3. /\ UNCHANGED <<adapter, sock, conn, didOpen, retry, lock, topics, socketTopics, filters>>
  BY DEF socketVars, relayVars
<1>4. up \in [Conns -> Seq(WsFrames)] /\ conn \in Conns
  BY DEF RelayInv, Tables, Socket
<1>5. /\ up' \in [Conns -> Seq(WsFrames)]
      /\ sock = "open" => up'[conn] = up[conn] \o o
      /\ \A d \in Conns : d # conn \/ sock # "open" => up'[d] = up[d]
  <2>1. CASE sock = "open"
    <3>1. up[conn] \o o \in Seq(WsFrames)
      BY <1>2, <1>4
    <3> QED
      BY <1>2, <1>4, <2>1, <3>1 DEF Sent
  <2>2. CASE sock # "open"
    BY <1>2, <1>4, <2>2 DEF Sent
  <2> QED
    BY <2>1, <2>2
<1>6. Socket'
  BY <1>3 DEF RelayInv, Socket
<1>7. Tables'
  <2>1. \A d \in Conns : Unused(d)' <=> Unused(d)
    BY <1>3 DEF Unused
  <2>2. \A d \in Conns : Unused(d) => d # conn \/ sock # "open"
    BY <1>4 DEF Unused, Conns
  <2> QED
    BY <1>2, <1>3, <1>5, <2>1, <2>2 DEF RelayInv, Tables, ServerTables
<1>8. Counts'
  BY <1>2, <1>3 DEF Counts
<1>9. Agreed'
  <2>1. AgreedOn' = AgreedOn
    BY <1>3 DEF AgreedOn
  <2>2. AgreedOn # {} => sock = "open"
    BY DEF AgreedOn
  <2>3. \A t \in AgreedOn : Wants(handlers, refs, t)' <=> Wants(h, r, t)
    BY <1>2, <1>3 DEF Wants
  <2>4. ASSUME NEW t \in AgreedOn
        PROVE  Will(socketTopics[conn], up[conn], t)' <=> Wants(h, r, t)
    <3>1. socketTopics'[conn'] = socketTopics[conn] /\ up'[conn'] = up[conn] \o o
      BY <1>3, <1>5, <2>2
    <3>2. Will(socketTopics'[conn'], up'[conn'], t) <=> Wants(h, r, t)
      BY <1>1, <3>1 DEF Tells
    <3> QED
      BY <3>2 DEF Will
  <2> QED
    BY <2>1, <2>3, <2>4 DEF Agreed
<1> QED
  BY <1>6, <1>7, <1>8, <1>9 DEF RelayInv

-----------------------------------------------------------------------------
(* Who holds a topic are finitely many. *)
LEMMA FiniteHolders ==
  ASSUME NEW t \in Topics
  PROVE  IsFiniteSet(Holders(t)) /\ Cardinality(Holders(t)) \in Nat
<1>1. PICK N \in Nat : Instances = Rooms \X (1..N)
  BY JoinNumbers
<1> DEFINE f == [n \in 1..N |-> <<t.room, n>>]
           S == {f[n] : n \in 1..N}
<1>2. IsFiniteSet(1..N)
  BY FS_Interval
<1>3. DOMAIN f = 1..N /\ f = [n \in 1..N |-> f[n]] /\ S = {f[n] : n \in 1..N}
  OBVIOUS
<1>5. Holders(t) \subseteq S
  BY <1>1 DEF Holders
<1> HIDE DEF f, S
<1>4. IsFiniteSet(S)
  BY <1>2, <1>3, FiniteImage
<1>6. IsFiniteSet(Holders(t))
  BY <1>4, <1>5, FS_Subset
<1> QED
  BY <1>6, FS_CardinalityType

(* One more, or one less. *)
LEMMA HoldersCount ==
  ASSUME NEW t \in Topics, NEW i
  PROVE  /\ i \notin Holders(t) =>
              Cardinality(Holders(t) \cup {i}) = Cardinality(Holders(t)) + 1
         /\ i \in Holders(t) =>
              /\ Cardinality(Holders(t)) > 0
              /\ Cardinality(Holders(t) \ {i}) = Cardinality(Holders(t)) - 1
<1>1. IsFiniteSet(Holders(t)) /\ Cardinality(Holders(t)) \in Nat
  BY FiniteHolders
<1>2. i \notin Holders(t) => Cardinality(Holders(t) \cup {i}) = Cardinality(Holders(t)) + 1
  BY <1>1, FS_AddElement
<1>3. i \in Holders(t) => Cardinality(Holders(t) \ {i}) = Cardinality(Holders(t)) - 1
  BY <1>1, FS_RemoveElement
<1>4. i \in Holders(t) => Cardinality(Holders(t)) # 0
  BY <1>1, FS_EmptySet
<1> QED
  BY <1>1, <1>2, <1>3, <1>4

(* The client as it is agrees with the server. *)
LEMMA AdapterAgrees ==
  ASSUME RelayInv
  PROVE  /\ Agrees(Adapter, handlers, refs, socketTopics[conn], up[conn], AgreedOn)
         /\ up[conn] \in Seq(WsFrames) /\ AgreedOn \in SUBSET Topics
         /\ refs \in [Topics -> Nat]
<1>1. up[conn] \in Seq(WsFrames) /\ batch = NoBatch /\ refs \in [Topics -> Nat]
  BY DEF RelayInv, Tables, Socket, Counts
<1>2. Adapter = ClientOf(handlers, NoBatch, refs, <<>>)
  BY <1>1 DEF Adapter, ClientOf
<1>3. up[conn] \o <<>> = up[conn] /\ <<>> \in Seq(WsFrames)
  BY <1>1
<1>4. Tells(<<>>, handlers, refs, socketTopics[conn], up[conn], AgreedOn)
  BY <1>3 DEF Tells, RelayInv, Agreed
<1> QED
  BY <1>1, <1>2, <1>4 DEF Agrees, AgreedOn

(* Nothing happens to client and relay. *)
LEMMA RelaySame ==
  ASSUME RelayInv, UNCHANGED <<adapter, socketVars, clientVars, relayVars>>,
         \A t \in Topics : Holders(t)' = Holders(t)
  PROVE  RelayInv'
<1>1. UNCHANGED <<adapter, sock, conn, didOpen, retry, lock, handlers, batch, refs, up,
                  filters, topics, socketTopics>>
  BY DEF socketVars, clientVars, relayVars
<1>2. Socket'
  BY <1>1 DEF RelayInv, Socket
<1>3. Tables'
  BY <1>1 DEF RelayInv, Tables, ServerTables, Unused
<1>4. Counts'
  BY <1>1 DEF RelayInv, Counts
<1>5. Agreed'
  BY <1>1 DEF RelayInv, Agreed, AgreedOn, Wants, Will
<1> QED
  BY <1>2, <1>3, <1>4, <1>5 DEF RelayInv

(* Subscriptions come to a topic, or one goes. *)
LEMMA RelaySubscribes ==
  ASSUME ListenInv, RelayInv, adapter \in {"ws", "mqtt"},
         NEW t \in Topics, NEW is \in SUBSET Instances, is # {},
         adapter # "ws" => \A i, j \in is : i = j,
         is \cap Holders(t) = {}, Holders(t)' = Holders(t) \cup is,
         \A u \in Topics \ {t} : Holders(u)' = Holders(u),
         AdapterBecomes(subscribeTopic(Adapter, t, is)),
         UNCHANGED <<adapter, socketVars, relayVars>>
  PROVE  RelayInv'
<1> DEFINE c == subscribeTopic(Adapter, t, is)
           h == Added(handlers, t, is)
           r == Raised(refs, t)
<1>1. handlers \in [Topics -> SUBSET Instances]
  BY DEF ListenInv, Typed
<1>2. Agrees(c, h, r, socketTopics[conn], up[conn], AgreedOn)
  BY <1>1, AdapterAgrees, SubscribeAgrees
<1>3. refs \in [Topics -> Nat]
  BY AdapterAgrees
<1>4. r \in [Topics -> Nat]
  BY <1>3 DEF Raised
<1>5. ASSUME NEW u \in Topics
      PROVE  r[u] = IF adapter = "mqtt" THEN Cardinality(Holders(u)') ELSE 0
  <2>1. refs[u] = IF adapter = "mqtt" THEN Cardinality(Holders(u)) ELSE 0
    BY DEF RelayInv, Counts
  <2>2. CASE adapter = "ws"
    BY <2>1, <2>2 DEF Raised
  <2>3. CASE adapter = "mqtt" /\ u # t
    BY <1>3, <2>1, <2>3 DEF Raised
  <2>4. CASE adapter = "mqtt" /\ u = t
    <3>1. PICK i : is = {i}
      BY <2>4
    <3>2. Cardinality(Holders(t)') = Cardinality(Holders(t)) + 1
      BY <3>1, HoldersCount
    <3> QED
      BY <1>3, <2>1, <2>4, <3>2 DEF Raised
  <2> QED
    BY <2>2, <2>3, <2>4
<1> HIDE DEF c, h, r
<1>6. PICK q, g, d : q = r /\ g = h /\ d = c
  OBVIOUS
<1>7. AdapterBecomes(d)
  BY <1>6 DEF AdapterBecomes, Becomes, c
<1> QED
  BY <1>2, <1>4, <1>5, <1>6, <1>7, ClientStep

LEMMA RelayUnsubscribes ==
  ASSUME ListenInv, RelayInv, adapter \in {"ws", "mqtt"},
         NEW t \in Topics, NEW i \in Holders(t),
         Holders(t)' = Holders(t) \ {i},
         \A u \in Topics \ {t} : Holders(u)' = Holders(u),
         AdapterBecomes(unsubscribeTopic(Adapter, t, i)),
         UNCHANGED <<adapter, socketVars, relayVars>>
  PROVE  RelayInv'
<1> DEFINE c == unsubscribeTopic(Adapter, t, i)
           h == Removed(handlers, t, i)
           r == Lowered(refs, t)
<1>1. handlers \in [Topics -> SUBSET Instances] /\ i \in Instances
  BY DEF ListenInv, Typed, Holders
<1>2. refs \in [Topics -> Nat]
  BY AdapterAgrees
<1>3. \A u \in Topics : refs[u] = IF adapter = "mqtt" THEN Cardinality(Holders(u)) ELSE 0
  BY DEF RelayInv, Counts
<1>4. adapter = "mqtt" => refs[t] > 0
  BY <1>3, HoldersCount
<1>5. /\ Agrees(c, h, r, socketTopics[conn], up[conn], AgreedOn)
      /\ r \in [Topics -> Nat]
  BY <1>1, <1>2, <1>4, AdapterAgrees, UnsubscribeAgrees
<1>6. ASSUME NEW u \in Topics
      PROVE  r[u] = IF adapter = "mqtt" THEN Cardinality(Holders(u)') ELSE 0
  <2>1. CASE adapter = "ws"
    BY <1>3, <2>1 DEF Lowered
  <2>2. CASE adapter = "mqtt" /\ u # t
    BY <1>2, <1>3, <2>2 DEF Lowered
  <2>3. CASE adapter = "mqtt" /\ u = t
    <3>1. Cardinality(Holders(t)') = Cardinality(Holders(t)) - 1
      BY HoldersCount
    <3> QED
      BY <1>2, <1>3, <2>3, <3>1 DEF Lowered
  <2> QED
    BY <2>1, <2>2, <2>3
<1> HIDE DEF c, h, r
<1>7. PICK q, g, d : q = r /\ g = h /\ d = c
  OBVIOUS
<1>8. AdapterBecomes(d)
  BY <1>7 DEF AdapterBecomes, Becomes, c
<1> QED
  BY <1>5, <1>6, <1>7, <1>8, ClientStep

LEMMA RelayUnsubscribesBoth ==
  ASSUME ListenInv, RelayInv, adapter \in {"ws", "mqtt"},
         NEW t \in Topics, NEW v \in Topics, t # v, NEW i, i \in Holders(t), i \in Holders(v),
         Holders(t)' = Holders(t) \ {i}, Holders(v)' = Holders(v) \ {i},
         \A u \in Topics \ {t, v} : Holders(u)' = Holders(u),
         AdapterBecomes(unsubscribeTopic(unsubscribeTopic(Adapter, t, i), v, i)),
         UNCHANGED <<adapter, socketVars, relayVars>>
  PROVE  RelayInv'
<1> DEFINE c == unsubscribeTopic(Adapter, t, i)
           h == Removed(handlers, t, i)
           r == Lowered(refs, t)
           cc == unsubscribeTopic(c, v, i)
           hh == Removed(h, v, i)
           rr == Lowered(r, v)
<1>1. handlers \in [Topics -> SUBSET Instances] /\ i \in Instances
  BY DEF ListenInv, Typed, Holders
<1>2. refs \in [Topics -> Nat]
  BY AdapterAgrees
<1>3. \A u \in Topics : refs[u] = IF adapter = "mqtt" THEN Cardinality(Holders(u)) ELSE 0
  BY DEF RelayInv, Counts
<1>4. adapter = "mqtt" => refs[t] > 0
  BY <1>3, HoldersCount
<1>5. /\ Agrees(c, h, r, socketTopics[conn], up[conn], AgreedOn)
      /\ r \in [Topics -> Nat]
  BY <1>1, <1>2, <1>4, AdapterAgrees, UnsubscribeAgrees
<1>6. h \in [Topics -> SUBSET Instances]
  BY <1>1 DEF Removed
<1>7. ASSUME NEW u \in Topics
      PROVE  r[u] = IF adapter = "mqtt"
                      THEN IF u = t THEN Cardinality(Holders(t)) - 1 ELSE Cardinality(Holders(u))
                      ELSE 0
  BY <1>2, <1>3 DEF Lowered
<1>8. adapter = "mqtt" => r[v] > 0
  BY <1>7, HoldersCount
<1> HIDE DEF c, h, r
<1>9. /\ Agrees(cc, hh, rr, socketTopics[conn], up[conn], AgreedOn)
      /\ rr \in [Topics -> Nat]
  BY <1>1, <1>5, <1>6, <1>8, AdapterAgrees, UnsubscribeAgrees
<1>10. ASSUME NEW u \in Topics
       PROVE  rr[u] = IF adapter = "mqtt" THEN Cardinality(Holders(u)') ELSE 0
  <2>1. CASE adapter = "ws"
    BY <1>7, <2>1 DEF Lowered
  <2>2. CASE adapter = "mqtt" /\ u \notin {t, v}
    BY <1>5, <1>7, <2>2 DEF Lowered
  <2>3. CASE adapter = "mqtt" /\ u = t
    <3>1. Cardinality(Holders(t)') = Cardinality(Holders(t)) - 1
      BY HoldersCount
    <3> QED
      BY <1>5, <1>7, <2>3, <3>1 DEF Lowered
  <2>4. CASE adapter = "mqtt" /\ u = v
    <3>1. Cardinality(Holders(v)') = Cardinality(Holders(v)) - 1
      BY HoldersCount
    <3> QED
      BY <1>5, <1>7, <2>4, <3>1 DEF Lowered
  <2> QED
    BY <2>1, <2>2, <2>3, <2>4
<1> HIDE DEF cc, hh, rr
<1>11. PICK q, g, d : q = rr /\ g = hh /\ d = cc
  OBVIOUS
<1>12. AdapterBecomes(d)
  BY <1>11 DEF AdapterBecomes, Becomes, cc, c
<1> QED
  BY <1>9, <1>10, <1>11, <1>12, ClientStep

-----------------------------------------------------------------------------
(* The steps of a subscription. *)
LEMMA OneChanges ==
  ASSUME Typed, NEW i \in Instances, NEW s, sub' = [sub EXCEPT ![i] = s]
  PROVE  sub'[i] = s /\ \A j \in Instances \ {i} : sub'[j] = sub[j]
BY DEF Typed

LEMMA TopicsOf ==
  ASSUME NEW i \in Instances
  PROVE  /\ RootOf(i) \in Topics /\ RootOf(i).room = i[1] /\ RootOf(i).kind = "root"
         /\ SelfOf(i) \in Topics /\ SelfOf(i).room = i[1] /\ SelfOf(i).kind = "self"
         /\ SelfOf(i) # RootOf(i)
BY InstanceRoom, TopicsDiffer DEF RootOf, SelfOf, Root, Self

LEMMA QuietRelay ==
  ASSUME ListenInv, RelayInv, NEW i \in Instances,
         joinRoom(i) \/ subscribed(i) \/ leave(i) \/ wake(i)
  PROVE  RelayInv'
<1>1. UNCHANGED <<adapter, socketVars, clientVars, relayVars>>
  BY DEF joinRoom, subscribed, leave, wake
<1>2. PICK s \in SubStates : /\ sub' = [sub EXCEPT ![i] = s]
                             /\ s.phase \in {"root", "done"} <=> OnRoot(i)
                             /\ s.self = sub[i].self
  <2>1. sub[i] \in SubStates
    BY SubType DEF ListenInv
  <2>2. CASE joinRoom(i)
    <3> DEFINE s == [sub[i] EXCEPT !.phase = "waiting"]
    <3>1. sub' = [sub EXCEPT ![i] = s] /\ sub[i].phase = "out"
      BY <2>2 DEF joinRoom
    <3>2. s \in SubStates /\ s.phase = "waiting" /\ s.self = sub[i].self
      BY <2>1 DEF SubStates
    <3> QED
      BY <3>1, <3>2 DEF OnRoot
  <2>3. CASE subscribed(i)
    <3> DEFINE s == [sub[i] EXCEPT !.phase = "done"]
    <3>1. sub' = [sub EXCEPT ![i] = s] /\ sub[i].phase = "root"
      BY <2>3 DEF subscribed
    <3>2. s \in SubStates /\ s.phase = "done" /\ s.self = sub[i].self
      BY <2>1 DEF SubStates
    <3> QED
      BY <3>1, <3>2 DEF OnRoot
  <2>4. CASE leave(i)
    <3> DEFINE s == [sub[i] EXCEPT !.left = TRUE]
    <3>1. sub' = [sub EXCEPT ![i] = s]
      BY <2>4 DEF leave
    <3>2. s \in SubStates /\ s.phase = sub[i].phase /\ s.self = sub[i].self
      BY <2>1 DEF SubStates
    <3> QED
      BY <3>1, <3>2 DEF OnRoot
  <2>5. CASE wake(i)
    <3> DEFINE s == [sub[i] EXCEPT !.held = FALSE,
                                   !.awake = @ \/ sub[i].phase # "gone"]
    <3>1. sub' = [sub EXCEPT ![i] = s]
      BY <2>5 DEF wake
    <3>2. s \in SubStates /\ s.phase = sub[i].phase /\ s.self = sub[i].self
      BY <2>1 DEF SubStates
    <3> QED
      BY <3>1, <3>2 DEF OnRoot
  <2> QED
    BY <2>2, <2>3, <2>4, <2>5
<1>3. sub'[i] = s /\ \A j \in Instances \ {i} : sub'[j] = sub[j]
  BY <1>2, OneChanges DEF ListenInv
<1>4. (OnRoot(i)' <=> OnRoot(i)) /\ (OnSelf(i)' <=> OnSelf(i))
  BY <1>2, <1>3 DEF OnRoot, OnSelf
<1>5. \A t \in Topics : Holders(t)' = Holders(t)
  BY <1>3, <1>4, HoldersChange
<1> QED
  BY <1>1, <1>5, RelaySame

LEMMA StartRelay ==
  ASSUME ListenInv, RelayInv, adapter \in {"ws", "mqtt"}, NEW i \in Instances,
         startSubscribe(i) \/ subscribeRoot(i)
  PROVE  RelayInv'
<1>0. sub[i] \in SubStates
  BY SubType DEF ListenInv
<1>1. UNCHANGED <<adapter, socketVars, relayVars>>
  BY DEF startSubscribe, subscribeRoot
<1>2. ASSUME NEW s, sub' = [sub EXCEPT ![i] = s], ~OnRoot(i),
             s.phase = "root", s.self \in {"awaited", "had"} <=> OnSelf(i),
             AdapterBecomes(subscribeTopic(Adapter, RootOf(i), {i}))
      PROVE  RelayInv'
  <2>1. sub'[i] = s /\ \A j \in Instances \ {i} : sub'[j] = sub[j]
    BY <1>2, OneChanges DEF ListenInv
  <2>2. OnRoot(i)' /\ (OnSelf(i)' <=> OnSelf(i))
    BY <1>2, <2>1 DEF OnRoot, OnSelf
  <2>3. /\ i \notin Holders(RootOf(i)) /\ Holders(RootOf(i))' = Holders(RootOf(i)) \cup {i}
        /\ \A u \in Topics \ {RootOf(i)} : Holders(u)' = Holders(u)
    BY <1>2, <2>1, <2>2, HoldersChange
  <2> DEFINE is == {i}
  <2>4. /\ is \in SUBSET Instances /\ is # {} /\ (\A k, j \in is : k = j)
        /\ is \cap Holders(RootOf(i)) = {} /\ Holders(RootOf(i))' = Holders(RootOf(i)) \cup is
        /\ AdapterBecomes(subscribeTopic(Adapter, RootOf(i), is))
    BY <1>2, <2>3
  <2> HIDE DEF is
  <2> QED
    BY <1>1, <2>3, <2>4, TopicsOf, RelaySubscribes
<1>3. ASSUME NEW s, sub' = [sub EXCEPT ![i] = s], ~OnSelf(i), ~OnRoot(i),
             s.phase = "self", s.self = "awaited",
             AdapterBecomes(subscribeTopic(Adapter, SelfOf(i), {i}))
      PROVE  RelayInv'
  <2>1. sub'[i] = s /\ \A j \in Instances \ {i} : sub'[j] = sub[j]
    BY <1>3, OneChanges DEF ListenInv
  <2>2. OnSelf(i)' /\ (OnRoot(i)' <=> OnRoot(i))
    BY <1>3, <2>1 DEF OnRoot, OnSelf
  <2>3. /\ i \notin Holders(SelfOf(i)) /\ Holders(SelfOf(i))' = Holders(SelfOf(i)) \cup {i}
        /\ \A u \in Topics \ {SelfOf(i)} : Holders(u)' = Holders(u)
    BY <1>3, <2>1, <2>2, HoldersChange
  <2> DEFINE is == {i}
  <2>4. /\ is \in SUBSET Instances /\ is # {} /\ (\A k, j \in is : k = j)
        /\ is \cap Holders(SelfOf(i)) = {} /\ Holders(SelfOf(i))' = Holders(SelfOf(i)) \cup is
        /\ AdapterBecomes(subscribeTopic(Adapter, SelfOf(i), is))
    BY <1>3, <2>3
  <2> HIDE DEF is
  <2> QED
    BY <1>1, <2>3, <2>4, TopicsOf, RelaySubscribes
<1>4. CASE subscribeRoot(i)
  <2> DEFINE s == [sub[i] EXCEPT !.phase = "root"]
  <2>1. /\ sub' = [sub EXCEPT ![i] = s] /\ sub[i].phase = "self"
        /\ AdapterBecomes(subscribeTopic(Adapter, RootOf(i), {i}))
    BY <1>4 DEF subscribeRoot
  <2>2. s.phase = "root" /\ s.self = sub[i].self
    BY <1>0 DEF SubStates
  <2> HIDE DEF s
  <2> QED
    BY <1>2, <2>1, <2>2 DEF OnRoot, OnSelf
<1>5. CASE startSubscribe(i) /\ passive[i[1]]
  <2> DEFINE s == [sub[i] EXCEPT !.phase = "root"]
  <2>1. /\ sub' = [sub EXCEPT ![i] = s] /\ sub[i].phase = "waiting"
        /\ AdapterBecomes(subscribeTopic(Adapter, RootOf(i), {i}))
    BY <1>5 DEF startSubscribe
  <2>2. s.phase = "root" /\ s.self = sub[i].self
    BY <1>0 DEF SubStates
  <2> HIDE DEF s
  <2> QED
    BY <1>2, <2>1, <2>2 DEF OnRoot, OnSelf
<1>6. CASE startSubscribe(i) /\ ~passive[i[1]]
  <2> DEFINE s == [sub[i] EXCEPT !.phase = "self", !.self = "awaited"]
  <2>1. /\ sub' = [sub EXCEPT ![i] = s] /\ sub[i].phase = "waiting"
        /\ AdapterBecomes(subscribeTopic(Adapter, SelfOf(i), {i}))
    BY <1>6 DEF startSubscribe
  <2>2. s.phase = "self" /\ s.self = "awaited"
    BY <1>0 DEF SubStates
  <2>3. sub[i].self = "no"
    BY <2>1 DEF ListenInv, Stage
  <2> HIDE DEF s
  <2> QED
    BY <1>3, <2>1, <2>2, <2>3 DEF OnRoot, OnSelf
<1> QED
  BY <1>4, <1>5, <1>6

LEMMA SelfRelay ==
  ASSUME ListenInv, RelayInv, adapter \in {"ws", "mqtt"}, NEW i \in Instances,
         selfSubscribed(i)
  PROVE  RelayInv'
<1>1. /\ UNCHANGED <<adapter, socketVars, relayVars>> /\ sub[i].self = "awaited"
      /\ sub[i] \in SubStates
  BY SubType DEF selfSubscribed, ListenInv
<1>2. CASE sub[i].phase # "gone"
  <2> DEFINE s == [sub[i] EXCEPT !.self = "had"]
  <2>1. sub' = [sub EXCEPT ![i] = s] /\ UNCHANGED clientVars
    BY <1>2 DEF selfSubscribed
  <2>2. s.phase = sub[i].phase /\ s.self = "had"
    BY <1>1 DEF SubStates
  <2> HIDE DEF s
  <2>3. sub'[i] = s /\ \A j \in Instances \ {i} : sub'[j] = sub[j]
    BY <2>1, OneChanges DEF ListenInv
  <2>4. (OnRoot(i)' <=> OnRoot(i)) /\ (OnSelf(i)' <=> OnSelf(i))
    BY <1>1, <2>2, <2>3 DEF OnRoot, OnSelf
  <2>5. \A t \in Topics : Holders(t)' = Holders(t)
    BY <2>3, <2>4, HoldersChange
  <2> QED
    BY <1>1, <2>1, <2>5, RelaySame
<1>3. CASE sub[i].phase = "gone"
  <2> DEFINE s == [sub[i] EXCEPT !.self = "released"]
  <2>1. /\ sub' = [sub EXCEPT ![i] = s]
        /\ AdapterBecomes(unsubscribeTopic(Adapter, SelfOf(i), i))
    BY <1>3 DEF selfSubscribed
  <2>2. s.phase = sub[i].phase /\ s.self = "released"
    BY <1>1 DEF SubStates
  <2> HIDE DEF s
  <2>3. sub'[i] = s /\ \A j \in Instances \ {i} : sub'[j] = sub[j]
    BY <2>1, OneChanges DEF ListenInv
  <2>4. (OnRoot(i)' <=> OnRoot(i)) /\ OnSelf(i) /\ ~OnSelf(i)'
    BY <1>1, <2>2, <2>3 DEF OnRoot, OnSelf
  <2>5. /\ i \in Holders(SelfOf(i)) /\ Holders(SelfOf(i))' = Holders(SelfOf(i)) \ {i}
        /\ \A u \in Topics \ {SelfOf(i)} : Holders(u)' = Holders(u)
    BY <2>3, <2>4, HoldersChange
  <2> QED
    BY <1>1, <2>1, <2>5, TopicsOf, RelayUnsubscribes
<1> QED
  BY <1>2, <1>3

LEMMA CleanupRelay ==
  ASSUME ListenInv, RelayInv, adapter \in {"ws", "mqtt"}, NEW i \in Instances,
         cleanupSubscription(i)
  PROVE  RelayInv'
<1>1. /\ UNCHANGED <<adapter, socketVars, relayVars>> /\ sub[i].phase = "done"
      /\ sub[i] \in SubStates
  BY SubType DEF cleanupSubscription, ListenInv
<1>2. CASE sub[i].self = "had"
  <2> DEFINE s == [sub[i] EXCEPT !.phase = "gone", !.self = "released"]
  <2>1. /\ sub' = [sub EXCEPT ![i] = s]
        /\ AdapterBecomes(unsubscribeTopic(unsubscribeTopic(Adapter, SelfOf(i), i),
                                           RootOf(i), i))
    BY <1>2 DEF cleanupSubscription
  <2>2. s.phase = "gone" /\ s.self = "released"
    BY <1>1 DEF SubStates
  <2> HIDE DEF s
  <2>3. sub'[i] = s /\ \A j \in Instances \ {i} : sub'[j] = sub[j]
    BY <2>1, OneChanges DEF ListenInv
  <2>4. OnRoot(i) /\ ~OnRoot(i)' /\ OnSelf(i) /\ ~OnSelf(i)'
    BY <1>1, <1>2, <2>2, <2>3 DEF OnRoot, OnSelf
  <2>5. /\ i \in Holders(SelfOf(i)) /\ Holders(SelfOf(i))' = Holders(SelfOf(i)) \ {i}
        /\ i \in Holders(RootOf(i)) /\ Holders(RootOf(i))' = Holders(RootOf(i)) \ {i}
        /\ \A u \in Topics \ {SelfOf(i), RootOf(i)} : Holders(u)' = Holders(u)
    BY <2>3, <2>4, HoldersChange
  <2> QED
    BY <1>1, <2>1, <2>5, TopicsOf, RelayUnsubscribesBoth
<1>3. CASE sub[i].self # "had"
  <2> DEFINE s == [sub[i] EXCEPT !.phase = "gone"]
  <2>1. /\ sub' = [sub EXCEPT ![i] = s]
        /\ AdapterBecomes(unsubscribeTopic(Adapter, RootOf(i), i))
    BY <1>3 DEF cleanupSubscription
  <2>2. s.phase = "gone" /\ s.self = sub[i].self
    BY <1>1 DEF SubStates
  <2> HIDE DEF s
  <2>3. sub'[i] = s /\ \A j \in Instances \ {i} : sub'[j] = sub[j]
    BY <2>1, OneChanges DEF ListenInv
  <2>4. OnRoot(i) /\ ~OnRoot(i)' /\ (OnSelf(i)' <=> OnSelf(i))
    BY <1>1, <2>2, <2>3 DEF OnRoot, OnSelf
  <2>5. /\ i \in Holders(RootOf(i)) /\ Holders(RootOf(i))' = Holders(RootOf(i)) \ {i}
        /\ \A u \in Topics \ {RootOf(i)} : Holders(u)' = Holders(u)
    BY <2>3, <2>4, HoldersChange
  <2> QED
    BY <1>1, <2>1, <2>5, TopicsOf, RelayUnsubscribes
<1> QED
  BY <1>2, <1>3

LEMMA ReceiveRelay ==
  ASSUME ListenInv, RelayInv, adapter \in {"ws", "mqtt"}, receive
  PROVE  RelayInv'
<1>1. UNCHANGED <<adapter, socketVars, relayVars>>
  BY ReceiveEffect
<1>2. PICK r \in Rooms, starts \in SUBSET Instances : Starting(r, starts)
  BY ReceiveEffect
<1>3. Self(r) \in Topics
  BY TopicsDiffer
<1>4. CASE starts = {}
  <2>1. UNCHANGED clientVars
    BY <1>2, <1>4 DEF Starting
  <2>2. \A u \in Topics : Holders(u)' = Holders(u)
    BY <1>2, <1>4 DEF Starting
  <2> QED
    BY <1>1, <2>1, <2>2, RelaySame
<1>5. CASE starts # {}
  <2>1. /\ AdapterBecomes(subscribeTopic(Adapter, Self(r), starts))
        /\ starts \cap Holders(Self(r)) = {}
        /\ Holders(Self(r))' = Holders(Self(r)) \cup starts
        /\ \A u \in Topics \ {Self(r)} : Holders(u)' = Holders(u)
        /\ adapter # "ws" => \A i, j \in starts : i = j
    BY <1>2, <1>5 DEF Starting
  <2> QED
    BY <1>1, <1>3, <1>5, <2>1, RelaySubscribes
<1> QED
  BY <1>4, <1>5

-----------------------------------------------------------------------------
(* The socket's steps, and the relay's. *)

(* Steps of the socket in which it does not open. *)
LEMMA SocketChanges ==
  ASSUME RelayInv, ListenInv, UNCHANGED <<adapter, sub, clientVars, relayVars, didOpen>>,
         Socket', sock' = "open" => sock = "open" /\ UNCHANGED conn,
         \A c \in Conns : Unused(c)' => Unused(c)
  PROVE  RelayInv'
<1>1. UNCHANGED <<adapter, sub, handlers, batch, refs, up, filters, topics, socketTopics>>
  BY DEF clientVars, relayVars
<1>2. Tables'
  BY <1>1 DEF RelayInv, Tables, ServerTables
<1>3. Counts'
  BY <1>1 DEF RelayInv, Counts, Holders, OnRoot, OnSelf
<1>4. Agreed'
  BY <1>1 DEF RelayInv, Agreed, AgreedOn, Wants, Will
<1> QED
  BY <1>2, <1>3, <1>4 DEF RelayInv

LEMMA SocketRelay ==
  ASSUME RelayInv, ListenInv, adapter \in {"ws", "mqtt"},
         closes \/ reconnects \/ pauses \/ resumes \/ unlocks
  PROVE  RelayInv'
<1>1. Socket /\ MaxConns \in Nat
  BY ConnsAssumption DEF RelayInv
<1>2. UNCHANGED <<adapter, sub, clientVars, relayVars, didOpen>>
  BY DEF closes, onclose, reconnects, init, pauses, pauseRelayReconnection,
         resumes, resumeRelayReconnection, unlocks, unlocked, roomVars, clientVars
<1>3. CASE closes
  <2>1. /\ sock # "closed" /\ conn < MaxConns /\ sock' = "closed"
        /\ retry' \in {"lock", "timer"} /\ UNCHANGED <<conn, lock>>
    BY <1>3 DEF closes, onclose
  <2>2. Socket'
    BY <1>1, <1>2, <2>1 DEF Socket
  <2>3. \A c \in Conns : Unused(c)' => Unused(c)
    BY <2>1 DEF Unused
  <2> QED
    BY <1>2, <2>1, <2>2, <2>3, SocketChanges
<1>4. ASSUME sock = "closed", retry' = "none", sock' = "connecting", conn' = conn + 1,
             lock' \in {"none", "held", "resolved"}
      PROVE  RelayInv'
  <2>1. conn \in 1..MaxConns /\ conn < MaxConns
    BY <1>1, <1>4 DEF Socket, Conns
  <2>2. conn' \in Conns /\ conn' # 1
    BY <1>1, <1>4, <2>1 DEF Conns
  <2>3. Socket'
    BY <1>1, <1>2, <1>4, <2>2 DEF Socket, Conns
  <2>4. \A c \in Conns : Unused(c)' => Unused(c)
    BY <1>4, <2>1 DEF Unused, Conns
  <2> QED
    BY <1>2, <1>4, <2>3, <2>4, SocketChanges
<1>5. CASE reconnects
  <2>1. /\ retry = "timer" /\ retry' = "none" /\ sock' = "connecting" /\ conn' = conn + 1
        /\ UNCHANGED lock
    BY <1>5 DEF reconnects, init
  <2> QED
    BY <1>1, <1>4, <2>1 DEF Socket
<1>6. CASE unlocks /\ retry = "lock"
  <2>1. /\ retry' = "none" /\ sock' = "connecting" /\ conn' = conn + 1 /\ lock' = "none"
    BY <1>6 DEF unlocks, unlocked
  <2> QED
    BY <1>1, <1>4, <1>6, <2>1 DEF Socket
<1>7. CASE pauses \/ resumes \/ (unlocks /\ retry # "lock")
  <2>1. UNCHANGED <<sock, conn, retry>> /\ lock' \in {"none", "held", "resolved"}
    BY <1>7 DEF pauses, pauseRelayReconnection, resumes, resumeRelayReconnection,
                unlocks, unlocked
  <2>2. Socket'
    BY <1>1, <1>2, <2>1 DEF Socket
  <2>3. \A c \in Conns : Unused(c)' => Unused(c)
    BY <2>1 DEF Unused
  <2> QED
    BY <1>2, <2>1, <2>2, <2>3, SocketChanges
<1> QED
  BY <1>3, <1>5, <1>6, <1>7

(* What mqtt.js subscribes to again. *)
LEMMA Resubscribed ==
  ASSUME refs \in [Topics -> Nat]
  PROVE  /\ Resubscriptions \in Seq(WsFrames)
         /\ \A t \in Topics : Will({}, Resubscriptions, t) <=> refs[t] > 0
<1> DEFINE D == {u \in Topics : refs[u] > 0}
           F == [u \in D |-> WsFrame("subscribe", u)]
           S == {WsFrame("subscribe", u) : u \in D}
           s == SetToSeq(S)
<1>1. IsFiniteSet(Topics)
  <2>1. /\ IsFiniteSet({Root(r) : r \in Rooms})
        /\ IsFiniteSet({Self(r) : r \in Rooms})
    <3> DEFINE f == [r \in Rooms |-> Root(r)]
               g == [r \in Rooms |-> Self(r)]
    <3>1. /\ DOMAIN f = Rooms /\ f = [r \in Rooms |-> f[r]]
          /\ {Root(r) : r \in Rooms} = {f[r] : r \in Rooms}
      OBVIOUS
    <3>2. /\ DOMAIN g = Rooms /\ g = [r \in Rooms |-> g[r]]
          /\ {Self(r) : r \in Rooms} = {g[r] : r \in Rooms}
      OBVIOUS
    <3> HIDE DEF f, g
    <3>3. IsFiniteSet({Root(r) : r \in Rooms})
      BY <3>1, RoomsAssumption, FiniteImage
    <3>4. IsFiniteSet({Self(r) : r \in Rooms})
      BY <3>2, RoomsAssumption, FiniteImage
    <3> QED
      BY <3>3, <3>4
  <2>2. IsFiniteSet({Root(r) : r \in Rooms} \cup {Self(r) : r \in Rooms})
    BY <2>1, FS_Union
  <2>3. Topics \subseteq {Root(r) : r \in Rooms} \cup {Self(r) : r \in Rooms}
    BY TopicsDiffer
  <2> QED
    BY <2>2, <2>3, FS_Subset
<1>2. IsFiniteSet(D)
  BY <1>1, FS_Subset
<1>4. IsFiniteSet(S)
  <2>1. DOMAIN F = D /\ F = [u \in D |-> F[u]] /\ S = {F[u] : u \in D}
    OBVIOUS
  <2> HIDE DEF D, F, S
  <2> QED
    BY <1>2, <2>1, FiniteImage
<1>5. S \subseteq WsFrames
  BY DEF WsFrame, WsFrames
<1>6. Resubscriptions = s
  BY DEF Resubscriptions
<1>7. D \in SUBSET Topics /\ \A u \in D : WsFrame("subscribe", u) \in S
  OBVIOUS
<1> HIDE DEF s
<1>8. /\ s \in Seq(S)
      /\ \A m, n \in 1..Len(s) : s[m] = s[n] => m = n
      /\ \A x \in S : \E n \in 1..Len(s) : s[n] = x
  BY <1>4, SetAsSequence DEF s
<1>9. s \in Seq({WsFrame("subscribe", u) : u \in D})
  BY <1>8
<1>10. \A u \in D : \E n \in 1..Len(s) : s[n] = WsFrame("subscribe", u)
  BY <1>7, <1>8
<1>11. s \in Seq(WsFrames)
  BY <1>5, <1>8
<1>12. \A t \in Topics : t \in D <=> refs[t] > 0
  OBVIOUS
<1> HIDE DEF D, S
<1>13. \A t \in Topics : Will({}, s, t) <=> t \in D
  BY <1>7, <1>8, <1>9, <1>10, WillFresh
<1> QED
  BY <1>6, <1>11, <1>12, <1>13

LEMMA OpensRelay ==
  ASSUME RelayInv, ListenInv, adapter \in {"ws", "mqtt"}, opens
  PROVE  RelayInv'
<1>1. /\ sock = "connecting" /\ sock' = "open" /\ didOpen' = TRUE
      /\ UNCHANGED <<adapter, sub, conn, retry, lock, handlers, batch, refs,
                     filters, topics, socketTopics>>
  BY DEF opens, onopen, roomVars, relayVars
<1>2. Socket /\ conn \in Conns /\ up \in [Conns -> Seq(WsFrames)] /\ refs \in [Topics -> Nat]
  BY DEF RelayInv, Socket, Tables, Counts
<1>3. up[conn] = <<>> /\ socketTopics[conn] = {}
  BY <1>1, <1>2 DEF RelayInv, Tables, Unused
<1>4. \/ adapter = "mqtt" /\ up' = [up EXCEPT ![conn] = Resubscriptions]
      \/ (adapter = "ws" \/ ~didOpen) /\ up' = up
  BY DEF opens
<1>5. /\ up' \in [Conns -> Seq(WsFrames)] /\ \A c \in Conns : c # conn => up'[c] = up[c]
  <2>1. Resubscriptions \in Seq(WsFrames)
    BY <1>2, Resubscribed
  <2> QED
    BY <1>2, <1>4, <2>1
<1>6. Socket'
  BY <1>1, <1>2 DEF Socket
<1>7. Tables'
  <2>1. \A c \in Conns : Unused(c)' => Unused(c) /\ c # conn
    BY <1>1, <1>2 DEF Unused, Conns
  <2> QED
    BY <1>1, <1>5, <2>1 DEF RelayInv, Tables, ServerTables
<1>8. Counts'
  BY <1>1 DEF RelayInv, Counts, Holders, OnRoot, OnSelf
<1>9. ASSUME adapter = "ws" => conn = 1, NEW t \in Topics
      PROVE  Will(socketTopics[conn], up'[conn], t) <=> Wants(handlers, refs, t)
  <2>1. CASE adapter = "mqtt" /\ up' = [up EXCEPT ![conn] = Resubscriptions]
    <3>1. up'[conn] = Resubscriptions
      BY <1>2, <2>1
    <3> QED
      BY <1>2, <1>3, <2>1, <3>1, Resubscribed DEF Wants
  <2>2. CASE (adapter = "ws" \/ ~didOpen) /\ up' = up
    <3>1. ~didOpen
      BY <1>1, <1>2, <1>9, <2>2 DEF Socket
    <3>2. Holders(t) = {}
      BY <3>1 DEF Holders, OnRoot, OnSelf, ListenInv, Stage
    <3>3. handlers[t] = {}
      BY <3>2 DEF ListenInv, Held
    <3>4. adapter = "mqtt" => refs[t] = 0
      <4>1. Cardinality({}) = 0
        BY FS_EmptySet
      <4> QED
        BY <3>2, <4>1 DEF RelayInv, Counts
    <3>5. ~Wants(handlers, refs, t)
      BY <3>3, <3>4 DEF Wants
    <3>6. ~Will({}, <<>>, t)
      BY DEF Will
    <3> QED
      BY <1>3, <2>2, <3>5, <3>6
  <2> QED
    BY <1>4, <2>1, <2>2
<1>10. Agreed'
  <2>1. \A t \in AgreedOn' : t \in Topics /\ (adapter = "ws" => conn = 1)
    BY <1>1 DEF AgreedOn
  <2>2. \A t \in AgreedOn' :
          Will(socketTopics'[conn'], up'[conn'], t) <=> Wants(handlers', refs', t)
    BY <1>1, <1>9, <2>1
  <2>3. \A t : Wants(handlers, refs, t)' <=> Wants(handlers', refs', t)
    BY <1>1 DEF Wants
  <2> QED
    BY <2>2, <2>3 DEF Agreed, Will
<1> QED
  BY <1>6, <1>7, <1>8, <1>10 DEF RelayInv

LEMMA ReadsRelay ==
  ASSUME RelayInv, ListenInv, adapter \in {"ws", "mqtt"}, NEW c \in Conns, relayReads(c)
  PROVE  RelayInv'
<1> DEFINE f == Head(up[c])
           t == f.topic
<1>1. /\ up[c] # <<>> /\ up' = [up EXCEPT ![c] = Tail(up[c])]
      /\ IF f.op = "subscribe" THEN subscribe(c, t) ELSE unsubscribe(c, t)
      /\ UNCHANGED <<adapter, sub, sock, conn, didOpen, retry, lock, handlers, batch, refs,
                     filters>>
  BY DEF relayReads, wsReads, socketVars, roomVars
<1>2. /\ up \in [Conns -> Seq(WsFrames)] /\ topics \in [Topics -> SUBSET Conns]
      /\ socketTopics \in [Conns -> SUBSET Topics] /\ ServerTables /\ conn \in Conns
  BY DEF RelayInv, Tables, Socket
<1>3. up[c] \in Seq(WsFrames)
  BY <1>2
<1>4. f \in WsFrames /\ Tail(up[c]) \in Seq(WsFrames)
  BY <1>1, <1>3
<1>5. t \in Topics
  BY <1>4 DEF WsFrames
<1> DEFINE U == IF f.op = "subscribe" THEN socketTopics[c] \cup {t} ELSE socketTopics[c] \ {t}
<1>6. \A x \in Topics : Will(U, Tail(up[c]), x) <=> Will(socketTopics[c], up[c], x)
  BY <1>1, <1>3, WillTail
<1>7. PICK u, V, r : u = t /\ V = U /\ r = Tail(up[c])
  OBVIOUS
<1>8. /\ u \in Topics /\ V \subseteq Topics /\ r \in Seq(WsFrames)
      /\ up' = [up EXCEPT ![c] = r]
      /\ \A x \in Topics : Will(V, r, x) <=> Will(socketTopics[c], up[c], x)
      /\ V = socketTopics[c] \cup {u} \/ V = socketTopics[c] \ {u}
  BY <1>1, <1>2, <1>4, <1>5, <1>6, <1>7
<1>9. /\ topics' \in [Topics -> SUBSET Conns]
      /\ socketTopics' = [socketTopics EXCEPT ![c] = V]
      /\ \A x \in Topics : \A d \in Conns :
           d \in topics'[x] <=> IF d = c THEN (IF x = u THEN u \in V ELSE c \in topics[x])
                                        ELSE d \in topics[x]
  <2>1. CASE f.op = "subscribe"
    <3>1. /\ topics' = [topics EXCEPT ![u] = topics[u] \cup {c}]
          /\ socketTopics' = [socketTopics EXCEPT ![c] = V] /\ u \in V
      BY <1>1, <1>7, <2>1 DEF subscribe
    <3> QED
      BY <1>2, <1>8, <3>1
  <2>2. CASE f.op # "subscribe"
    <3>1. /\ topics' = [topics EXCEPT ![u] = topics[u] \ {c}]
          /\ socketTopics' = [socketTopics EXCEPT ![c] = V] /\ u \notin V
      BY <1>1, <1>7, <2>2 DEF unsubscribe
    <3> QED
      BY <1>2, <1>8, <3>1
  <2> QED
    BY <2>1, <2>2
<1> HIDE DEF f, t, U
<1>10. Socket'
  BY <1>1 DEF RelayInv, Socket
<1>11. Tables'
  <2>1. up' \in [Conns -> Seq(WsFrames)] /\ socketTopics' \in [Conns -> SUBSET Topics]
    BY <1>2, <1>8, <1>9
  <2>2. \A d \in Conns : d # c => up'[d] = up[d] /\ socketTopics'[d] = socketTopics[d]
    BY <1>2, <1>8, <1>9
  <2>3. \A d \in Conns : Unused(d)' => Unused(d) /\ d # c
    BY <1>1 DEF Unused, RelayInv, Tables
  <2>4. ServerTables'
    <3>1. SUFFICES ASSUME NEW d \in Conns, NEW x \in Topics
                   PROVE  d \in topics'[x] <=> x \in socketTopics'[d]
      BY DEF ServerTables
    <3>2. d \in topics[x] <=> x \in socketTopics[d]
      BY <1>2 DEF ServerTables
    <3>3. socketTopics'[d] = IF d = c THEN V ELSE socketTopics[d]
      BY <1>2, <1>9
    <3>4. x # u => (x \in V <=> x \in socketTopics[c])
      BY <1>8
    <3>5. d \in topics'[x] <=> IF d = c THEN (IF x = u THEN u \in V ELSE c \in topics[x])
                                       ELSE d \in topics[x]
      BY <1>9
    <3> QED
      BY <3>2, <3>3, <3>4, <3>5
  <2> QED
    BY <1>1, <1>9, <2>1, <2>2, <2>3, <2>4 DEF RelayInv, Tables
<1>12. Counts'
  BY <1>1 DEF RelayInv, Counts, Holders, OnRoot, OnSelf
<1>13. Agreed'
  <2>1. \A x \in Topics : Will(socketTopics'[conn], up'[conn], x)
                           <=> Will(socketTopics[conn], up[conn], x)
    <3>1. CASE conn = c
      <4>1. socketTopics'[conn] = V /\ up'[conn] = r
        BY <1>2, <1>8, <1>9, <3>1
      <4> QED
        BY <1>8, <3>1, <4>1
    <3>2. CASE conn # c
      <4>1. socketTopics'[conn] = socketTopics[conn] /\ up'[conn] = up[conn]
        BY <1>2, <1>8, <1>9, <3>2
      <4> QED
        BY <4>1
    <3> QED
      BY <3>1, <3>2
  <2>2. AgreedOn' = AgreedOn /\ AgreedOn \subseteq Topics
    BY <1>1 DEF AgreedOn
  <2>3. \A x \in AgreedOn : Will(socketTopics'[conn'], up'[conn'], x)
                            <=> Wants(handlers, refs, x)
    BY <1>1, <2>1, <2>2 DEF RelayInv, Agreed
  <2>4. \A x : Wants(handlers, refs, x)' <=> Wants(handlers, refs, x)
    BY <1>1 DEF Wants
  <2> QED
    BY <2>2, <2>3, <2>4 DEF Agreed, Will
<1> QED
  BY <1>10, <1>11, <1>12, <1>13 DEF RelayInv

LEMMA ForgetsRelay ==
  ASSUME RelayInv, ListenInv, adapter \in {"ws", "mqtt"}, NEW c \in Conns, relayForgets(c)
  PROVE  RelayInv'
<1>1. /\ Over(c) /\ up' = [up EXCEPT ![c] = <<>>] /\ cleanup(c)
      /\ UNCHANGED <<adapter, sub, sock, conn, didOpen, retry, lock, handlers, batch, refs,
                     filters>>
  BY DEF relayForgets, socketVars, roomVars
<1>2. /\ up \in [Conns -> Seq(WsFrames)] /\ topics \in [Topics -> SUBSET Conns]
      /\ socketTopics \in [Conns -> SUBSET Topics] /\ ServerTables /\ conn \in Conns
  BY DEF RelayInv, Tables, Socket
<1>3. /\ topics' = [t \in Topics |-> IF t \in socketTopics[c] THEN topics[t] \ {c}
                                                              ELSE topics[t]]
      /\ socketTopics' = [socketTopics EXCEPT ![c] = {}]
  BY <1>1 DEF cleanup
<1>4. Socket'
  BY <1>1 DEF RelayInv, Socket
<1>5. Tables'
  <2>1. /\ up' \in [Conns -> Seq(WsFrames)] /\ socketTopics' \in [Conns -> SUBSET Topics]
        /\ topics' \in [Topics -> SUBSET Conns]
    BY <1>1, <1>2, <1>3
  <2>2. \A d \in Conns : Unused(d)' => up'[d] = <<>> /\ socketTopics'[d] = {}
    BY <1>1, <1>2, <1>3 DEF Unused, RelayInv, Tables
  <2>3. ServerTables'
    BY <1>2, <1>3 DEF ServerTables
  <2> QED
    BY <1>1, <2>1, <2>2, <2>3 DEF RelayInv, Tables
<1>6. Counts'
  BY <1>1 DEF RelayInv, Counts, Holders, OnRoot, OnSelf
<1>7. Agreed'
  <2>1. AgreedOn' = AgreedOn /\ (AgreedOn # {} => c # conn)
    BY <1>1, <1>2 DEF AgreedOn, Over, Conns
  <2>2. c # conn => up'[conn] = up[conn] /\ socketTopics'[conn] = socketTopics[conn]
    BY <1>1, <1>2, <1>3
  <2> QED
    BY <1>1, <2>1, <2>2 DEF RelayInv, Agreed, Wants, Will
<1> QED
  BY <1>4, <1>5, <1>6, <1>7 DEF RelayInv

LEMMA InitRelay ==
  ASSUME Init, adapter \in {"ws", "mqtt"}
  PROVE  RelayInv
<1>1. /\ sock = "connecting" /\ conn = 1 /\ didOpen = FALSE /\ retry = "none" /\ lock = "none"
      /\ up = [c \in Conns |-> <<>>] /\ handlers = [t \in Topics |-> {}]
      /\ batch = NoBatch /\ filters = [c \in Conns |-> NoFilters]
      /\ topics = [t \in Topics |-> {}] /\ socketTopics = [c \in Conns |-> {}]
      /\ refs = [t \in Topics |-> 0] /\ sub = [i \in Instances |-> NewSub]
  BY DEF Init, SocketInit, NostrInit, ServerInit, MqttInit
<1>2. 1 \in Conns
  BY ConnsAssumption DEF Conns
<1>3. Socket
  BY <1>1, <1>2 DEF Socket
<1>4. Tables
  BY <1>1 DEF Tables, ServerTables
<1>5. \A t \in Topics : Holders(t) = {}
  BY <1>1 DEF Holders, OnRoot, OnSelf, NewSub
<1>6. Cardinality({}) = 0
  BY FS_EmptySet
<1>7. Counts
  BY <1>1, <1>5, <1>6 DEF Counts
<1>8. Agreed
  BY <1>1 DEF Agreed, AgreedOn
<1> QED
  BY <1>3, <1>4, <1>7, <1>8 DEF RelayInv

LEMMA NextRelay ==
  ASSUME ListenInv, RelayInv, adapter \in {"ws", "mqtt"}, [Next]_vars
  PROVE  RelayInv'
<1>1. ASSUME NEW i \in Instances, joinRoom(i) \/ leave(i) \/ Work(i)
      PROVE  RelayInv'
  BY <1>1, QuietRelay, StartRelay, SelfRelay, CleanupRelay DEF Work
<1>2. CASE UNCHANGED vars
  <2>1. UNCHANGED <<adapter, socketVars, clientVars, relayVars, sub>>
    BY <1>2 DEF vars, roomVars
  <2>2. \A t \in Topics : Holders(t)' = Holders(t)
    BY <2>1 DEF Holders, OnRoot, OnSelf
  <2> QED
    BY <2>1, <2>2, RelaySame
<1>3. ASSUME NEW r \in Rooms, announce(r)
      PROVE  RelayInv'
  <2>1. UNCHANGED <<adapter, socketVars, clientVars, relayVars, sub>>
    BY <1>3 DEF announce, roomVars
  <2>2. \A t \in Topics : Holders(t)' = Holders(t)
    BY <2>1 DEF Holders, OnRoot, OnSelf
  <2> QED
    BY <2>1, <2>2, RelaySame
<1>4. ~flushes
  BY DEF flushes, flushTimer, RelayInv, Tables, NoBatch
<1> QED
  BY <1>1, <1>2, <1>3, <1>4, ReceiveRelay, OpensRelay, SocketRelay, ReadsRelay, ForgetsRelay
     DEF Next

-----------------------------------------------------------------------------
(* A room that has joined has its handlers, and so has a passive one that is *)
(* awake, whatever else is cleaned up (topic-strategy.ts:163): over Nostr,   *)
(* which removes a topic for all (run relays_rejoin), of rooms joined once.  *)
THEOREM ListensHolds ==
  ASSUME "nostr" \in AdaptersUsed => MaxJoins["nostr"] <= 1
  PROVE  Spec => []Listens
<1>1. Init => ListenInv
  BY InitListens
<1>2. ListenInv /\ [Next]_vars => ListenInv'
  BY NextListens DEF ListenInv, Typed
<1>3. ListenInv => Listens
  <2>1. SUFFICES ASSUME ListenInv
                 PROVE  Listens
    OBVIOUS
  <2>2. ASSUME NEW i \in Instances, ~sub[i].left
        PROVE  /\ OnRoot(i) => i \in handlers[RootOf(i)]
               /\ OnSelf(i) => i \in handlers[SelfOf(i)]
               /\ sub[i].self = "released" => FALSE
    <3>1. /\ RootOf(i) \in Topics /\ RootOf(i).room = i[1] /\ RootOf(i).kind = "root"
          /\ SelfOf(i) \in Topics /\ SelfOf(i).room = i[1] /\ SelfOf(i).kind = "self"
      BY InstanceRoom DEF RootOf, SelfOf, Root, Self
    <3> QED
      BY <2>1, <2>2, <3>1 DEF ListenInv, Held, Holders, Stage
  <2>3. ASSUME NEW i \in Instances
        PROVE  /\ sub[i].self \in {"no", "awaited", "had", "released"}
               /\ sub[i].awake => sub[i].self \in {"had", "released"}
    BY <2>1, SubType DEF ListenInv, Stage
  <2> QED
    BY <2>2, <2>3 DEF Listens, Reached, OnRoot, OnSelf
<1> QED
  BY <1>1, <1>2, <1>3, PTL DEF Spec

(* Over MQTT and the self-hosted relay, both invariants.                     *)
BothInv == ListenInv /\ RelayInv /\ adapter \in {"ws", "mqtt"}

LEMMA BothHold ==
  ASSUME "nostr" \notin AdaptersUsed
  PROVE  Spec => []BothInv
<1>1. Init => BothInv
  <2>1. SUFFICES ASSUME Init
                 PROVE  BothInv
    OBVIOUS
  <2>2. adapter \in {"ws", "mqtt"}
    BY <2>1, AdaptersAssumption DEF Init, Adapters
  <2> QED
    BY <2>1, <2>2, InitListens, InitRelay DEF BothInv
<1>2. BothInv /\ [Next]_vars => BothInv'
  <2>1. SUFFICES ASSUME BothInv, [Next]_vars
                 PROVE  BothInv'
    OBVIOUS
  <2>2. ListenInv'
    BY <2>1, NextListens DEF BothInv
  <2>3. RelayInv'
    BY <2>1, NextRelay DEF BothInv
  <2>4. adapter' \in {"ws", "mqtt"}
    BY <2>2, AdaptersAssumption DEF ListenInv, Typed, Adapters
  <2> QED
    BY <2>2, <2>3, <2>4 DEF BothInv
<1> QED
  BY <1>1, <1>2, PTL DEF Spec

(* Client and relay agree on the topics, over MQTT and the self-hosted relay *)
(* (its two tables with each other as well), once what is on its way is      *)
(* read: through reconnections of mqtt.js and frames lost with a socket.     *)
THEOREM RelayAgreesHolds ==
  ASSUME "nostr" \notin AdaptersUsed
  PROVE  Spec => []RelayAgrees
<1>1. BothInv => RelayAgrees
  <2>1. SUFFICES ASSUME BothInv
                 PROVE  RelayAgrees
    OBVIOUS
  <2>2. ServerTables /\ Agreed /\ adapter \in {"ws", "mqtt"}
    BY <2>1 DEF BothInv, RelayInv, Tables
  <2>3. \A t : WillHave(conn, t) <=> Will(socketTopics[conn], up[conn], t)
    BY DEF WillHave, Will
  <2>4. adapter = "ws" => WsAgrees
    BY <2>2, <2>3 DEF WsAgrees, Agreed, AgreedOn, Wants
  <2>5. adapter = "mqtt" => MqttAgrees
    BY <2>2, <2>3 DEF MqttAgrees, Agreed, AgreedOn, Wants
  <2> QED
    BY <2>2, <2>4, <2>5 DEF RelayAgrees
<1> QED
  BY <1>1, BothHold, PTL

(* Over both the variables have their types; MQTT never counts more          *)
(* subscriptions of a topic than there are.                                  *)
THEOREM TypeCorrect ==
  ASSUME "nostr" \notin AdaptersUsed
  PROVE  Spec => []TypeOK
<1>1. BothInv => TypeOK
  <2>1. SUFFICES ASSUME BothInv
                 PROVE  TypeOK
    OBVIOUS
  <2>2. ListenInv /\ RelayInv
    BY <2>1 DEF BothInv
  <2>3. Typed /\ Socket /\ Tables /\ Counts
    BY <2>2 DEF ListenInv, RelayInv
  <2>4. refs \in [Topics -> 0..Cardinality(Instances)]
    <3>1. IsFiniteSet(Instances)
      <4>1. PICK N \in Nat : Instances = Rooms \X (1..N)
        BY JoinNumbers
      <4>2. IsFiniteSet(1..N)
        BY FS_Interval
      <4> QED
        BY <4>1, <4>2, RoomsAssumption, FS_Product
    <3>2. Cardinality(Instances) \in Nat
      BY <3>1, FS_CardinalityType
    <3>3. \A t \in Topics : Cardinality(Holders(t)) <= Cardinality(Instances)
      <4>1. \A t \in Topics : Holders(t) \subseteq Instances
        BY DEF Holders
      <4> QED
        BY <3>1, <4>1, FS_Subset
    <3>4. \A t \in Topics : refs[t] \in 0..Cardinality(Instances)
      BY <2>3, <3>2, <3>3, FiniteHolders DEF Counts
    <3> QED
      BY <2>3, <3>4 DEF Counts
  <2>5. \A c \in Conns : ToSet(up[c]) \subseteq NostrFrames \union WsFrames
    <3>1. \A c \in Conns : up[c] \in Seq(WsFrames)
      BY <2>3 DEF Tables
    <3> QED
      BY <3>1 DEF ToSet
  <2>6. ToSet(down) \subseteq [topic : Topics, sub : SubIds \union {0}]
    <3>1. RootMessage \subseteq [topic : Topics, sub : SubIds \union {0}]
      BY TopicsDiffer DEF RootMessage
    <3>2. \A n \in DOMAIN down : down[n] \in RootMessage
      BY <2>3 DEF Typed
    <3> QED
      BY <3>1, <3>2 DEF ToSet
  <2>7. /\ ToSet(batch.topics) \subseteq Topics /\ IsInjective(batch.topics)
        /\ ToSet(batch.subIds) \subseteq SubIds /\ IsInjective(batch.subIds)
        /\ batch.timer \in BOOLEAN
    <3>1. batch.topics = <<>> /\ batch.subIds = <<>> /\ batch.timer = FALSE
      BY <2>3 DEF Tables, NoBatch
    <3>2. DOMAIN <<>> = {}
      OBVIOUS
    <3>3. ToSet(<<>>) = {}
      BY <3>2 DEF ToSet
    <3>4. IsInjective(<<>>)
      BY <3>2 DEF IsInjective
    <3> QED
      BY <3>1, <3>3, <3>4
  <2>8. filters \in [Conns -> [SubIds -> SUBSET Topics]]
    BY <2>3 DEF Tables, NoFilters
  <2> QED
    BY <2>3, <2>4, <2>5, <2>6, <2>7, <2>8 DEF TypeOK, Typed, Socket, Tables
<1> QED
  BY <1>1, BothHold, PTL
=============================================================================
