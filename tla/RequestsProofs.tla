--------------------------- MODULE RequestsProofs ---------------------------
(***************************************************************************)
(* Proofs about Requests, with any number of peers and requests, any       *)
(* nonces and any sizes of messages: nobody waits for a peer that is gone; *)
(* a request is dealt with once; a promise settles by what was done about  *)
(* its own request; and a message that is completed is whole.              *)
(***************************************************************************)
EXTENDS Requests, SequenceTheorems, TLAPS

-----------------------------------------------------------------------------
(* The action wire: its types, and whose metadata and data a message is     *)
(* completed with.                                                         *)

LoopsOf(Sendable) ==
  [msg : Sendable, from : Peers, to : Peers, session : 1..MaxSessions,
   nonce : 0..NonceMod - 1, next : Nat]

Entries(Sendable) ==
  [meta : Sendable \cup {None}, chunks : Seq(Chunk(Sendable))]

(* Whether a chunk leaves the metadata of the entry for a and n as it is. *)
Quiet(c, a, n) == c.msg.action = a /\ c.nonce = n => c.part # 0 /\ ~IsLast(c)

(* Before the i-th chunk of channel s is handled, where meta was the        *)
(* metadata of the entry when the first is, it is that of m.                *)
Open(s, meta, m, n, i) ==
  \/ meta = m /\ \A k \in 1..i - 1 : Quiet(s[k], m.action, n)
  \/ \E j \in 1..i - 1 :
       /\ s[j].msg = m /\ s[j].nonce = n /\ s[j].part = 0
       /\ \A k \in j + 1..i - 1 : Quiet(s[k], m.action, n)

(* The same of channel p to q, as it is. *)
OpenAt(p, q, m, n, i) ==
  Open(chan[p][q], partial[q][p][m.action][n].meta, m, n, i)

(* A nonce is used by one loop at a time. *)
NoncesDiffer ==
  \A l1, l2 \in loops :
    l1.from = l2.from /\ l1.msg.action = l2.msg.action /\ l1.nonce = l2.nonce
      => l1 = l2

(* The sessions there were are those that were counted. *)
SessionsCounted ==
  /\ \A p, q \in Peers : session[p][q] <= sessions
  /\ \A l \in loops : l.session <= sessions

(* Every chunk after the first, on its way or yet to be sent, will find the *)
(* metadata of its own message. *)
ChunksFit ==
  /\ \A p, q \in Peers : \A i \in 1..Len(chan[p][q]) :
       session[q][p] # 0 /\ chan[p][q][i].part > 0
         => OpenAt(p, q, chan[p][q][i].msg, chan[p][q][i].nonce, i)
  /\ \A l \in loops :
       session[l.from][l.to] = l.session /\ session[l.to][l.from] # 0 /\ l.next > 0
         => OpenAt(l.from, l.to, l.msg, l.nonce, Len(chan[l.from][l.to]) + 1)

WireInv == NoncesDiffer /\ SessionsCounted /\ ChunksFit

-----------------------------------------------------------------------------
(* Open looks at the chunks before i only. *)
LEMMA OpenPrefix ==
  ASSUME NEW s, NEW t, NEW meta, NEW m, NEW n, NEW i \in Nat,
         \A k \in 1..i - 1 : t[k] = s[k],
         Open(s, meta, m, n, i)
  PROVE  Open(t, meta, m, n, i)
BY DEF Open

(* It lasts as long as the chunks that follow are quiet. *)
LEMMA OpenLasts ==
  ASSUME NEW t, NEW meta, NEW m, NEW n, NEW i \in Nat, NEW h \in Nat, i <= h, i > 0,
         Open(t, meta, m, n, i),
         \A k \in i..h - 1 : Quiet(t[k], m.action, n)
  PROVE  Open(t, meta, m, n, h)
<1>1. \A j \in Nat : \A k \in j..h - 1 : k \in j..i - 1 \/ k \in i..h - 1
  OBVIOUS
<1>2. CASE meta = m /\ \A k \in 1..i - 1 : Quiet(t[k], m.action, n)
  BY <1>1, <1>2 DEF Open
<1>3. CASE \E j \in 1..i - 1 :
             /\ t[j].msg = m /\ t[j].nonce = n /\ t[j].part = 0
             /\ \A k \in j + 1..i - 1 : Quiet(t[k], m.action, n)
  <2>1. PICK j \in 1..i - 1 :
             /\ t[j].msg = m /\ t[j].nonce = n /\ t[j].part = 0
             /\ \A k \in j + 1..i - 1 : Quiet(t[k], m.action, n)
    BY <1>3
  <2>2. j \in 1..h - 1 /\ j + 1 \in Nat
    OBVIOUS
  <2>3. \A k \in j + 1..h - 1 : Quiet(t[k], m.action, n)
    BY <1>1, <2>1, <2>2
  <2> QED
    BY <2>1, <2>2, <2>3 DEF Open
<1> QED
  BY <1>2, <1>3 DEF Open

(* The first chunk of a message opens it. *)
LEMMA OpenStarts ==
  ASSUME NEW t, NEW meta, NEW m, NEW n, NEW i \in Nat, i > 0,
         t[i].msg = m, t[i].nonce = n, t[i].part = 0
  PROVE  Open(t, meta, m, n, i + 1)
<1>1. i \in 1..(i + 1) - 1 /\ \A k \in i + 1..(i + 1) - 1 : FALSE
  OBVIOUS
<1> QED
  BY <1>1 DEF Open

(* It stays true when the first chunk is handled. *)
LEMMA OpenTail ==
  ASSUME NEW s, NEW t, NEW meta, NEW new, NEW m, NEW n, NEW i \in Nat, i > 0,
         \A k \in 1..i - 1 : t[k] = s[k + 1],
         s[1].msg.action = m.action /\ s[1].nonce = n
           => /\ s[1].part = 0 => new = s[1].msg
              /\ s[1].part # 0 /\ ~IsLast(s[1]) => new = meta,
         ~(s[1].msg.action = m.action /\ s[1].nonce = n) => new = meta,
         Open(s, meta, m, n, i + 1)
  PROVE  Open(t, new, m, n, i)
<1>0. \A k \in 1..i - 1 : k + 1 \in 2..i /\ t[k] = s[k + 1]
  OBVIOUS
<1>1. CASE meta = m /\ \A k \in 1..i : Quiet(s[k], m.action, n)
  <2>1. new = m
    BY <1>1 DEF Quiet
  <2>2. \A k \in 1..i - 1 : Quiet(t[k], m.action, n)
    BY <1>0, <1>1
  <2> QED
    BY <2>1, <2>2 DEF Open
<1>2. ASSUME NEW j \in 1..i, s[j].msg = m, s[j].nonce = n, s[j].part = 0,
             \A k \in j + 1..i : Quiet(s[k], m.action, n)
      PROVE  Open(t, new, m, n, i)
  <2>1. CASE j = 1
    <3>1. new = m
      BY <1>2, <2>1
    <3>2. \A k \in 1..i - 1 : Quiet(t[k], m.action, n)
      BY <1>0, <1>2, <2>1
    <3> QED
      BY <3>1, <3>2 DEF Open
  <2>2. CASE j # 1
    <3>1. j - 1 \in 1..i - 1 /\ t[j - 1] = s[j]
      BY <2>2, <1>0
    <3>2. \A k \in (j - 1) + 1..i - 1 : k + 1 \in j + 1..i /\ t[k] = s[k + 1]
      BY <1>0, <2>2
    <3>3. \A k \in (j - 1) + 1..i - 1 : Quiet(t[k], m.action, n)
      BY <3>2, <1>2
    <3> QED
      BY <3>1, <3>3, <1>2 DEF Open
  <2> QED
    BY <2>1, <2>2
<1>3. (i + 1) - 1 = i
  OBVIOUS
<1> QED
  BY <1>1, <1>2, <1>3 DEF Open

-----------------------------------------------------------------------------
(* The types of the wire, of messages of known actions. *)
WireTyped(Sendable) ==
  /\ WireTypeOK(Sendable)
  /\ \A m \in Sendable : m.action \in Actions

LEMMA LastPartType ==
  ASSUME NEW Sendable, WireTyped(Sendable), NEW m \in Sendable
  PROVE  LastPart(m) \in Nat /\ LastPart(m) > 0
BY ChunksAssumption DEF WireTyped, LastPart

LEMMA NonceType ==
  ASSUME NEW n \in Nat
  PROVE  nextNonce(n) \in 0..NonceMod - 1
BY WireAssumption DEF nextNonce

(* What push changes: the channel of its loop, by the next chunks, and the  *)
(* loop. *)
LEMMA PushEffect ==
  ASSUME NEW Sendable, WireTyped(Sendable), NEW l \in LoopsOf(Sendable),
         NEW k \in Nat, l.next + k <= LastPart(l.msg) + 1, push(l, k)
  PROVE  LET s == chan[l.from][l.to]
             t == chan'[l.from][l.to]
         IN  /\ chan' \in [Peers -> [Peers -> Seq(Chunk(Sendable))]]
             /\ s \in Seq(Chunk(Sendable)) /\ t \in Seq(Chunk(Sendable))
             /\ Len(t) = Len(s) + k
             /\ \A i \in 1..Len(s) : t[i] = s[i]
             /\ \A j \in Len(s) + 1..Len(s) + k :
                  /\ t[j].msg = l.msg /\ t[j].nonce = l.nonce
                  /\ t[j].part = l.next + (j - Len(s)) - 1
             /\ \A p, q \in Peers : <<p, q>> # <<l.from, l.to>>
                                     => chan'[p][q] = chan[p][q]
             /\ \A x \in loops' : \/ x \in loops /\ x # l
                                  \/ /\ x \in LoopsOf(Sendable)
                                     /\ x.msg = l.msg /\ x.from = l.from /\ x.to = l.to
                                     /\ x.session = l.session /\ x.nonce = l.nonce
                                     /\ x.next = l.next + k
                                     /\ x.next <= LastPart(l.msg)
<1> DEFINE s == chan[l.from][l.to]
           u == chunksOf(l, k)
<1>1. /\ l.msg \in Sendable /\ l.from \in Peers /\ l.to \in Peers
      /\ l.nonce \in 0..NonceMod - 1 /\ l.next \in Nat
  BY DEF LoopsOf
<1>2. LastPart(l.msg) \in Nat
  BY <1>1, LastPartType
<1>3. s \in Seq(Chunk(Sendable)) /\ chan \in [Peers -> [Peers -> Seq(Chunk(Sendable))]]
  BY <1>1 DEF WireTyped, WireTypeOK
<1>4. u \in Seq(Chunk(Sendable)) /\ Len(u) = k
  <2>1. \A i \in 1..k : [msg |-> l.msg, nonce |-> l.nonce, part |-> l.next + i - 1] \in Chunk(Sendable)
    BY <1>1, <1>2 DEF Chunk
  <2>2. u \in [1..k -> Chunk(Sendable)]
    BY <2>1 DEF chunksOf
  <2> QED
    BY <2>2
<1>5. \A i \in 1..k : u[i].msg = l.msg /\ u[i].nonce = l.nonce /\ u[i].part = l.next + i - 1
  BY DEF chunksOf
<1>6. chan' = [chan EXCEPT ![l.from][l.to] = s \o u]
  BY DEF push
<1> HIDE DEF u, s
<1>7. /\ s \o u \in Seq(Chunk(Sendable)) /\ Len(s \o u) = Len(s) + k
      /\ \A i \in 1..Len(s) : (s \o u)[i] = s[i]
      /\ \A j \in Len(s) + 1..Len(s) + k : (s \o u)[j] = u[j - Len(s)]
  <2>1. /\ s \o u \in Seq(Chunk(Sendable)) /\ Len(s \o u) = Len(s) + k
        /\ \A i \in 1..Len(s) + k :
             (s \o u)[i] = IF i <= Len(s) THEN s[i] ELSE u[i - Len(s)]
    BY <1>3, <1>4, ConcatProperties
  <2>2. Len(s) \in Nat
    BY <1>3
  <2> QED
    BY <2>1, <2>2
<1>7b. \A j \in Len(s) + 1..Len(s) + k :
         /\ (s \o u)[j].msg = l.msg /\ (s \o u)[j].nonce = l.nonce
         /\ (s \o u)[j].part = l.next + (j - Len(s)) - 1
  <2> TAKE j \in Len(s) + 1..Len(s) + k
  <2>1. j - Len(s) \in 1..k
    BY <1>3
  <2> QED
    BY <1>5, <1>7, <2>1
<1>8. chan'[l.from][l.to] = s \o u
  BY <1>1, <1>3, <1>6
<1>9. chan' \in [Peers -> [Peers -> Seq(Chunk(Sendable))]]
  BY <1>1, <1>3, <1>6, <1>7
<1>10. \A p, q \in Peers : <<p, q>> # <<l.from, l.to>> => chan'[p][q] = chan[p][q]
  BY <1>1, <1>3, <1>6
<1>11. ASSUME NEW x \in loops'
       PROVE  \/ x \in loops /\ x # l
              \/ /\ x \in LoopsOf(Sendable)
                 /\ x.msg = l.msg /\ x.from = l.from /\ x.to = l.to
                 /\ x.session = l.session /\ x.nonce = l.nonce
                 /\ x.next = l.next + k
                 /\ x.next <= LastPart(l.msg)
  <2>1. CASE x \in loops \ {l}
    BY <2>1
  <2>2. CASE x \in Remaining(l, k)
    BY <1>1, <2>2 DEF Remaining, LoopsOf
  <2> QED
    BY <2>1, <2>2 DEF push
<1> QED
  BY <1>3, <1>7, <1>7b, <1>8, <1>9, <1>10, <1>11 DEF s

(* push keeps the types, *)
LEMMA PushTyped ==
  ASSUME NEW Sendable, WireTyped(Sendable), NEW l \in LoopsOf(Sendable),
         NEW k \in Nat, l.next + k <= LastPart(l.msg) + 1, push(l, k),
         nonce' \in [Peers -> [Actions -> 0..NonceMod - 1]],
         UNCHANGED <<session, sessions, partial, aborted, cut>>
  PROVE  WireTyped(Sendable)'
<1>1. chan' \in [Peers -> [Peers -> Seq(Chunk(Sendable))]]
  BY PushEffect
<1>2. ASSUME NEW x \in loops'
      PROVE  x \in LoopsOf(Sendable) /\ x.next <= LastPart(x.msg)
  <2>1. CASE x \in loops
    BY <2>1 DEF WireTyped, WireTypeOK, LoopsOf
  <2>2. CASE /\ x \in LoopsOf(Sendable) /\ x.msg = l.msg /\ x.next <= LastPart(l.msg)
    BY <2>2 DEF LastPart
  <2>3. \A y \in loops' : \/ y \in loops
                         \/ /\ y \in LoopsOf(Sendable) /\ y.msg = l.msg
                            /\ y.next <= LastPart(l.msg)
    BY PushEffect
  <2> QED
    BY <2>1, <2>2, <2>3
<1> QED
  BY <1>1, <1>2 DEF WireTyped, WireTypeOK, LoopsOf

(* and what the metadata will be, if its loop may go on. *)
LEMMA PushFits ==
  ASSUME NEW Sendable, WireTyped(Sendable), WireInv, NEW l \in LoopsOf(Sendable),
         NEW k \in Nat, l.next + k <= LastPart(l.msg) + 1, push(l, k),
         UNCHANGED <<session, sessions, partial>>,
         l.session <= sessions,
         \A x \in loops : x.from = l.from /\ x.msg.action = l.msg.action /\ x.nonce = l.nonce
                           => x = l,
         session[l.to][l.from] # 0 /\ l.next > 0
           => OpenAt(l.from, l.to, l.msg, l.nonce, Len(chan[l.from][l.to]) + 1)
  PROVE  WireInv'
<1> DEFINE p == l.from
           q == l.to
           s == chan[p][q]
           t == chan'[p][q]
           old(x) == x \in loops /\ x # l
           new(x) == /\ x \in LoopsOf(Sendable)
                     /\ x.msg = l.msg /\ x.from = l.from /\ x.to = l.to
                     /\ x.session = l.session /\ x.nonce = l.nonce
                     /\ x.next = l.next + k
                     /\ x.next <= LastPart(l.msg)
<1>1. /\ l.msg \in Sendable /\ p \in Peers /\ q \in Peers
      /\ l.nonce \in 0..NonceMod - 1 /\ l.next \in Nat
      /\ LastPart(l.msg) \in Nat /\ LastPart(l.msg) > 0
  BY LastPartType DEF LoopsOf
<1>2. /\ Len(s) \in Nat /\ Len(t) = Len(s) + k
      /\ \A i \in 1..Len(s) : t[i] = s[i]
      /\ \A j \in Len(s) + 1..Len(s) + k :
           /\ t[j].msg = l.msg /\ t[j].nonce = l.nonce
           /\ t[j].part = l.next + (j - Len(s)) - 1
      /\ \A a, b \in Peers : <<a, b>> # <<p, q>> => chan'[a][b] = chan[a][b]
  <2>1. s \in Seq(Chunk(Sendable))
    BY PushEffect
  <2> QED
    BY <2>1, PushEffect
<1>3. \A x \in loops' : old(x) \/ new(x)
  BY PushEffect
<1> HIDE DEF p, q, s, t
<1>4. \A x \in loops' : old(x) /\ x.from = l.from
                         => ~(x.msg.action = l.msg.action /\ x.nonce = l.nonce)
  OBVIOUS
<1>5. NoncesDiffer'
  <2> SUFFICES ASSUME NEW l1 \in loops', NEW l2 \in loops', l1.from = l2.from,
                      l1.msg.action = l2.msg.action, l1.nonce = l2.nonce
               PROVE  l1 = l2
    BY DEF NoncesDiffer
  <2>1. CASE old(l1) /\ old(l2)
    BY <2>1 DEF WireInv, NoncesDiffer
  <2>2. CASE new(l1) /\ new(l2)
    BY <2>2 DEF LoopsOf
  <2>3. CASE old(l1) /\ new(l2)
    BY <2>3, <1>4
  <2>4. CASE new(l1) /\ old(l2)
    BY <2>4, <1>4
  <2> QED
    BY <1>3, <2>1, <2>2, <2>3, <2>4
<1>6. SessionsCounted'
  BY <1>3 DEF WireInv, SessionsCounted
<1>7. \A m, n : partial'[q][p][m.action][n].meta = partial[q][p][m.action][n].meta
  OBVIOUS
<1>8. ASSUME NEW meta, NEW m, NEW n, NEW i \in 1..Len(s) + 1, Open(s, meta, m, n, i)
      PROVE  Open(t, meta, m, n, i)
  BY <1>2, <1>8, OpenPrefix
<1>9. ASSUME NEW d \in 1..k + 1, l.next + d - 1 > 0, l.next + d - 1 <= LastPart(l.msg),
             session[q][p] # 0
      PROVE  Open(t, partial[q][p][l.msg.action][l.nonce].meta, l.msg, l.nonce, Len(s) + d)
  <2> DEFINE meta == partial[q][p][l.msg.action][l.nonce].meta
  <2>1. CASE l.next = 0
    <3>1. d > 1 /\ Len(s) + 1 \in Len(s) + 1..Len(s) + k
      BY <1>1, <1>2, <1>9, <2>1
    <3>2. /\ t[Len(s) + 1].msg = l.msg /\ t[Len(s) + 1].nonce = l.nonce
          /\ t[Len(s) + 1].part = 0
      BY <1>2, <2>1, <3>1
    <3>3. Open(t, meta, l.msg, l.nonce, (Len(s) + 1) + 1)
      <4> HIDE DEF meta
      <4> QED
        <5>1. Len(s) + 1 \in Nat /\ Len(s) + 1 > 0
          BY <1>2
        <5> QED
          BY <3>2, <5>1, OpenStarts
    <3>4. \A j \in (Len(s) + 1) + 1..(Len(s) + d) - 1 : Quiet(t[j], l.msg.action, l.nonce)
      <4> TAKE j \in (Len(s) + 1) + 1..(Len(s) + d) - 1
      <4>1. j - Len(s) \in 2..d - 1 /\ j \in Len(s) + 1..Len(s) + k
        BY <1>1, <1>2, <1>9
      <4>2. t[j].msg = l.msg /\ t[j].part = j - Len(s) - 1
        BY <1>2, <2>1, <4>1
      <4>3. t[j].part # 0 /\ t[j].part # LastPart(t[j].msg)
        BY <1>1, <1>2, <1>9, <2>1, <4>1, <4>2
      <4> QED
        BY <4>3 DEF Quiet, IsLast
    <3> HIDE DEF meta
    <3>5. Open(t, meta, l.msg, l.nonce, Len(s) + d)
      <4>1. /\ (Len(s) + 1) + 1 \in Nat /\ Len(s) + d \in Nat
            /\ (Len(s) + 1) + 1 <= Len(s) + d /\ (Len(s) + 1) + 1 > 0
        BY <1>2, <1>9, <3>1
      <4> QED
        BY <3>3, <3>4, <4>1, OpenLasts
    <3> QED
      BY <3>5 DEF meta
  <2>2. CASE l.next > 0
    <3>1. Open(s, meta, l.msg, l.nonce, Len(s) + 1)
      BY <1>9, <2>2 DEF OpenAt, p, q, s
    <3> HIDE DEF meta
    <3>2. Open(t, meta, l.msg, l.nonce, Len(s) + 1)
      BY <1>2, <1>8, <3>1
    <3>3. \A j \in Len(s) + 1..(Len(s) + d) - 1 : Quiet(t[j], l.msg.action, l.nonce)
      <4> TAKE j \in Len(s) + 1..(Len(s) + d) - 1
      <4>1. j - Len(s) \in 1..d - 1 /\ j \in Len(s) + 1..Len(s) + k
        BY <1>1, <1>2, <1>9
      <4>2. t[j].msg = l.msg /\ t[j].part = l.next + (j - Len(s)) - 1
        BY <1>2, <4>1
      <4>3. t[j].part # 0 /\ t[j].part # LastPart(t[j].msg)
        BY <1>1, <1>2, <1>9, <2>2, <4>1, <4>2
      <4> QED
        BY <4>3 DEF Quiet, IsLast
    <3>4. Open(t, meta, l.msg, l.nonce, Len(s) + d)
      <4>1. /\ Len(s) + 1 \in Nat /\ Len(s) + d \in Nat
            /\ Len(s) + 1 <= Len(s) + d /\ Len(s) + 1 > 0
        BY <1>2, <1>9
      <4> QED
        BY <3>2, <3>3, <4>1, OpenLasts
    <3> QED
      BY <3>4 DEF meta
  <2> QED
    BY <1>1, <2>1, <2>2
<1>10. ASSUME NEW a \in Peers, NEW b \in Peers, NEW i \in 1..Len(chan'[a][b]),
              session[b][a] # 0, chan'[a][b][i].part > 0
       PROVE  Open(chan'[a][b], partial[b][a][chan'[a][b][i].msg.action][chan'[a][b][i].nonce].meta,
                   chan'[a][b][i].msg, chan'[a][b][i].nonce, i)
  <2>1. CASE <<a, b>> # <<p, q>>
    BY <1>2, <1>10, <2>1 DEF WireInv, ChunksFit, OpenAt
  <2>2. CASE a = p /\ b = q /\ i \in 1..Len(s)
    <3>1. t[i] = s[i]
      BY <1>2, <2>2
    <3>2. Open(s, partial[q][p][s[i].msg.action][s[i].nonce].meta, s[i].msg, s[i].nonce, i)
      BY <1>1, <1>10, <2>2, <3>1 DEF WireInv, ChunksFit, OpenAt, s, t
    <3>3. Open(t, partial[q][p][s[i].msg.action][s[i].nonce].meta, s[i].msg, s[i].nonce, i)
      <4>1. i \in 1..Len(s) + 1
        BY <1>2, <2>2
      <4> QED
        BY <1>8, <3>2, <4>1
    <3> QED
      BY <2>2, <3>1, <3>3 DEF t
  <2>3. CASE a = p /\ b = q /\ i \notin 1..Len(s)
    <3>1. i \in 1..Len(t) /\ t[i] = chan'[a][b][i]
      BY <2>3, <1>10 DEF t
    <3>2. PICK d \in 1..k : i = Len(s) + d
      <4>1. i - Len(s) \in 1..k /\ i = Len(s) + (i - Len(s))
        BY <1>2, <2>3, <3>1
      <4> QED
        BY <4>1
    <3>3. t[i].msg = l.msg /\ t[i].nonce = l.nonce /\ t[i].part = l.next + d - 1
      <4>1. i \in Len(s) + 1..Len(s) + k /\ i - Len(s) = d
        BY <1>2, <3>2
      <4> QED
        BY <1>2, <4>1
    <3>4. Open(t, partial[q][p][l.msg.action][l.nonce].meta, l.msg, l.nonce, Len(s) + d)
      <4>1. /\ d \in 1..k + 1 /\ l.next + d - 1 > 0 /\ l.next + d - 1 <= LastPart(l.msg)
            /\ session[q][p] # 0
        BY <1>1, <1>10, <2>3, <3>1, <3>2, <3>3
      <4> QED
        BY <1>9, <4>1
    <3> QED
      BY <2>3, <3>1, <3>2, <3>3, <3>4 DEF t
  <2> QED
    BY <2>1, <2>2, <2>3
<1>11. ASSUME NEW x \in loops', session[x.from][x.to] = x.session,
              session[x.to][x.from] # 0, x.next > 0
       PROVE  Open(chan'[x.from][x.to], partial[x.to][x.from][x.msg.action][x.nonce].meta,
                   x.msg, x.nonce, Len(chan'[x.from][x.to]) + 1)
  <2>1. CASE new(x)
    <3>1. Open(t, partial[q][p][l.msg.action][l.nonce].meta, l.msg, l.nonce, Len(s) + (k + 1))
      BY <1>1, <1>9, <1>11, <2>1 DEF p, q
    <3>2. Len(t) + 1 = Len(s) + (k + 1)
      BY <1>2
    <3> QED
      BY <2>1, <3>1, <3>2 DEF p, q, t
  <2>2. CASE old(x)
    <3>0. x.from \in Peers /\ x.to \in Peers
      BY <2>2 DEF WireTyped, WireTypeOK
    <3>1. Open(chan[x.from][x.to], partial[x.to][x.from][x.msg.action][x.nonce].meta,
               x.msg, x.nonce, Len(chan[x.from][x.to]) + 1)
      BY <1>11, <2>2 DEF WireInv, ChunksFit, OpenAt
    <3>2. CASE <<x.from, x.to>> # <<p, q>>
      BY <1>2, <3>0, <3>1, <3>2
    <3>3. CASE x.from = p /\ x.to = q
      <4> DEFINE meta == partial[x.to][x.from][x.msg.action][x.nonce].meta
      <4>1. Open(s, meta, x.msg, x.nonce, Len(s) + 1)
        BY <3>1, <3>3 DEF s
      <4> HIDE DEF meta
      <4>2. Open(t, meta, x.msg, x.nonce, Len(s) + 1)
        BY <1>2, <1>8, <4>1
      <4>3. \A j \in Len(s) + 1..(Len(t) + 1) - 1 : Quiet(t[j], x.msg.action, x.nonce)
        <5> TAKE j \in Len(s) + 1..(Len(t) + 1) - 1
        <5>1. j \in Len(s) + 1..Len(s) + k
          BY <1>2
        <5>2. t[j].msg = l.msg /\ t[j].nonce = l.nonce
          BY <1>2, <5>1
        <5>3. ~(x.msg.action = l.msg.action /\ x.nonce = l.nonce)
          BY <1>4, <2>2, <3>3 DEF p
        <5> QED
          BY <5>2, <5>3 DEF Quiet
      <4>4. Open(t, meta, x.msg, x.nonce, Len(t) + 1)
        BY <1>2, <4>2, <4>3, OpenLasts
      <4> QED
        BY <3>3, <4>4 DEF meta, t
    <3> QED
      BY <3>2, <3>3
  <2> QED
    BY <1>3, <2>1, <2>2
<1>12. ChunksFit'
  BY <1>10, <1>11 DEF ChunksFit, OpenAt
<1> QED
  BY <1>5, <1>6, <1>12 DEF WireInv

-----------------------------------------------------------------------------
(* The invariant of the wire, for messages of known actions. *)
WireOK(Sendable) == WireTyped(Sendable) /\ WireInv

LEMMA EntryType ==
  ASSUME NEW Sendable, WireTyped(Sendable), NEW p \in Peers, NEW q \in Peers,
         NEW a \in Actions, NEW n \in 0..NonceMod - 1
  PROVE  /\ partial \in [Peers -> [Peers -> [Actions -> [0..NonceMod - 1 -> Entries(Sendable)]]]]
         /\ partial[q][p][a][n] \in Entries(Sendable)
<1>1. partial \in [Peers -> [Peers -> [Actions -> [0..NonceMod - 1 -> Entries(Sendable)]]]]
  BY DEF WireTyped, WireTypeOK, Entries
<1>2. partial[q] \in [Peers -> [Actions -> [0..NonceMod - 1 -> Entries(Sendable)]]]
  BY <1>1
<1>3. partial[q][p] \in [Actions -> [0..NonceMod - 1 -> Entries(Sendable)]]
  BY <1>2
<1>4. partial[q][p][a] \in [0..NonceMod - 1 -> Entries(Sendable)]
  BY <1>3
<1>5. partial[q][p][a][n] \in Entries(Sendable)
  BY <1>4
<1> QED
  BY <1>1, <1>5

LEMMA LoopType ==
  ASSUME NEW Sendable, WireOK(Sendable), NEW l \in loops
  PROVE  /\ l \in LoopsOf(Sendable) /\ l.next <= LastPart(l.msg)
         /\ l.msg \in Sendable /\ l.from \in Peers /\ l.to \in Peers
         /\ l.session \in Nat /\ l.session > 0 /\ l.session <= sessions
         /\ l.next \in Nat
<1>1. l \in LoopsOf(Sendable) /\ l.next <= LastPart(l.msg)
  BY DEF WireOK, WireTyped, WireTypeOK, LoopsOf
<1>2. l.session <= sessions
  BY DEF WireOK, WireInv, SessionsCounted
<1>3. l.session \in 1..MaxSessions
  BY <1>1 DEF LoopsOf
<1> QED
  BY <1>1, <1>2, <1>3, WireAssumption DEF LoopsOf

LEMMA SessionsType ==
  ASSUME NEW Sendable, WireOK(Sendable)
  PROVE  /\ sessions \in 0..MaxSessions /\ sessions \in Nat
         /\ session \in [Peers -> [Peers -> 0..MaxSessions]]
         /\ \A p, q \in Peers : session[p][q] \in Nat /\ session[p][q] <= sessions
<1>1. /\ sessions \in 0..MaxSessions
      /\ session \in [Peers -> [Peers -> 0..MaxSessions]]
  BY DEF WireOK, WireTyped, WireTypeOK
<1> QED
  BY <1>1, WireAssumption DEF WireOK, WireInv, SessionsCounted

(* The operations of the wire keep it. *)
LEMMA SendKeeps ==
  ASSUME NEW Sendable, WireOK(Sendable), NEW p \in Peers, NEW q \in Peers,
         NEW m \in Sendable, send(p, q, m),
         UNCHANGED <<session, sessions, partial, aborted, cut>>
  PROVE  WireOK(Sendable)'
<1> DEFINE l == [msg |-> m, from |-> p, to |-> q, session |-> session[p][q],
                 nonce |-> nonce[p][m.action], next |-> 0]
<1>1. /\ session[p][q] \in 0..MaxSessions /\ session[p][q] # 0
      /\ session[p][q] <= sessions
      /\ m.action \in Actions /\ nonce[p][m.action] \in 0..NonceMod - 1
      /\ nonce \in [Peers -> [Actions -> 0..NonceMod - 1]]
  BY DEF WireOK, WireTyped, WireTypeOK, send, WireInv, SessionsCounted
<1>2. l \in LoopsOf(Sendable)
  BY <1>1, WireAssumption DEF LoopsOf
<1>3. PICK k \in 0..LastPart(m) + 1 : push(l, k)
  BY DEF send
<1>4. /\ l.msg = m /\ l.from = p /\ l.to = q /\ l.session = session[p][q]
      /\ l.nonce = nonce[p][m.action] /\ l.next = 0
  OBVIOUS
<1>5. \A x \in loops : x.from = p /\ x.msg.action = m.action => x.nonce # nonce[p][m.action]
  BY DEF send, NonceFree
<1>6. LastPart(m) \in Nat /\ k \in Nat /\ k <= LastPart(m) + 1
  BY LastPartType DEF WireOK
<1>7. nonce' \in [Peers -> [Actions -> 0..NonceMod - 1]]
  <2>1. nextNonce(nonce[p][m.action]) \in 0..NonceMod - 1
    BY <1>1, NonceType, WireAssumption
  <2>2. nonce' = [nonce EXCEPT ![p][m.action] = nextNonce(nonce[p][m.action])]
    BY DEF send
  <2> QED
    BY <1>1, <2>1, <2>2
<1> HIDE DEF l
<1>8. WireTyped(Sendable)'
  BY <1>2, <1>3, <1>4, <1>6, <1>7, PushTyped DEF WireOK
<1>9. WireInv'
  <2>1. UNCHANGED <<session, sessions, partial>> /\ WireTyped(Sendable) /\ WireInv
    BY DEF WireOK
  <2>2. /\ k \in Nat /\ l.next + k <= LastPart(l.msg) + 1 /\ l.session <= sessions
        /\ ~(l.next > 0)
    BY <1>1, <1>4, <1>6
  <2>3. \A x \in loops : x.from = l.from /\ x.msg.action = l.msg.action /\ x.nonce = l.nonce
                         => x = l
    BY <1>4, <1>5
  <2> QED
    BY <1>2, <1>3, <2>1, <2>2, <2>3, PushFits
<1> QED
  BY <1>8, <1>9 DEF WireOK

LEMMA DrainedKeeps ==
  ASSUME NEW Sendable, WireOK(Sendable), NEW l \in loops, drained(l)
  PROVE  WireOK(Sendable)'
<1>1. /\ l \in LoopsOf(Sendable) /\ l.next <= LastPart(l.msg)
      /\ nonce \in [Peers -> [Actions -> 0..NonceMod - 1]]
  BY DEF WireOK, WireTyped, WireTypeOK, LoopsOf
<1>2. LastPart(l.msg) \in Nat /\ l.next \in Nat
  BY <1>1, LastPartType DEF LoopsOf, WireOK
<1>3. PICK k \in 1..LastPart(l.msg) - l.next + 1 : push(l, k)
  BY DEF drained
<1>4. k \in Nat /\ l.next + k <= LastPart(l.msg) + 1
  BY <1>1, <1>2
<1>5. UNCHANGED <<session, sessions, nonce, partial, aborted, cut>>
  BY DEF drained
<1>6. WireTyped(Sendable)'
  BY <1>1, <1>3, <1>4, <1>5, PushTyped DEF WireOK
<1>7. /\ \A x \in loops : x.from = l.from /\ x.msg.action = l.msg.action /\ x.nonce = l.nonce
                           => x = l
      /\ l.session <= sessions
      /\ session[l.to][l.from] # 0 /\ l.next > 0
           => OpenAt(l.from, l.to, l.msg, l.nonce, Len(chan[l.from][l.to]) + 1)
  BY DEF WireOK, WireInv, NoncesDiffer, SessionsCounted, ChunksFit, drained, MayContinue
<1>8. WireInv'
  BY <1>1, <1>3, <1>4, <1>5, <1>7, PushFits DEF WireOK
<1> QED
  BY <1>6, <1>8 DEF WireOK

LEMMA StoppedKeeps ==
  ASSUME NEW Sendable, WireOK(Sendable), NEW l \in loops, stopped(l)
  PROVE  WireOK(Sendable)'
<1>1. /\ loops' \subseteq loops /\ cut' = cut \cup {l.msg}
      /\ UNCHANGED <<session, sessions, nonce, chan, partial, aborted>>
  BY DEF stopped
<1>2. l.msg \in Sendable
  BY DEF WireOK, WireTyped, WireTypeOK
<1>3. WireTyped(Sendable)'
  BY <1>1, <1>2 DEF WireOK, WireTyped, WireTypeOK
<1>4. WireInv'
  BY <1>1 DEF WireOK, WireInv, NoncesDiffer, SessionsCounted, ChunksFit, OpenAt
<1> QED
  BY <1>3, <1>4 DEF WireOK

(* A message that is aborted. *)
LEMMA AbortKeeps ==
  ASSUME NEW Sendable, WireOK(Sendable), NEW m \in Sendable,
         aborted' = aborted \cup {m},
         UNCHANGED <<session, sessions, nonce, loops, chan, partial, cut>>
  PROVE  WireOK(Sendable)'
BY DEF WireOK, WireTyped, WireTypeOK, WireInv, NoncesDiffer, SessionsCounted,
   ChunksFit, OpenAt

LEMMA QuietKeeps ==
  ASSUME NEW Sendable, WireOK(Sendable), UNCHANGED wireVars
  PROVE  WireOK(Sendable)'
BY DEF wireVars, WireOK, WireTyped, WireTypeOK, WireInv, NoncesDiffer, SessionsCounted,
   ChunksFit, OpenAt

LEMMA ExitKeeps ==
  ASSUME NEW Sendable, WireOK(Sendable), NEW p \in Peers, NEW q \in Peers, exitPeer(p, q)
  PROVE  WireOK(Sendable)'
<1>1. /\ session' = [session EXCEPT ![p][q] = 0]
      /\ partial' = [partial EXCEPT ![p][q] = Fresh]
      /\ UNCHANGED <<sessions, nonce, loops, chan, aborted, cut>>
  BY DEF exitPeer, clearTransmissions
<1>2. WireTyped(Sendable)'
  <2>1. Fresh \in [Actions -> [0..NonceMod - 1 -> Entries(Sendable)]]
    BY DEF Fresh, Nothing, Entries
  <2>2. session' \in [Peers -> [Peers -> 0..MaxSessions]]
    BY <1>1, WireAssumption DEF WireOK, WireTyped, WireTypeOK
  <2>3. partial' \in [Peers -> [Peers -> [Actions -> [0..NonceMod - 1 -> Entries(Sendable)]]]]
    BY <1>1, <2>1 DEF WireOK, WireTyped, WireTypeOK, Entries
  <2> QED
    BY <1>1, <2>2, <2>3 DEF WireOK, WireTyped, WireTypeOK, Entries
<1>3. \A a, b \in Peers : session'[a][b] = session[a][b] \/ session'[a][b] = 0
  BY <1>1 DEF WireOK, WireTyped, WireTypeOK
<1>4. \A a, b \in Peers : session'[b][a] # 0 => partial'[b][a] = partial[b][a]
  BY <1>1 DEF WireOK, WireTyped, WireTypeOK
<1>5. /\ \A l \in loops : l.session > 0 /\ l.from \in Peers /\ l.to \in Peers
      /\ sessions \in Nat
  BY LoopType, SessionsType
<1>6. NoncesDiffer' /\ SessionsCounted'
  BY <1>1, <1>3, <1>5 DEF WireOK, WireInv, NoncesDiffer, SessionsCounted
<1>7. ChunksFit'
  <2>0. chan' = chan /\ loops' = loops /\ ChunksFit
    BY <1>1 DEF WireOK, WireInv
  <2>1. ASSUME NEW a \in Peers, NEW b \in Peers, NEW i \in 1..Len(chan[a][b]),
               session'[b][a] # 0, chan[a][b][i].part > 0
        PROVE  Open(chan[a][b], partial'[b][a][chan[a][b][i].msg.action][chan[a][b][i].nonce].meta,
                    chan[a][b][i].msg, chan[a][b][i].nonce, i)
    BY <1>3, <1>4, <2>0, <2>1 DEF ChunksFit, OpenAt
  <2>2. ASSUME NEW l \in loops, session'[l.from][l.to] = l.session,
               session'[l.to][l.from] # 0, l.next > 0
        PROVE  Open(chan[l.from][l.to], partial'[l.to][l.from][l.msg.action][l.nonce].meta,
                    l.msg, l.nonce, Len(chan[l.from][l.to]) + 1)
    <3>1. session[l.from][l.to] = l.session /\ session[l.to][l.from] # 0
      BY <1>3, <1>5, <2>2
    <3> QED
      BY <1>4, <1>5, <2>0, <2>2, <3>1 DEF ChunksFit, OpenAt
  <2> QED
    BY <2>0, <2>1, <2>2 DEF ChunksFit, OpenAt
<1> QED
  BY <1>2, <1>6, <1>7 DEF WireOK, WireInv

LEMMA ActivateKeeps ==
  ASSUME NEW Sendable, WireOK(Sendable), NEW p \in Peers, NEW q \in Peers, activate(p, q)
  PROVE  WireOK(Sendable)'
<1>1. /\ p # q /\ sessions < MaxSessions /\ sessions' = sessions + 1
      /\ session' = [session EXCEPT ![p][q] = sessions + 1, ![q][p] = sessions + 1]
      /\ chan' = [chan EXCEPT ![p][q] = <<>>, ![q][p] = <<>>]
      /\ UNCHANGED <<nonce, loops, partial, aborted, cut>>
  BY DEF activate
<1>2. /\ session \in [Peers -> [Peers -> 0..MaxSessions]] /\ sessions \in 0..MaxSessions
      /\ chan \in [Peers -> [Peers -> Seq(Chunk(Sendable))]]
      /\ MaxSessions \in Nat
  BY WireAssumption DEF WireOK, WireTyped, WireTypeOK
<1>3. \A a, b \in Peers :
        /\ IF <<a, b>> = <<p, q>> \/ <<a, b>> = <<q, p>>
             THEN session'[a][b] = sessions + 1 /\ chan'[a][b] = <<>>
             ELSE session'[a][b] = session[a][b] /\ chan'[a][b] = chan[a][b]
  BY <1>1, <1>2
<1>4. WireTyped(Sendable)'
  <2>1. <<>> \in Seq(Chunk(Sendable)) /\ sessions + 1 \in 0..MaxSessions
    BY <1>1, <1>2
  <2>2. /\ chan' \in [Peers -> [Peers -> Seq(Chunk(Sendable))]]
        /\ session' \in [Peers -> [Peers -> 0..MaxSessions]]
    BY <1>1, <1>2, <2>1
  <2> QED
    BY <1>1, <2>1, <2>2 DEF WireOK, WireTyped, WireTypeOK
<1>5. \A l \in loops : /\ l.session <= sessions /\ l.from \in Peers /\ l.to \in Peers
                      /\ l.session \in Nat
  BY LoopType
<1>6. NoncesDiffer'
  BY <1>1 DEF WireOK, WireInv, NoncesDiffer
<1>7. SessionsCounted'
  <2>1. sessions \in Nat /\ sessions' = sessions + 1 /\ loops' = loops
    BY <1>1, SessionsType
  <2>2. ASSUME NEW a \in Peers, NEW b \in Peers
        PROVE  session'[a][b] <= sessions'
    <3>1. session[a][b] \in Nat /\ session[a][b] <= sessions
      BY SessionsType
    <3> QED
      BY <1>3, <2>1, <3>1
  <2> QED
    BY <1>5, <2>1, <2>2 DEF SessionsCounted
<1>8. ASSUME NEW a \in Peers, NEW b \in Peers, NEW i \in 1..Len(chan'[a][b])
      PROVE  chan'[a][b] = chan[a][b] /\ session'[b][a] = session[b][a]
  <2>1. <<a, b>> # <<p, q>> /\ <<a, b>> # <<q, p>>
    BY <1>3
  <2> QED
    BY <2>1, <1>3
<1>9. ASSUME NEW l \in loops, session'[l.from][l.to] = l.session
      PROVE  /\ chan'[l.from][l.to] = chan[l.from][l.to]
             /\ session'[l.from][l.to] = session[l.from][l.to]
             /\ session'[l.to][l.from] = session[l.to][l.from]
  <2>1. l.session # sessions + 1
    BY <1>2, <1>5
  <2>2. <<l.from, l.to>> # <<p, q>> /\ <<l.from, l.to>> # <<q, p>>
    BY <1>3, <1>5, <1>9, <2>1
  <2> QED
    BY <2>2, <1>3, <1>5
<1>10. ChunksFit'
  <2>0. partial' = partial /\ loops' = loops /\ ChunksFit
    BY <1>1 DEF WireOK, WireInv
  <2>1. ASSUME NEW a \in Peers, NEW b \in Peers, NEW i \in 1..Len(chan'[a][b]),
               session'[b][a] # 0, chan'[a][b][i].part > 0
        PROVE  Open(chan'[a][b], partial'[b][a][chan'[a][b][i].msg.action][chan'[a][b][i].nonce].meta,
                    chan'[a][b][i].msg, chan'[a][b][i].nonce, i)
    <3>1. chan'[a][b] = chan[a][b] /\ session'[b][a] = session[b][a]
      BY <1>8
    <3> QED
      BY <2>0, <2>1, <3>1 DEF ChunksFit, OpenAt
  <2>2. ASSUME NEW l \in loops, session'[l.from][l.to] = l.session,
               session'[l.to][l.from] # 0, l.next > 0
        PROVE  Open(chan'[l.from][l.to], partial'[l.to][l.from][l.msg.action][l.nonce].meta,
                    l.msg, l.nonce, Len(chan'[l.from][l.to]) + 1)
    BY <1>9, <2>0, <2>2 DEF ChunksFit, OpenAt
  <2> QED
    BY <2>0, <2>1, <2>2 DEF ChunksFit, OpenAt
<1> QED
  BY <1>4, <1>6, <1>7, <1>10 DEF WireOK, WireInv

(* handleData, whose assembly is that of OpenTail. *)
LEMMA HandleKeeps ==
  ASSUME NEW Sendable, WireOK(Sendable), NEW p \in Peers, NEW q \in Peers,
         chan[p][q] # <<>>, handleData(p, q)
  PROVE  WireOK(Sendable)'
<1> DEFINE s == chan[p][q]
           c == Head(s)
           e == partial[q][p][c.msg.action][c.nonce]
           f == kept(p, q, c)
<1>1. /\ s \in Seq(Chunk(Sendable)) /\ s # <<>> /\ c \in Chunk(Sendable) /\ c = s[1]
      /\ Tail(s) \in Seq(Chunk(Sendable)) /\ Len(Tail(s)) = Len(s) - 1
      /\ Len(s) \in Nat /\ Len(s) > 0
      /\ \A k \in 1..Len(s) - 1 : Tail(s)[k] = s[k + 1]
  <2>1. s \in Seq(Chunk(Sendable)) /\ s # <<>>
    BY DEF WireOK, WireTyped, WireTypeOK
  <2> HIDE DEF s
  <2> QED
    BY <2>1
<1>2. /\ c.msg \in Sendable /\ c.msg.action \in Actions /\ c.nonce \in 0..NonceMod - 1
      /\ c.part \in Nat /\ LastPart(c.msg) > 0
  BY <1>1, LastPartType DEF Chunk, WireOK, WireTyped
<1>3. /\ partial \in [Peers -> [Peers -> [Actions -> [0..NonceMod - 1 -> Entries(Sendable)]]]]
      /\ e \in Entries(Sendable)
  BY <1>2, EntryType DEF WireOK
<1>4. /\ f \in Entries(Sendable)
      /\ c.part = 0 => f.meta = c.msg
      /\ c.part # 0 /\ ~IsLast(c) => f.meta = e.meta
  <2>1. CASE IsLast(c)
    <3>1. f = Nothing /\ c.part # 0
      BY <1>2, <2>1 DEF kept, IsLast
    <3>2. Nothing \in Entries(Sendable)
      BY DEF Nothing, Entries
    <3> QED
      BY <2>1, <3>1, <3>2
  <2>2. CASE ~IsLast(c) /\ c.part = 0
    <3>1. f = [e EXCEPT !.meta = c.msg]
      BY <2>2 DEF kept, assembled
    <3> HIDE DEF e, f, c
    <3>2. [e EXCEPT !.meta = c.msg] \in Entries(Sendable) /\ [e EXCEPT !.meta = c.msg].meta = c.msg
      BY <1>2, <1>3 DEF Entries
    <3> QED
      BY <2>2, <3>1, <3>2
  <2>3. CASE ~IsLast(c) /\ c.part # 0
    <3>1. f = [e EXCEPT !.chunks = Append(e.chunks, c)]
      BY <2>3 DEF kept, assembled
    <3>2. Append(e.chunks, c) \in Seq(Chunk(Sendable))
      <4> HIDE DEF e, c
      <4>1. e.chunks \in Seq(Chunk(Sendable))
        BY <1>3 DEF Entries
      <4> QED
        BY <1>1, <4>1
    <3> DEFINE more == Append(e.chunks, c)
    <3> HIDE DEF e, f, c, more
    <3>3. /\ [e EXCEPT !.chunks = more] \in Entries(Sendable)
          /\ [e EXCEPT !.chunks = more].meta = e.meta
      BY <1>3, <3>2 DEF Entries, more
    <3> QED
      BY <2>3, <3>1, <3>3 DEF more
  <2> QED
    BY <2>1, <2>2, <2>3
<1>5. /\ chan' = [chan EXCEPT ![p][q] = Tail(s)]
      /\ partial' = IF session[q][p] = 0 THEN partial
                      ELSE [partial EXCEPT ![q][p][c.msg.action][c.nonce] = f]
      /\ UNCHANGED <<session, sessions, nonce, loops, aborted, cut>>
  BY DEF handleData
<1>6. chan \in [Peers -> [Peers -> Seq(Chunk(Sendable))]]
  BY DEF WireOK, WireTyped, WireTypeOK
<1> HIDE DEF s, c, e, f
<1>7. WireTyped(Sendable)'
  <2>1. partial' \in [Peers -> [Peers -> [Actions -> [0..NonceMod - 1 -> Entries(Sendable)]]]]
    BY <1>2, <1>3, <1>4, <1>5
  <2>2. chan' \in [Peers -> [Peers -> Seq(Chunk(Sendable))]]
    BY <1>1, <1>5, <1>6
  <2> QED
    BY <1>5, <2>1, <2>2 DEF WireOK, WireTyped, WireTypeOK, Entries
<1>8. NoncesDiffer' /\ SessionsCounted'
  BY <1>5 DEF WireOK, WireInv, NoncesDiffer, SessionsCounted
<1>9. /\ chan'[p][q] = Tail(s)
      /\ \A a, b \in Peers : <<a, b>> # <<p, q>> => chan'[a][b] = chan[a][b] /\ partial'[b][a] = partial[b][a]
  BY <1>3, <1>5, <1>6
<1>10. \A a \in Actions, n \in 0..NonceMod - 1 :
         session[q][p] # 0 =>
           partial'[q][p][a][n] = IF a = c.msg.action /\ n = c.nonce THEN f ELSE partial[q][p][a][n]
  <2>1. ASSUME session[q][p] # 0
        PROVE  partial'[q][p] = [partial[q][p] EXCEPT ![c.msg.action][c.nonce] = f]
    BY <1>2, <1>3, <1>5, <2>1
  <2>2. partial[q][p] \in [Actions -> [0..NonceMod - 1 -> Entries(Sendable)]]
    BY <1>3
  <2>3. ASSUME NEW a \in Actions, NEW n \in 0..NonceMod - 1, session[q][p] # 0
        PROVE  partial'[q][p][a][n] = IF a = c.msg.action /\ n = c.nonce THEN f
                                                           ELSE partial[q][p][a][n]
    <3>1. partial[q][p][c.msg.action] \in [0..NonceMod - 1 -> Entries(Sendable)]
      BY <1>2, <2>2
    <3>2. partial'[q][p][a] = IF a = c.msg.action
                                THEN [partial[q][p][c.msg.action] EXCEPT ![c.nonce] = f]
                                ELSE partial[q][p][a]
      BY <1>2, <2>1, <2>2, <2>3
    <3> QED
      BY <1>2, <3>1, <3>2
  <2> QED
    BY <2>3
<1>11. ASSUME NEW m, NEW n, NEW i \in Nat, i > 0, i <= Len(s), m.action \in Actions, n \in 0..NonceMod - 1,
              session[q][p] # 0, OpenAt(p, q, m, n, i + 1)
       PROVE  Open(chan'[p][q], partial'[q][p][m.action][n].meta, m, n, i)
  <2> DEFINE meta == partial[q][p][m.action][n].meta
             new == partial'[q][p][m.action][n].meta
  <2>1. Open(s, meta, m, n, i + 1)
    BY <1>11 DEF OpenAt, s
  <2>2. /\ s[1].msg.action = m.action /\ s[1].nonce = n
             => /\ s[1].part = 0 => new = s[1].msg
                /\ s[1].part # 0 /\ ~IsLast(s[1]) => new = meta
        /\ ~(s[1].msg.action = m.action /\ s[1].nonce = n) => new = meta
    BY <1>1, <1>4, <1>10, <1>11 DEF e
  <2>3. \A k \in 1..i - 1 : Tail(s)[k] = s[k + 1]
    BY <1>1, <1>11
  <2> HIDE DEF meta, new
  <2>4. Open(Tail(s), new, m, n, i)
    BY <1>11, <2>1, <2>2, <2>3, OpenTail
  <2> QED
    BY <1>9, <2>4 DEF new
<1>12. ASSUME NEW a \in Peers, NEW b \in Peers, NEW i \in 1..Len(chan'[a][b]),
              session[b][a] # 0, chan'[a][b][i].part > 0
       PROVE  Open(chan'[a][b], partial'[b][a][chan'[a][b][i].msg.action][chan'[a][b][i].nonce].meta,
                   chan'[a][b][i].msg, chan'[a][b][i].nonce, i)
  <2>1. CASE <<a, b>> # <<p, q>>
    <3>1. chan'[a][b] = chan[a][b] /\ partial'[b][a] = partial[b][a]
      BY <1>9, <2>1
    <3>2. OpenAt(a, b, chan[a][b][i].msg, chan[a][b][i].nonce, i)
      BY <1>12, <3>1 DEF WireOK, WireInv, ChunksFit
    <3> QED
      BY <3>1, <3>2 DEF OpenAt
  <2>2. CASE a = p /\ b = q
    <3>1. /\ chan'[a][b][i] = s[i + 1] /\ i + 1 \in 1..Len(s) /\ i \in Nat /\ i > 0 /\ i <= Len(s)
      BY <1>1, <1>9, <1>12, <2>2
    <3>2. s[i + 1] \in Chunk(Sendable)
      BY <1>1, <3>1
    <3>3. OpenAt(p, q, s[i + 1].msg, s[i + 1].nonce, i + 1)
      BY <1>12, <2>2, <3>1 DEF WireOK, WireInv, ChunksFit, s
    <3>4. s[i + 1].msg.action \in Actions /\ s[i + 1].nonce \in 0..NonceMod - 1
      BY <3>2 DEF Chunk, WireOK, WireTyped
    <3>5. session[q][p] # 0
      BY <1>12, <2>2
    <3>6. Open(chan'[p][q], partial'[q][p][s[i + 1].msg.action][s[i + 1].nonce].meta,
               s[i + 1].msg, s[i + 1].nonce, i)
      BY <1>11, <3>1, <3>3, <3>4, <3>5
    <3> QED
      BY <2>2, <3>1, <3>6
  <2> QED
    BY <2>1, <2>2
<1>13. ASSUME NEW l \in loops, session[l.from][l.to] = l.session,
              session[l.to][l.from] # 0, l.next > 0
       PROVE  Open(chan'[l.from][l.to], partial'[l.to][l.from][l.msg.action][l.nonce].meta,
                   l.msg, l.nonce, Len(chan'[l.from][l.to]) + 1)
  <2>1. /\ l.from \in Peers /\ l.to \in Peers /\ l.msg.action \in Actions
        /\ l.nonce \in 0..NonceMod - 1
    BY DEF WireOK, WireTyped, WireTypeOK
  <2>2. OpenAt(l.from, l.to, l.msg, l.nonce, Len(chan[l.from][l.to]) + 1)
    BY <1>13 DEF WireOK, WireInv, ChunksFit
  <2>3. CASE <<l.from, l.to>> # <<p, q>>
    BY <1>9, <2>1, <2>2, <2>3 DEF OpenAt
  <2>4. CASE l.from = p /\ l.to = q
    <3>1. OpenAt(p, q, l.msg, l.nonce, Len(s) + 1) /\ session[q][p] # 0
      BY <1>13, <2>2, <2>4 DEF s
    <3>2. Open(chan'[p][q], partial'[q][p][l.msg.action][l.nonce].meta, l.msg, l.nonce, Len(s))
      <4>1. Len(s) \in Nat /\ Len(s) > 0 /\ Len(s) <= Len(s)
        BY <1>1
      <4> QED
        BY <1>11, <2>1, <3>1, <4>1
    <3>3. Len(chan'[p][q]) + 1 = Len(s)
      BY <1>1, <1>9
    <3> QED
      BY <2>4, <3>2, <3>3
  <2> QED
    BY <2>1, <2>3, <2>4
<1>14. ChunksFit'
  BY <1>5, <1>12, <1>13 DEF ChunksFit, OpenAt
<1> QED
  BY <1>7, <1>8, <1>14 DEF WireOK, WireInv

(* A message that is complete has its own metadata (Whole has the rest). *)
LEMMA OwnMetadata ==
  ASSUME NEW Sendable, WireOK(Sendable), NEW p \in Peers, NEW q \in Peers, Completes(p, q)
  PROVE  /\ Head(chan[p][q]).msg \in Sendable
         /\ payload(p, q).meta = Head(chan[p][q]).msg
<1> DEFINE s == chan[p][q]
           c == Head(s)
<1>1. s \in Seq(Chunk(Sendable)) /\ s # <<>>
  BY DEF WireOK, WireTyped, WireTypeOK, Completes
<1> HIDE DEF s
<1>2. c = s[1] /\ c \in Chunk(Sendable) /\ 1 \in 1..Len(s)
  BY <1>1
<1>3. /\ c.msg \in Sendable /\ c.msg.action \in Actions /\ c.nonce \in 0..NonceMod - 1
      /\ c.part > 0
  BY <1>2, LastPartType DEF Chunk, WireOK, WireTyped, Completes, IsLast, s
<1>4. OpenAt(p, q, c.msg, c.nonce, 1)
  BY <1>2, <1>3 DEF WireOK, WireInv, ChunksFit, Completes, s
<1>5. partial[q][p][c.msg.action][c.nonce].meta = c.msg
  BY <1>4 DEF OpenAt, Open
<1>6. partial[q][p][c.msg.action][c.nonce] \in Entries(Sendable)
  BY <1>3, EntryType DEF WireOK
<1>7. payload(p, q) = [partial[q][p][c.msg.action][c.nonce] EXCEPT
                        !.chunks = Append(partial[q][p][c.msg.action][c.nonce].chunks, c)]
  <2>1. payload(p, q) = IF c.part = 0
                          THEN [partial[q][p][c.msg.action][c.nonce] EXCEPT !.meta = c.msg]
                          ELSE [partial[q][p][c.msg.action][c.nonce] EXCEPT
                                  !.chunks = Append(partial[q][p][c.msg.action][c.nonce].chunks, c)]
    BY DEF payload, assembled, s
  <2>2. c.part # 0
    BY <1>2, <1>3 DEF Chunk
  <2> QED
    BY <2>1, <2>2
<1> QED
  BY <1>3, <1>5, <1>6, <1>7 DEF s, Entries

(* At first nothing is on its way. *)
LEMMA WireStarts ==
  ASSUME NEW Sendable, \A m \in Sendable : m.action \in Actions,
         NEW who \in Peers, NEW past \in SUBSET Sendable, past # {} => MaxSessions > 0,
         WireInit(who, past)
  PROVE  WireOK(Sendable)
<1>1. /\ nonce = [p \in Peers |-> [a \in Actions |-> 0]] /\ loops = {} /\ cut = past
      /\ aborted = past /\ chan = [p \in Peers |-> [q \in Peers |-> <<>>]]
  BY DEF WireInit
<1>2. /\ 0 \in 0..NonceMod - 1 /\ 0 \in 0..MaxSessions /\ <<>> \in Seq(Chunk(Sendable))
  BY WireAssumption
<1>3. Fresh \in [Actions -> [0..NonceMod - 1 -> Entries(Sendable)]]
  BY DEF Fresh, Nothing, Entries
<1>4. /\ sessions \in 0..MaxSessions
      /\ session \in [Peers -> [Peers -> 0..MaxSessions]]
      /\ \A p, q \in Peers : session[p][q] <= sessions
  <2>1. CASE past = {}
    <3>1. sessions = 0 /\ session = [p \in Peers |-> [q \in Peers |-> 0]]
      BY <2>1 DEF WireInit
    <3> QED
      BY <1>2, <3>1
  <2>2. CASE past # {}
    <3>1. sessions = 1 /\ session = [p \in Peers |-> [q \in Peers |-> IF p # q THEN 1 ELSE 0]]
      BY <2>2 DEF WireInit
    <3>2. 1 \in 0..MaxSessions
      BY <2>2, WireAssumption
    <3> QED
      BY <1>2, <3>1, <3>2
  <2> QED
    BY <2>1, <2>2
<1>5. partial \in [Peers -> [Peers -> [Actions -> [0..NonceMod - 1 -> Entries(Sendable)]]]]
  <2>1. CASE past = {}
    BY <1>3, <2>1 DEF WireInit
  <2>2. CASE past # {}
    <3>1. PICK q \in Peers, m \in past :
            partial = [x \in Peers |-> [y \in Peers |->
                   IF <<x, y>> = <<q, who>>
                     THEN [Fresh EXCEPT ![m.action][0] = Leftover(m)]
                     ELSE Fresh]]
      BY <2>2 DEF WireInit
    <3>2. m \in Sendable /\ m.action \in Actions
      OBVIOUS
    <3>3. Leftover(m) \in Entries(Sendable)
      <4>1. LastPart(m) \in Nat /\ LastPart(m) > 0
        BY <3>2, ChunksAssumption DEF LastPart
      <4>2. \A i \in 1..LastPart(m) - 1 : [msg |-> m, nonce |-> 0, part |-> i] \in Chunk(Sendable)
        BY <1>2, <3>2, <4>1 DEF Chunk
      <4>3. [i \in 1..LastPart(m) - 1 |-> [msg |-> m, nonce |-> 0, part |-> i]] \in Seq(Chunk(Sendable))
        BY <4>1, <4>2
      <4> QED
        BY <3>2, <4>3 DEF Leftover, Entries
    <3>4. [Fresh EXCEPT ![m.action][0] = Leftover(m)] \in [Actions -> [0..NonceMod - 1 -> Entries(Sendable)]]
      BY <1>2, <1>3, <3>2, <3>3
    <3> QED
      BY <1>3, <3>1, <3>4
  <2> QED
    BY <2>1, <2>2
<1>6. WireTyped(Sendable)
  BY <1>1, <1>2, <1>4, <1>5 DEF WireTyped, WireTypeOK, Entries
<1>7. WireInv
  BY <1>1, <1>4 DEF WireInv, NoncesDiffer, SessionsCounted, ChunksFit
<1> QED
  BY <1>6, <1>7 DEF WireOK
-----------------------------------------------------------------------------
(* A chunk of a message of action a with nonce n, and the last one before i. *)
Same(c, a, n) == c.msg.action = a /\ c.nonce = n

LastSame(s, a, n, h, i) ==
  Same(s[h], a, n) /\ \A k \in h + 1..i - 1 : ~Same(s[k], a, n)

(* Data of m up to part j, with what was cut short before it. *)
Holds(data, m, j, gone) ==
  /\ \A k \in DOMAIN data : data[k].msg = m \/ data[k].msg \in gone
  /\ {data[k].part : k \in {x \in DOMAIN data : data[x].msg = m}} = 1..j - 1

(* Before the i-th chunk of s is handled, where the entry for a and n had   *)
(* data when the first is: no message is open under n that will be ended,   *)
Over(s, data, a, n, i, gone) ==
  \/ /\ \A k \in 1..i - 1 : ~Same(s[k], a, n)
     /\ \A k \in DOMAIN data : data[k].msg \in gone
  \/ \E h \in 1..i - 1 :
       LastSame(s, a, n, h, i) /\ (IsLast(s[h]) \/ s[h].msg \in gone)

(* or m is, and part j of it is the next. *)
Fits(s, data, m, n, i, j, gone) ==
  \/ /\ \A k \in 1..i - 1 : ~Same(s[k], m.action, n)
     /\ Holds(data, m, j, gone)
  \/ \E h \in 1..i - 1 :
       LastSame(s, m.action, n, h, i) /\ s[h].msg = m /\ s[h].part = j - 1

Due(s, data, m, n, i, j, gone) ==
  IF j = 0 THEN Over(s, data, m.action, n, i, gone)
           ELSE Fits(s, data, m, n, i, j, gone)

(* Parts of a message come in their order. *)
Rising(s, entries, L) ==
  /\ \A i, k \in 1..Len(s) :
       i < k /\ s[i].msg = s[k].msg => s[i].part < s[k].part
  /\ \A l \in L : \A k \in 1..Len(s) : s[k].msg = l.msg => s[k].part < l.next
  /\ \A a \in Actions, n \in 0..NonceMod - 1 :
       LET data == entries[a][n].chunks
       IN  \A i \in DOMAIN data :
             /\ \A k \in DOMAIN data :
                  i < k /\ data[i].msg = data[k].msg => data[i].part < data[k].part
             /\ \A k \in 1..Len(s) : data[i].msg = s[k].msg => data[i].part < s[k].part
             /\ \A l \in L : data[i].msg = l.msg => data[i].part < l.next

Alike(l1, l2) ==
  \/ l1.msg = l2.msg
  \/ l1.msg.action = l2.msg.action /\ l1.nonce = l2.nonce

(* The way from a peer to another in a session: the channel s, what the     *)
(* other has, and the loops that may go on.                                 *)
Lane(s, entries, L, on, gone) ==
  /\ \A i \in 1..Len(s) :
       Due(s, entries[s[i].msg.action][s[i].nonce].chunks,
           s[i].msg, s[i].nonce, i, s[i].part, gone)
  /\ \A l \in L :
       Due(s, entries[l.msg.action][l.nonce].chunks,
           l.msg, l.nonce, Len(s) + 1, l.next, gone)
  /\ on # 0 => \A a \in Actions, n \in 0..NonceMod - 1 :
       (\A l \in L : ~Same(l, a, n))
         => Over(s, entries[a][n].chunks, a, n, Len(s) + 1, gone)
  /\ Rising(s, entries, L)
  /\ \A l1, l2 \in L : Alike(l1, l2) => l1 = l2

Live(p, q) == {l \in loops : l.from = p /\ l.to = q /\ l.session = session[p][q]}

LaneInv ==
  \A p, q \in Peers :
    IF session[q][p] # 0
      THEN Lane(chan[p][q], partial[q][p], Live(p, q), session[p][q], cut)
      ELSE \A a \in Actions, n \in 0..NonceMod - 1 : partial[q][p][a][n].chunks = <<>>

-----------------------------------------------------------------------------
(* Before i only the chunks before i are looked at. *)
LEMMA DuePrefix ==
  ASSUME NEW s, NEW t, NEW data, NEW m, NEW n, NEW i \in Nat, NEW j, NEW gone,
         \A k \in 1..i - 1 : t[k] = s[k],
         Due(s, data, m, n, i, j, gone)
  PROVE  Due(t, data, m, n, i, j, gone)
<1>1. \A h \in 1..i - 1 : \A k \in h + 1..i - 1 : k \in 1..i - 1
  OBVIOUS
<1> QED
  BY <1>1 DEF Due, Over, Fits, LastSame

(* Chunks with other nonces change nothing. *)
LEMMA SameLasts ==
  ASSUME NEW t, NEW a, NEW n, NEW i \in Nat, NEW h \in Nat, 0 < i, i <= h,
         \A k \in i..h - 1 : ~Same(t[k], a, n)
  PROVE  /\ (\A k \in 1..i - 1 : ~Same(t[k], a, n)) => \A k \in 1..h - 1 : ~Same(t[k], a, n)
         /\ \A x \in 1..i - 1 : LastSame(t, a, n, x, i) => LastSame(t, a, n, x, h)
         /\ \A x \in 1..i - 1 : x \in 1..h - 1
<1>1. \A x \in Nat : \A k \in x..h - 1 : k \in x..i - 1 \/ k \in i..h - 1
  OBVIOUS
<1>2. \A x \in 1..i - 1 : x + 1 \in Nat /\ x \in 1..h - 1
  OBVIOUS
<1>3. (\A k \in 1..i - 1 : ~Same(t[k], a, n)) => \A k \in 1..h - 1 : ~Same(t[k], a, n)
  BY <1>1
<1>4. \A x \in 1..i - 1 : LastSame(t, a, n, x, i) => LastSame(t, a, n, x, h)
  BY <1>1, <1>2 DEF LastSame
<1> QED
  BY <1>2, <1>3, <1>4

(* What is due before the i-th chunk is due later, without its like between. *)
LEMMA DueLasts ==
  ASSUME NEW t, NEW data, NEW m, NEW n, NEW i \in Nat, NEW h \in Nat, 0 < i, i <= h,
         NEW j, NEW gone,
         \A k \in i..h - 1 : ~Same(t[k], m.action, n),
         Due(t, data, m, n, i, j, gone)
  PROVE  Due(t, data, m, n, h, j, gone)
<1> DEFINE a == m.action
<1>0. \A k \in i..h - 1 : ~Same(t[k], a, n)
  OBVIOUS
<1> HIDE DEF a
<1>1. Over(t, data, a, n, i, gone) => Over(t, data, a, n, h, gone)
  BY <1>0, SameLasts DEF Over
<1>2. ASSUME Fits(t, data, m, n, i, j, gone)
      PROVE  Fits(t, data, m, n, h, j, gone)
  <2>1. CASE /\ \A k \in 1..i - 1 : ~Same(t[k], a, n)
             /\ Holds(data, m, j, gone)
    <3>1. \A k \in 1..h - 1 : ~Same(t[k], a, n)
      BY <1>0, <2>1, SameLasts
    <3> QED
      BY <2>1, <3>1 DEF Fits, a
  <2>2. ASSUME NEW x \in 1..i - 1, LastSame(t, a, n, x, i), t[x].msg = m, t[x].part = j - 1
        PROVE  Fits(t, data, m, n, h, j, gone)
    <3>1. x \in 1..h - 1
      OBVIOUS
    <3>2. \A k \in x + 1..h - 1 : k \in x + 1..i - 1 \/ k \in i..h - 1
      OBVIOUS
    <3>3. LastSame(t, a, n, x, h)
      BY <1>0, <2>2, <3>2 DEF LastSame
    <3> QED
      BY <2>2, <3>1, <3>3 DEF Fits, a
  <2> QED
    BY <1>2, <2>1, <2>2 DEF Fits, a
<1> QED
  BY <1>1, <1>2 DEF Due, a

(* So is that no message is open, *)
LEMMA OverLasts ==
  ASSUME NEW t, NEW data, NEW a, NEW n, NEW i \in Nat, NEW h \in Nat, 0 < i, i <= h,
         NEW gone,
         \A k \in i..h - 1 : ~Same(t[k], a, n),
         Over(t, data, a, n, i, gone)
  PROVE  Over(t, data, a, n, h, gone)
BY SameLasts DEF Over

(* for which only the chunks before i are looked at, *)
LEMMA OverPrefix ==
  ASSUME NEW s, NEW t, NEW data, NEW a, NEW n, NEW i \in Nat, NEW gone,
         \A k \in 1..i - 1 : t[k] = s[k],
         Over(s, data, a, n, i, gone)
  PROVE  Over(t, data, a, n, i, gone)
<1>1. \A h \in 1..i - 1 : \A k \in h + 1..i - 1 : k \in 1..i - 1
  OBVIOUS
<1> QED
  BY <1>1 DEF Over, LastSame

(* What is cut short stays so. *)
LEMMA DueGrows ==
  ASSUME NEW s, NEW data, NEW m, NEW n, NEW i, NEW j, NEW gone, NEW more,
         gone \subseteq more, Due(s, data, m, n, i, j, gone)
  PROVE  Due(s, data, m, n, i, j, more)
BY DEF Due, Over, Fits, Holds

(* and which remains true when more messages are cut short. *)
LEMMA OverGrows ==
  ASSUME NEW s, NEW data, NEW a, NEW n, NEW i, NEW gone, NEW more,
         gone \subseteq more, Over(s, data, a, n, i, gone)
  PROVE  Over(s, data, a, n, i, more)
BY DEF Over

(* The last chunk before i is that before it, if it has the nonce. *)
LEMMA LastIsPrevious ==
  ASSUME NEW t, NEW a, NEW n, NEW i \in Nat, i > 1, Same(t[i - 1], a, n)
  PROVE  LastSame(t, a, n, i - 1, i) /\ i - 1 \in 1..i - 1
<1>1. \A k \in (i - 1) + 1..i - 1 : FALSE
  OBVIOUS
<1>2. i - 1 \in 1..i - 1
  OBVIOUS
<1> QED
  BY <1>1, <1>2 DEF LastSame

(* When the first chunk is handled, each of the others is one place nearer. *)
LEMMA SameTail ==
  ASSUME NEW s, NEW t, NEW a, NEW n, NEW i \in Nat, i > 0,
         \A k \in 1..i - 1 : t[k] = s[k + 1]
  PROVE  /\ (\A k \in 2..i : ~Same(s[k], a, n)) => \A k \in 1..i - 1 : ~Same(t[k], a, n)
         /\ \A h \in 2..i : LastSame(s, a, n, h, i + 1)
              => LastSame(t, a, n, h - 1, i) /\ h - 1 \in 1..i - 1 /\ t[h - 1] = s[h]
<1>1. (\A k \in 2..i : ~Same(s[k], a, n)) => \A k \in 1..i - 1 : ~Same(t[k], a, n)
  <2>1. \A k \in 1..i - 1 : k + 1 \in 2..i
    OBVIOUS
  <2> QED
    BY <2>1
<1>2. ASSUME NEW h \in 2..i, LastSame(s, a, n, h, i + 1)
      PROVE  LastSame(t, a, n, h - 1, i) /\ h - 1 \in 1..i - 1 /\ t[h - 1] = s[h]
  <2>1. h - 1 \in 1..i - 1 /\ (h - 1) + 1 = h
    OBVIOUS
  <2>2. t[h - 1] = s[h]
    BY <2>1
  <2>3. \A k \in (h - 1) + 1..i - 1 : k \in 1..i - 1 /\ k + 1 \in h + 1..(i + 1) - 1
    OBVIOUS
  <2>4. \A k \in (h - 1) + 1..i - 1 : ~Same(t[k], a, n)
    <3> TAKE k \in (h - 1) + 1..i - 1
    <3>1. t[k] = s[k + 1] /\ ~Same(s[k + 1], a, n)
      BY <1>2, <2>3 DEF LastSame
    <3> QED
      BY <3>1
  <2>5. Same(t[h - 1], a, n)
    BY <1>2, <2>2 DEF LastSame
  <2>6. LastSame(t, a, n, h - 1, i)
    BY <2>4, <2>5 DEF LastSame
  <2> QED
    BY <2>1, <2>2, <2>6
<1> QED
  BY <1>1, <1>2

(* The first chunk is handled: what is over is over, *)
LEMMA OverTail ==
  ASSUME NEW s, NEW t, NEW data, NEW new, NEW a, NEW n, NEW i \in Nat, i > 0, NEW gone,
         \A k \in 1..i - 1 : t[k] = s[k + 1],
         ~Same(s[1], a, n) => new = data,
         Same(s[1], a, n) /\ (IsLast(s[1]) \/ s[1].msg \in gone)
           => \A k \in DOMAIN new : new[k].msg \in gone,
         Over(s, data, a, n, i + 1, gone)
  PROVE  Over(t, new, a, n, i, gone)
<1>0. 1 \in 1..(i + 1) - 1 /\ (\A k \in 2..i : k \in 1..(i + 1) - 1 /\ k \in 1 + 1..(i + 1) - 1)
  OBVIOUS
<1>1. CASE /\ \A k \in 1..(i + 1) - 1 : ~Same(s[k], a, n)
           /\ \A k \in DOMAIN data : data[k].msg \in gone
  <2>1. new = data /\ \A k \in 2..i : ~Same(s[k], a, n)
    BY <1>0, <1>1
  <2>2. \A k \in 1..i - 1 : ~Same(t[k], a, n)
    BY <2>1, SameTail
  <2> QED
    BY <1>1, <2>1, <2>2 DEF Over
<1>2. ASSUME NEW h \in 1..(i + 1) - 1, LastSame(s, a, n, h, i + 1),
             IsLast(s[h]) \/ s[h].msg \in gone
      PROVE  Over(t, new, a, n, i, gone)
  <2>1. CASE h = 1
    <3>1. Same(s[1], a, n) /\ \A k \in 2..i : ~Same(s[k], a, n)
      BY <1>0, <1>2, <2>1 DEF LastSame
    <3>2. \A k \in 1..i - 1 : ~Same(t[k], a, n)
      BY <3>1, SameTail
    <3> QED
      BY <1>2, <2>1, <3>1, <3>2 DEF Over
  <2>2. CASE h # 1
    <3>1. h \in 2..i
      BY <2>2
    <3>2. LastSame(t, a, n, h - 1, i) /\ h - 1 \in 1..i - 1 /\ t[h - 1] = s[h]
      BY <1>2, <3>1, SameTail
    <3> QED
      BY <1>2, <3>2 DEF Over
  <2> QED
    BY <2>1, <2>2
<1> QED
  BY <1>1, <1>2 DEF Over

(* and the next part of a message still fits. *)
LEMMA FitsTail ==
  ASSUME NEW s, NEW t, NEW data, NEW new, NEW m, NEW n, NEW i \in Nat, i > 0, NEW j,
         NEW gone,
         \A k \in 1..i - 1 : t[k] = s[k + 1],
         ~Same(s[1], m.action, n) => new = data,
         s[1].msg = m /\ s[1].nonce = n /\ s[1].part = j - 1 => Holds(new, m, j, gone),
         Fits(s, data, m, n, i + 1, j, gone)
  PROVE  Fits(t, new, m, n, i, j, gone)
<1> DEFINE a == m.action
<1>0. 1 \in 1..(i + 1) - 1 /\ (\A k \in 2..i : k \in 1..(i + 1) - 1 /\ k \in 1 + 1..(i + 1) - 1)
  OBVIOUS
<1>a. ~Same(s[1], a, n) => new = data
  OBVIOUS
<1> HIDE DEF a
<1>1. CASE /\ \A k \in 1..(i + 1) - 1 : ~Same(s[k], a, n)
           /\ Holds(data, m, j, gone)
  <2>1. new = data /\ \A k \in 2..i : ~Same(s[k], a, n)
    BY <1>0, <1>1, <1>a
  <2>2. \A k \in 1..i - 1 : ~Same(t[k], a, n)
    BY <2>1, SameTail
  <2> QED
    BY <1>1, <2>1, <2>2 DEF Fits, a
<1>2. ASSUME NEW h \in 1..(i + 1) - 1, LastSame(s, a, n, h, i + 1),
             s[h].msg = m, s[h].part = j - 1
      PROVE  Fits(t, new, m, n, i, j, gone)
  <2>1. CASE h = 1
    <3>1. Same(s[1], a, n) /\ \A k \in 2..i : ~Same(s[k], a, n)
      BY <1>0, <1>2, <2>1 DEF LastSame
    <3>2. \A k \in 1..i - 1 : ~Same(t[k], a, n)
      BY <3>1, SameTail
    <3>3. Holds(new, m, j, gone)
      BY <1>2, <2>1, <3>1 DEF Same
    <3> QED
      BY <3>2, <3>3 DEF Fits, a
  <2>2. CASE h # 1
    <3>1. h \in 2..i
      BY <2>2
    <3>2. LastSame(t, a, n, h - 1, i) /\ h - 1 \in 1..i - 1 /\ t[h - 1] = s[h]
      BY <1>2, <3>1, SameTail
    <3> QED
      BY <1>2, <3>2 DEF Fits, a
  <2> QED
    BY <2>1, <2>2
<1> QED
  BY <1>1, <1>2 DEF Fits, a

(* Everything on a lane has its type. *)
LaneTyped(Sendable, s, entries, L) ==
  /\ s \in Seq(Chunk(Sendable))
  /\ entries \in [Actions -> [0..NonceMod - 1 -> Entries(Sendable)]]
  /\ L \subseteq LoopsOf(Sendable)
  /\ \A l \in L : l.next <= LastPart(l.msg)

(* The types of a chunk. *)
LEMMA ChunkType ==
  ASSUME NEW Sendable, WireTyped(Sendable), NEW c \in Chunk(Sendable)
  PROVE  /\ c.msg \in Sendable /\ c.msg.action \in Actions /\ c.nonce \in 0..NonceMod - 1
         /\ c.part \in Nat /\ c.part <= LastPart(c.msg)
         /\ LastPart(c.msg) \in Nat /\ LastPart(c.msg) > 0
<1>1. c.msg \in Sendable
  BY DEF Chunk
<1> QED
  BY <1>1, LastPartType DEF Chunk, WireTyped

(* One that starts: nothing is open under its nonce, nor was any of it sent. *)
LEMMA LaneStarts ==
  ASSUME NEW s, NEW entries, NEW L, NEW on, NEW gone, NEW l,
         l.msg.action \in Actions, l.nonce \in 0..NonceMod - 1,
         Lane(s, entries, L, on, gone), on # 0, l.next = 0,
         \A x \in L : x.msg # l.msg /\ ~Same(x, l.msg.action, l.nonce),
         \A k \in 1..Len(s) : s[k].msg # l.msg,
         \A a \in Actions, n \in 0..NonceMod - 1 :
           \A k \in DOMAIN entries[a][n].chunks : entries[a][n].chunks[k].msg # l.msg
  PROVE  Lane(s, entries, L \cup {l}, on, gone)
<1>1. Over(s, entries[l.msg.action][l.nonce].chunks, l.msg.action, l.nonce, Len(s) + 1, gone)
  BY DEF Lane
<1>2. \A x \in L \cup {l} :
        Due(s, entries[x.msg.action][x.nonce].chunks, x.msg, x.nonce, Len(s) + 1, x.next, gone)
  BY <1>1 DEF Due, Lane
<1>3. Rising(s, entries, L \cup {l})
  BY DEF Rising, Lane
<1>4. \A l1, l2 \in L \cup {l} : Alike(l1, l2) => l1 = l2
  BY DEF Lane, Same, Alike
<1> QED
  BY <1>2, <1>3, <1>4 DEF Lane

(* One that stops: its message was cut short. *)
LEMMA LaneStops ==
  ASSUME NEW Sendable, NEW s, NEW entries, NEW L, NEW on, NEW gone, NEW l \in L,
         LaneTyped(Sendable, s, entries, L),
         Lane(s, entries, L, on, gone)
  PROVE  Lane(s, entries, L \ {l}, on, gone \cup {l.msg})
<1> DEFINE more == gone \cup {l.msg}
           new == L \ {l}
<1>0. gone \subseteq more /\ l.msg \in more /\ new \subseteq L /\ \A x \in L : x = l \/ x \in new
  OBVIOUS
<1> HIDE DEF more, new
<1>1. \A i \in 1..Len(s) :
        Due(s, entries[s[i].msg.action][s[i].nonce].chunks,
            s[i].msg, s[i].nonce, i, s[i].part, more)
  BY <1>0, DueGrows DEF Lane
<1>2. \A x \in new :
        Due(s, entries[x.msg.action][x.nonce].chunks, x.msg, x.nonce, Len(s) + 1, x.next, more)
  BY <1>0, DueGrows DEF Lane
<1>3. ASSUME on # 0, NEW a \in Actions, NEW n \in 0..NonceMod - 1,
             \A x \in new : ~Same(x, a, n)
      PROVE  Over(s, entries[a][n].chunks, a, n, Len(s) + 1, more)
  <2>1. CASE Same(l, a, n)
    <3> DEFINE data == entries[a][n].chunks
    <3>1. Due(s, data, l.msg, n, Len(s) + 1, l.next, gone) /\ l.msg.action = a
      BY <2>1 DEF Lane, Same
    <3> HIDE DEF data
    <3>2. CASE l.next = 0
      BY <1>0, <3>1, <3>2, OverGrows DEF Due, data
    <3>3. CASE l.next # 0
      <4>1. Fits(s, data, l.msg, n, Len(s) + 1, l.next, gone)
        BY <3>1, <3>3 DEF Due
      <4>2. CASE /\ \A k \in 1..(Len(s) + 1) - 1 : ~Same(s[k], a, n)
                 /\ Holds(data, l.msg, l.next, gone)
        <5>1. \A k \in DOMAIN data : data[k].msg \in more
          BY <1>0, <4>2 DEF Holds
        <5> QED
          BY <4>2, <5>1 DEF Over, data
      <4>3. CASE \E h \in 1..(Len(s) + 1) - 1 :
                   LastSame(s, a, n, h, Len(s) + 1) /\ s[h].msg = l.msg
        BY <1>0, <4>3 DEF Over
      <4> QED
        BY <3>1, <4>1, <4>2, <4>3 DEF Fits
    <3> QED
      BY <3>2, <3>3
  <2>2. CASE ~Same(l, a, n)
    <3>1. Over(s, entries[a][n].chunks, a, n, Len(s) + 1, gone)
      BY <1>0, <1>3, <2>2 DEF Lane
    <3> QED
      BY <1>0, <3>1, OverGrows
  <2> QED
    BY <2>1, <2>2
<1>4. Rising(s, entries, new)
  BY <1>0 DEF Rising, Lane
<1>5. \A l1, l2 \in new : Alike(l1, l2) => l1 = l2
  BY <1>0 DEF Lane
<1>6. Lane(s, entries, new, on, more)
  BY <1>1, <1>2, <1>3, <1>4, <1>5 DEF Lane
<1> QED
  BY <1>6 DEF new, more

(* One whose next k chunks are sent. *)
LEMMA LanePushes ==
  ASSUME NEW Sendable, WireTyped(Sendable), NEW s, NEW t, NEW entries, NEW L, NEW new,
         NEW on, NEW gone, NEW l \in L, NEW k \in Nat,
         LaneTyped(Sendable, s, entries, L), t \in Seq(Chunk(Sendable)),
         Lane(s, entries, L, on, gone),
         l.next + k <= LastPart(l.msg) + 1,
         Len(t) = Len(s) + k,
         \A i \in 1..Len(s) : t[i] = s[i],
         \A i \in Len(s) + 1..Len(s) + k :
           /\ t[i].msg = l.msg /\ t[i].nonce = l.nonce
           /\ t[i].part = l.next + (i - Len(s)) - 1,
         new = (L \ {l}) \cup Remaining(l, k)
  PROVE  Lane(t, entries, new, on, gone)
<1> DEFINE a0 == l.msg.action
           goingOn == [l EXCEPT !.next = @ + k]
<1>1. /\ Len(s) \in Nat /\ Len(t) \in Nat
      /\ l.msg \in Sendable /\ a0 \in Actions /\ l.nonce \in 0..NonceMod - 1
      /\ l.next \in Nat /\ l.next <= LastPart(l.msg)
      /\ LastPart(l.msg) \in Nat /\ LastPart(l.msg) > 0
  <2>1. l \in LoopsOf(Sendable) /\ l.next <= LastPart(l.msg) /\ s \in Seq(Chunk(Sendable))
    BY DEF LaneTyped
  <2>2. l.msg \in Sendable /\ l.nonce \in 0..NonceMod - 1 /\ l.next \in Nat
    BY <2>1 DEF LoopsOf
  <2>3. Len(s) \in Nat /\ Len(t) \in Nat
    BY <2>1
  <2>4. LastPart(l.msg) \in Nat /\ LastPart(l.msg) > 0
    BY <2>2, LastPartType
  <2>5. a0 \in Actions
    BY <2>2 DEF WireTyped
  <2> QED
    BY <2>1, <2>2, <2>3, <2>4, <2>5
<1>2. /\ goingOn.msg = l.msg /\ goingOn.nonce = l.nonce /\ goingOn.next = l.next + k
      /\ \A x \in new : (x \in L /\ x # l) \/ (x = goingOn /\ l.next + k <= LastPart(l.msg))
      /\ l.next + k <= LastPart(l.msg) => goingOn \in new
      /\ \A x \in L : x = l \/ x \in new
  <2>1. l \in LoopsOf(Sendable)
    BY DEF LaneTyped
  <2>2. goingOn.msg = l.msg /\ goingOn.nonce = l.nonce /\ goingOn.next = l.next + k
    BY <2>1 DEF LoopsOf
  <2> HIDE DEF goingOn
  <2>3. Remaining(l, k) = {x \in {goingOn} : x.next <= LastPart(l.msg)}
    BY DEF Remaining, goingOn
  <2> QED
    BY <2>2, <2>3
<1>3. \A x \in L : x # l => ~Same(x, a0, l.nonce) /\ x.msg # l.msg
  BY DEF Lane, Same, Alike
<1>4. \A i \in Len(s) + 1..Len(s) + k :
        /\ Same(t[i], a0, l.nonce) /\ t[i].msg = l.msg
        /\ t[i].part = l.next + (i - Len(s)) - 1
        /\ t[i].part \in Nat /\ l.next <= t[i].part /\ t[i].part < l.next + k
  <2> TAKE i \in Len(s) + 1..Len(s) + k
  <2>1. t[i].msg = l.msg /\ t[i].nonce = l.nonce /\ t[i].part = l.next + (i - Len(s)) - 1
    OBVIOUS
  <2>2. i - Len(s) \in 1..k
    BY <1>1
  <2> QED
    BY <1>1, <2>1, <2>2 DEF Same
<1>5. \A a, n : ~Same(l, a, n) => \A i \in Len(s) + 1..Len(s) + k : ~Same(t[i], a, n)
  BY <1>4 DEF Same
<1>6. \A x \in L : Due(s, entries[x.msg.action][x.nonce].chunks,
                       x.msg, x.nonce, Len(s) + 1, x.next, gone)
  BY DEF Lane
<1> HIDE DEF goingOn
<1>7. ASSUME NEW data, NEW m, NEW n, NEW j, NEW i \in 1..Len(s) + 1,
             Due(s, data, m, n, i, j, gone)
      PROVE  Due(t, data, m, n, i, j, gone)
  <2>1. \A x \in 1..i - 1 : t[x] = s[x]
    <3>1. \A x \in 1..i - 1 : x \in 1..Len(s)
      BY <1>1
    <3> QED
      BY <3>1
  <2> QED
    BY <1>7, <2>1, DuePrefix
<1>8. ASSUME NEW i \in Len(s) + 1..Len(s) + k + 1, NEW d \in Nat, d = l.next + (i - Len(s)) - 1
      PROVE  Due(t, entries[a0][l.nonce].chunks, l.msg, l.nonce, i, d, gone)
  <2>1. CASE i = Len(s) + 1
    <3>1. d = l.next /\ i \in 1..Len(s) + 1
      BY <1>1, <1>8, <2>1
    <3> QED
      BY <1>6, <1>7, <2>1, <3>1
  <2>2. CASE i # Len(s) + 1
    <3>1. /\ i - 1 \in Len(s) + 1..Len(s) + k /\ i \in Nat /\ i > 1 /\ d # 0
          /\ d - 1 = l.next + ((i - 1) - Len(s)) - 1
      BY <1>1, <1>8, <2>2
    <3>2. Same(t[i - 1], a0, l.nonce) /\ t[i - 1].msg = l.msg /\ t[i - 1].part = d - 1
      BY <1>4, <3>1
    <3>3. LastSame(t, a0, l.nonce, i - 1, i) /\ i - 1 \in 1..i - 1
      BY <3>1, <3>2, LastIsPrevious
    <3> QED
      BY <3>1, <3>2, <3>3 DEF Due, Fits
  <2> QED
    BY <2>1, <2>2
<1>9. \A i \in 1..Len(t) :
        Due(t, entries[t[i].msg.action][t[i].nonce].chunks,
            t[i].msg, t[i].nonce, i, t[i].part, gone)
  <2> TAKE i \in 1..Len(t)
  <2>1. CASE i \in 1..Len(s)
    <3>1. t[i] = s[i] /\ i \in 1..Len(s) + 1
      BY <1>1, <2>1
    <3>2. Due(s, entries[s[i].msg.action][s[i].nonce].chunks,
              s[i].msg, s[i].nonce, i, s[i].part, gone)
      BY <2>1 DEF Lane
    <3> QED
      BY <1>7, <3>1, <3>2
  <2>2. CASE i \in Len(s) + 1..Len(s) + k
    <3>1. /\ t[i].msg = l.msg /\ t[i].nonce = l.nonce /\ t[i].part \in Nat
          /\ t[i].part = l.next + (i - Len(s)) - 1
          /\ i \in Len(s) + 1..Len(s) + k + 1
      BY <1>1, <1>4, <2>2
    <3> QED
      BY <1>8, <3>1
  <2> QED
    BY <1>1, <2>1, <2>2
<1>10. ASSUME NEW x \in new
       PROVE  Due(t, entries[x.msg.action][x.nonce].chunks,
                  x.msg, x.nonce, Len(t) + 1, x.next, gone)
  <2>1. CASE x \in L /\ x # l
    <3> DEFINE data == entries[x.msg.action][x.nonce].chunks
    <3>0. Len(s) + 1 \in 1..Len(s) + 1
      BY <1>1
    <3>1. Due(t, data, x.msg, x.nonce, Len(s) + 1, x.next, gone)
      BY <1>6, <1>7, <2>1, <3>0
    <3>2. ~Same(l, x.msg.action, x.nonce)
      BY <1>3, <2>1 DEF Same
    <3>3. \A i \in Len(s) + 1..(Len(t) + 1) - 1 : ~Same(t[i], x.msg.action, x.nonce)
      <4>1. (Len(t) + 1) - 1 = Len(s) + k
        BY <1>1
      <4> QED
        BY <1>5, <3>2, <4>1
    <3>4. /\ Len(s) + 1 \in Nat /\ Len(t) + 1 \in Nat /\ 0 < Len(s) + 1
          /\ Len(s) + 1 <= Len(t) + 1
      BY <1>1
    <3> HIDE DEF data
    <3>5. Due(t, data, x.msg, x.nonce, Len(t) + 1, x.next, gone)
      BY <3>1, <3>3, <3>4, DueLasts
    <3> QED
      BY <3>5 DEF data
  <2>2. CASE x = goingOn /\ l.next + k <= LastPart(l.msg)
    <3>1. /\ Len(t) + 1 \in Len(s) + 1..Len(s) + k + 1 /\ l.next + k \in Nat
          /\ l.next + k = l.next + ((Len(t) + 1) - Len(s)) - 1
      BY <1>1
    <3> QED
      BY <1>2, <1>8, <2>2, <3>1
  <2> QED
    BY <1>2, <2>1, <2>2
<1>11. ASSUME on # 0, NEW a \in Actions, NEW n \in 0..NonceMod - 1,
              \A x \in new : ~Same(x, a, n)
       PROVE  Over(t, entries[a][n].chunks, a, n, Len(t) + 1, gone)
  <2>1. CASE Same(l, a, n)
    <3>1. l.next + k > LastPart(l.msg)
      <4>1. Same(goingOn, a, n)
        BY <1>2, <2>1 DEF Same
      <4> QED
        BY <1>1, <1>2, <1>11, <4>1
    <3>2. /\ Len(t) \in Len(s) + 1..Len(s) + k /\ Len(t) + 1 > 1 /\ Len(t) + 1 \in Nat
          /\ (Len(t) + 1) - 1 = Len(t)
          /\ l.next + (Len(t) - Len(s)) - 1 = LastPart(l.msg)
      BY <1>1, <3>1
    <3>3. Same(t[Len(t)], a, n) /\ IsLast(t[Len(t)])
      BY <1>4, <2>1, <3>2 DEF Same, IsLast
    <3>4. LastSame(t, a, n, (Len(t) + 1) - 1, Len(t) + 1)
          /\ (Len(t) + 1) - 1 \in 1..(Len(t) + 1) - 1
      BY <3>2, <3>3, LastIsPrevious
    <3> QED
      BY <3>2, <3>3, <3>4 DEF Over
  <2>2. CASE ~Same(l, a, n)
    <3> DEFINE data == entries[a][n].chunks
    <3>1. Over(s, data, a, n, Len(s) + 1, gone)
      BY <1>2, <1>11, <2>2 DEF Lane
    <3> HIDE DEF data
    <3>2. /\ Len(s) + 1 \in Nat /\ Len(t) + 1 \in Nat /\ 0 < Len(s) + 1
          /\ Len(s) + 1 <= Len(t) + 1
          /\ (Len(s) + 1) - 1 = Len(s) /\ (Len(t) + 1) - 1 = Len(s) + k
      BY <1>1
    <3>3. Over(t, data, a, n, Len(s) + 1, gone)
      BY <3>1, <3>2, OverPrefix
    <3>4. \A i \in Len(s) + 1..(Len(t) + 1) - 1 : ~Same(t[i], a, n)
      BY <1>5, <2>2, <3>2
    <3>5. Over(t, data, a, n, Len(t) + 1, gone)
      BY <3>2, <3>3, <3>4, OverLasts
    <3> QED
      BY <3>5 DEF data
  <2> QED
    BY <2>1, <2>2
<1>12. Rising(t, entries, new)
  <2>0. /\ Rising(s, entries, L)
        /\ \A i \in 1..Len(t) : i \in 1..Len(s) \/ i \in Len(s) + 1..Len(s) + k
    BY <1>1 DEF Lane
  <2>1. ASSUME NEW i \in 1..Len(t), NEW h \in 1..Len(t), i < h, t[i].msg = t[h].msg
        PROVE  t[i].part < t[h].part
    <3>1. CASE h \in 1..Len(s)
      <4>1. i \in 1..Len(s)
        BY <1>1, <2>1, <3>1
      <4> QED
        BY <2>0, <2>1, <3>1, <4>1 DEF Rising
    <3>2. CASE h \in Len(s) + 1..Len(s) + k /\ i \in 1..Len(s)
      <4>1. s[i].part < l.next /\ t[i] = s[i]
        BY <1>4, <2>0, <2>1, <3>2 DEF Rising
      <4>2. s[i].part \in Nat
        <5>1. s[i] \in Chunk(Sendable)
          BY <3>2 DEF LaneTyped
        <5> QED
          BY <5>1 DEF Chunk
      <4>3. t[h].part \in Nat /\ l.next <= t[h].part
        BY <1>4, <3>2
      <4> QED
        BY <1>1, <4>1, <4>2, <4>3
    <3>3. CASE h \in Len(s) + 1..Len(s) + k /\ i \in Len(s) + 1..Len(s) + k
      <4>1. /\ t[i].part = l.next + (i - Len(s)) - 1
            /\ t[h].part = l.next + (h - Len(s)) - 1
        BY <1>4, <3>3
      <4> QED
        BY <1>1, <2>1, <4>1
    <3> QED
      BY <2>0, <3>1, <3>2, <3>3
  <2>2. ASSUME NEW x \in new, NEW i \in 1..Len(t), t[i].msg = x.msg
        PROVE  t[i].part < x.next
    <3>1. CASE x \in L /\ x # l
      <4>1. i \in 1..Len(s)
        BY <1>3, <1>4, <2>0, <2>2, <3>1
      <4> QED
        BY <2>0, <2>2, <3>1, <4>1 DEF Rising
    <3>2. CASE x = goingOn /\ i \in 1..Len(s)
      <4>1. s[i].part < l.next /\ t[i] = s[i]
        BY <1>2, <2>0, <2>2, <3>2 DEF Rising
      <4>2. s[i].part \in Nat
        <5>1. s[i] \in Chunk(Sendable)
          BY <3>2 DEF LaneTyped
        <5> QED
          BY <5>1 DEF Chunk
      <4> QED
        BY <1>1, <1>2, <3>2, <4>1, <4>2
    <3>3. CASE x = goingOn /\ i \in Len(s) + 1..Len(s) + k
      BY <1>2, <1>4, <3>3
    <3> QED
      BY <1>2, <2>0, <3>1, <3>2, <3>3
  <2>3. ASSUME NEW a \in Actions, NEW n \in 0..NonceMod - 1,
               NEW i \in DOMAIN entries[a][n].chunks
        PROVE  /\ \A h \in DOMAIN entries[a][n].chunks :
                    /\ i < h
                    /\ entries[a][n].chunks[i].msg = entries[a][n].chunks[h].msg
                    => entries[a][n].chunks[i].part < entries[a][n].chunks[h].part
               /\ \A h \in 1..Len(t) :
                    entries[a][n].chunks[i].msg = t[h].msg
                      => entries[a][n].chunks[i].part < t[h].part
               /\ \A x \in new :
                    entries[a][n].chunks[i].msg = x.msg
                      => entries[a][n].chunks[i].part < x.next
    <3> DEFINE data == entries[a][n].chunks
    <3>1. /\ \A h \in DOMAIN data :
               i < h /\ data[i].msg = data[h].msg => data[i].part < data[h].part
          /\ \A h \in 1..Len(s) : data[i].msg = s[h].msg => data[i].part < s[h].part
          /\ \A x \in L : data[i].msg = x.msg => data[i].part < x.next
      BY <2>0 DEF Rising
    <3>2. data[i].part \in Nat
      <4>1. data \in Seq(Chunk(Sendable))
        <5>1. entries[a][n] \in Entries(Sendable)
          BY DEF LaneTyped
        <5> QED
          BY <5>1 DEF Entries
      <4> HIDE DEF data
      <4>2. data[i] \in Chunk(Sendable)
        BY <4>1, <2>3 DEF data
      <4> QED
        BY <4>2 DEF Chunk
    <3> HIDE DEF data
    <3>3. ASSUME NEW h \in 1..Len(t), data[i].msg = t[h].msg
          PROVE  data[i].part < t[h].part
      <4>1. CASE h \in 1..Len(s)
        BY <3>1, <3>3, <4>1
      <4>2. CASE h \in Len(s) + 1..Len(s) + k
        <5>1. data[i].part < l.next
          BY <1>4, <3>1, <3>3, <4>2
        <5>2. t[h].part \in Nat /\ l.next <= t[h].part
          BY <1>4, <4>2
        <5> QED
          BY <1>1, <3>2, <5>1, <5>2
      <4> QED
        BY <2>0, <4>1, <4>2
    <3>4. ASSUME NEW x \in new, data[i].msg = x.msg
          PROVE  data[i].part < x.next
      <4>1. CASE x \in L
        BY <3>1, <3>4, <4>1
      <4>2. CASE x = goingOn
        <5>1. data[i].part < l.next
          BY <1>2, <3>1, <3>4, <4>2
        <5> QED
          BY <1>1, <1>2, <3>2, <4>2, <5>1
      <4> QED
        BY <1>2, <4>1, <4>2
    <3> QED
      BY <3>1, <3>3, <3>4 DEF data
  <2> QED
    BY <2>1, <2>2, <2>3 DEF Rising
<1>13. \A l1, l2 \in new : Alike(l1, l2) => l1 = l2
  <2>1. \A l1, l2 \in L : Alike(l1, l2) => l1 = l2
    BY DEF Lane
  <2>2. \A x \in new : (x \in L /\ x # l) \/ x = goingOn
    BY <1>2
  <2> QED
    BY <1>2, <2>1, <2>2 DEF Alike
<1> QED
  BY <1>9, <1>10, <1>11, <1>12, <1>13 DEF Lane

(* What is kept when chunk c of a message that is not at its end is handled. *)
LEMMA HoldsMore ==
  ASSUME NEW Sendable, NEW data \in Seq(Chunk(Sendable)), NEW c \in Chunk(Sendable),
         c.part \in Nat, c.part > 0, NEW gone, Holds(data, c.msg, c.part, gone)
  PROVE  Holds(Append(data, c), c.msg, c.part + 1, gone)
<1> DEFINE new == Append(data, c)
           N == Len(data)
<1>1. /\ N \in Nat /\ DOMAIN data = 1..N /\ DOMAIN new = 1..N + 1
      /\ new[N + 1] = c /\ \A k \in 1..N : new[k] = data[k]
  OBVIOUS
<1> HIDE DEF new, N
<1>2. \A k \in 1..N + 1 : k \in 1..N \/ k = N + 1
  BY <1>1
<1>3. \A k \in DOMAIN new : new[k].msg = c.msg \/ new[k].msg \in gone
  BY <1>1, <1>2 DEF Holds
<1>4. {new[k].part : k \in {x \in DOMAIN new : new[x].msg = c.msg}}
        = {data[k].part : k \in {x \in DOMAIN data : data[x].msg = c.msg}} \cup {c.part}
  <2>1. N + 1 \in 1..N + 1 /\ \A k \in 1..N : k \in 1..N + 1
    BY <1>1
  <2> QED
    BY <1>1, <1>2, <2>1
<1>5. (1..c.part - 1) \cup {c.part} = 1..(c.part + 1) - 1
  OBVIOUS
<1> QED
  BY <1>3, <1>4, <1>5 DEF Holds, new

(* What the entries are when chunk c has been handled. *)
Handled(c, entries, new) ==
  \A a \in Actions, n \in 0..NonceMod - 1 :
    new[a][n].chunks =
      IF ~Same(c, a, n) THEN entries[a][n].chunks
      ELSE IF IsLast(c) THEN <<>>
      ELSE IF c.part = 0 THEN entries[a][n].chunks
      ELSE Append(entries[a][n].chunks, c)

(* The first chunk c is handled. *)
LEMMA LaneHandles ==
  ASSUME NEW Sendable, WireTyped(Sendable), NEW s, NEW t, NEW c, NEW entries, NEW new,
         NEW L, NEW on, NEW gone,
         LaneTyped(Sendable, s, entries, L), s # <<>>, c = Head(s), t = Tail(s),
         Lane(s, entries, L, on, gone),
         Handled(c, entries, new)
  PROVE  Lane(t, new, L, on, gone)
<1> DEFINE D(a, n) == entries[a][n].chunks
           E(a, n) == new[a][n].chunks
<1>1. /\ s \in Seq(Chunk(Sendable)) /\ Len(s) \in Nat /\ Len(s) > 0 /\ 1 \in 1..Len(s)
      /\ c = s[1] /\ c \in Chunk(Sendable) /\ t \in Seq(Chunk(Sendable))
      /\ Len(t) = Len(s) - 1 /\ \A k \in 1..Len(t) : t[k] = s[k + 1]
  <2>1. s \in Seq(Chunk(Sendable))
    BY DEF LaneTyped
  <2> QED
    BY <2>1
<1>2. /\ c.msg \in Sendable /\ c.msg.action \in Actions /\ c.nonce \in 0..NonceMod - 1
      /\ c.part \in Nat /\ c.part <= LastPart(c.msg)
      /\ LastPart(c.msg) \in Nat /\ LastPart(c.msg) > 0
  BY <1>1, ChunkType
<1>3. \A a \in Actions, n \in 0..NonceMod - 1 :
        D(a, n) \in Seq(Chunk(Sendable))
  <2> TAKE a \in Actions, n \in 0..NonceMod - 1
  <2>1. entries[a][n] \in Entries(Sendable)
    BY DEF LaneTyped
  <2> QED
    BY <2>1 DEF Entries
<1>4. \A a \in Actions, n \in 0..NonceMod - 1 :
        /\ ~Same(c, a, n) => E(a, n) = D(a, n)
        /\ Same(c, a, n) /\ IsLast(c) => E(a, n) = <<>>
        /\ Same(c, a, n) /\ ~IsLast(c) /\ c.part = 0 => E(a, n) = D(a, n)
        /\ Same(c, a, n) /\ ~IsLast(c) /\ c.part # 0 => E(a, n) = Append(D(a, n), c)
  BY DEF Handled
<1>5. Rising(s, entries, L)
  BY DEF Lane
<1>6. /\ c.part = 0 => \A k \in DOMAIN D(c.msg.action, c.nonce) :
                         /\ D(c.msg.action, c.nonce)[k].msg \in gone
                         /\ D(c.msg.action, c.nonce)[k].msg # c.msg
      /\ c.part # 0 => Holds(D(c.msg.action, c.nonce), c.msg, c.part, gone)
  <2> DEFINE d == D(c.msg.action, c.nonce)
  <2>1. Due(s, d, c.msg, c.nonce, 1, c.part, gone)
    BY <1>1 DEF Lane
  <2>2. d \in Seq(Chunk(Sendable))
    BY <1>2, <1>3
  <2>3. \A k \in DOMAIN d : d[k].msg = s[1].msg => d[k].part < s[1].part
    BY <1>1, <1>2, <1>5 DEF Rising
  <2> HIDE DEF d
  <2>4. \A h \in 1..1 - 1 : FALSE
    OBVIOUS
  <2>5. c.part = 0 => \A k \in DOMAIN d : d[k].msg \in gone
    BY <2>1, <2>4 DEF Due, Over
  <2>6. c.part # 0 => Holds(d, c.msg, c.part, gone)
    BY <2>1, <2>4 DEF Due, Fits
  <2>7. c.part = 0 => \A k \in DOMAIN d : d[k].msg # c.msg
    <3>1. \A k \in DOMAIN d : d[k].part \in Nat
      <4>1. \A k \in DOMAIN d : d[k] \in Chunk(Sendable)
        BY <2>2
      <4> QED
        BY <4>1 DEF Chunk
    <3> QED
      BY <1>1, <2>3, <3>1
  <2> QED
    BY <2>5, <2>6, <2>7 DEF d
<1> HIDE DEF D, E
<1>7. ~IsLast(c) => Holds(E(c.msg.action, c.nonce), c.msg, c.part + 1, gone)
  <2>1. Same(c, c.msg.action, c.nonce)
    BY DEF Same
  <2>2. CASE c.part = 0 /\ ~IsLast(c)
    <3> DEFINE d == D(c.msg.action, c.nonce)
    <3>1. E(c.msg.action, c.nonce) = d
      BY <1>2, <1>4, <2>1, <2>2
    <3>2. \A k \in DOMAIN d : d[k].msg \in gone /\ d[k].msg # c.msg
      BY <1>6, <2>2
    <3>3. 1..(c.part + 1) - 1 = {}
      BY <2>2
    <3> HIDE DEF d
    <3>4. Holds(d, c.msg, c.part + 1, gone)
      BY <3>2, <3>3 DEF Holds
    <3> QED
      BY <3>1, <3>4
  <2>3. CASE c.part # 0 /\ ~IsLast(c)
    <3>1. E(c.msg.action, c.nonce) = Append(D(c.msg.action, c.nonce), c)
      BY <1>2, <1>4, <2>1, <2>3
    <3>2. Holds(Append(D(c.msg.action, c.nonce), c), c.msg, c.part + 1, gone)
      <4> DEFINE d == D(c.msg.action, c.nonce)
      <4>1. d \in Seq(Chunk(Sendable)) /\ Holds(d, c.msg, c.part, gone) /\ c.part > 0
        BY <1>2, <1>3, <1>6, <2>3
      <4> HIDE DEF d
      <4>2. Holds(Append(d, c), c.msg, c.part + 1, gone)
        BY <1>1, <1>2, <4>1, HoldsMore
      <4> QED
        BY <4>2 DEF d
    <3> QED
      BY <3>1, <3>2
  <2> QED
    BY <2>2, <2>3
<1>8. IsLast(c) \/ c.msg \in gone =>
        \A k \in DOMAIN E(c.msg.action, c.nonce) : E(c.msg.action, c.nonce)[k].msg \in gone
  <2>1. CASE IsLast(c)
    <3>1. E(c.msg.action, c.nonce) = <<>>
      BY <1>2, <1>4, <2>1 DEF Same
    <3>2. \A k \in DOMAIN <<>> : FALSE
      OBVIOUS
    <3> QED
      BY <3>1, <3>2
  <2>2. CASE ~IsLast(c)
    BY <1>7, <2>2 DEF Holds
  <2> QED
    BY <2>1, <2>2
<1>9. ASSUME NEW a \in Actions, NEW n \in 0..NonceMod - 1, NEW i \in Nat, i > 0,
             i - 1 <= Len(t), Over(s, D(a, n), a, n, i + 1, gone)
      PROVE  Over(t, E(a, n), a, n, i, gone)
  <2>1. /\ ~Same(s[1], a, n) => E(a, n) = D(a, n)
        /\ Same(s[1], a, n) /\ (IsLast(s[1]) \/ s[1].msg \in gone)
             => \A k \in DOMAIN E(a, n) : E(a, n)[k].msg \in gone
    BY <1>1, <1>4, <1>8 DEF Same
  <2>2. \A k \in 1..i - 1 : t[k] = s[k + 1]
    BY <1>1, <1>9
  <2> QED
    BY <1>9, <2>1, <2>2, OverTail
<1>10. ASSUME NEW m, m.action \in Actions, NEW n \in 0..NonceMod - 1, NEW i \in Nat, i > 0,
              i - 1 <= Len(t), NEW j \in Nat, j <= LastPart(m),
              Due(s, D(m.action, n), m, n, i + 1, j, gone)
       PROVE  Due(t, E(m.action, n), m, n, i, j, gone)
  <2>1. CASE j = 0
    BY <1>9, <1>10, <2>1 DEF Due
  <2>2. CASE j # 0
    <3>1. ~Same(s[1], m.action, n) => E(m.action, n) = D(m.action, n)
      BY <1>1, <1>4, <1>10
    <3>2. ASSUME s[1].msg = m, s[1].nonce = n, s[1].part = j - 1
          PROVE  Holds(E(m.action, n), m, j, gone)
      <4>1. ~IsLast(c) /\ c.part + 1 = j
        BY <1>1, <1>2, <1>10, <2>2, <3>2 DEF IsLast
      <4> QED
        BY <1>1, <1>7, <3>2, <4>1
    <3>3. Fits(s, D(m.action, n), m, n, i + 1, j, gone)
      BY <1>10, <2>2 DEF Due
    <3>4. \A k \in 1..i - 1 : t[k] = s[k + 1]
      BY <1>1, <1>10
    <3>5. Fits(t, E(m.action, n), m, n, i, j, gone)
      <4> DEFINE d == D(m.action, n)
                 e == E(m.action, n)
      <4>1. /\ ~Same(s[1], m.action, n) => e = d
            /\ s[1].msg = m /\ s[1].nonce = n /\ s[1].part = j - 1 => Holds(e, m, j, gone)
            /\ Fits(s, d, m, n, i + 1, j, gone)
        BY <3>1, <3>2, <3>3
      <4> HIDE DEF d, e
      <4>2. Fits(t, e, m, n, i, j, gone)
        BY <1>10, <3>4, <4>1, FitsTail
      <4> QED
        BY <4>2 DEF e
    <3> QED
      BY <2>2, <3>5 DEF Due
  <2> QED
    BY <2>1, <2>2
<1>11. \A i \in 1..Len(t) :
         Due(t, E(t[i].msg.action, t[i].nonce), t[i].msg, t[i].nonce, i, t[i].part, gone)
  <2> TAKE i \in 1..Len(t)
  <2>1. i + 1 \in 1..Len(s) /\ t[i] = s[i + 1] /\ i \in Nat /\ i > 0 /\ i - 1 <= Len(t)
    BY <1>1
  <2>2. Due(s, D(t[i].msg.action, t[i].nonce), t[i].msg, t[i].nonce, i + 1, t[i].part, gone)
    BY <2>1 DEF Lane, D
  <2>3. t[i] \in Chunk(Sendable)
    BY <1>1
  <2>4. /\ t[i].msg.action \in Actions /\ t[i].nonce \in 0..NonceMod - 1
        /\ t[i].part \in Nat /\ t[i].part <= LastPart(t[i].msg)
    BY <2>3, ChunkType
  <2> QED
    BY <1>10, <2>1, <2>2, <2>4
<1>12. \A l \in L :
         Due(t, E(l.msg.action, l.nonce), l.msg, l.nonce, Len(t) + 1, l.next, gone)
  <2> TAKE l \in L
  <2>1. l \in LoopsOf(Sendable) /\ l.next <= LastPart(l.msg)
    BY DEF LaneTyped
  <2>2. /\ l.msg.action \in Actions /\ l.nonce \in 0..NonceMod - 1
        /\ l.next \in Nat /\ l.next <= LastPart(l.msg)
    BY <2>1 DEF LoopsOf, WireTyped
  <2>3. Due(s, D(l.msg.action, l.nonce), l.msg, l.nonce, Len(s) + 1, l.next, gone)
    BY DEF Lane, D
  <2>4. /\ Len(t) + 1 \in Nat /\ Len(t) + 1 > 0 /\ (Len(t) + 1) - 1 <= Len(t)
        /\ Len(s) + 1 = (Len(t) + 1) + 1
    BY <1>1
  <2> QED
    BY <1>10, <2>2, <2>3, <2>4
<1>13. ASSUME on # 0, NEW a \in Actions, NEW n \in 0..NonceMod - 1,
              \A l \in L : ~Same(l, a, n)
       PROVE  Over(t, E(a, n), a, n, Len(t) + 1, gone)
  <2>1. Over(s, D(a, n), a, n, Len(s) + 1, gone)
    BY <1>13 DEF Lane, D
  <2>2. /\ Len(t) + 1 \in Nat /\ Len(t) + 1 > 0 /\ (Len(t) + 1) - 1 <= Len(t)
        /\ Len(s) + 1 = (Len(t) + 1) + 1
    BY <1>1
  <2> QED
    BY <1>9, <2>1, <2>2
<1>14. Rising(t, new, L)
  <2>0. \A k \in 1..Len(t) : k + 1 \in 1..Len(s) /\ t[k] = s[k + 1]
    BY <1>1
  <2>1. \A i, k \in 1..Len(t) :
          i < k /\ t[i].msg = t[k].msg => t[i].part < t[k].part
    <3> SUFFICES ASSUME NEW i \in 1..Len(t), NEW k \in 1..Len(t), i < k, t[i].msg = t[k].msg
                 PROVE  t[i].part < t[k].part
      OBVIOUS
    <3>1. /\ i + 1 < k + 1 /\ i + 1 \in 1..Len(s) /\ k + 1 \in 1..Len(s)
          /\ t[i] = s[i + 1] /\ t[k] = s[k + 1]
      BY <2>0
    <3>2. \A x, y \in 1..Len(s) : x < y /\ s[x].msg = s[y].msg => s[x].part < s[y].part
      BY <1>5 DEF Rising
    <3> QED
      BY <3>1, <3>2
  <2>2. \A l \in L : \A k \in 1..Len(t) : t[k].msg = l.msg => t[k].part < l.next
    BY <1>5, <2>0 DEF Rising
  <2>3. ASSUME NEW a \in Actions, NEW n \in 0..NonceMod - 1
        PROVE  \A i \in DOMAIN E(a, n) :
                 /\ \A k \in DOMAIN E(a, n) :
                      i < k /\ E(a, n)[i].msg = E(a, n)[k].msg
                        => E(a, n)[i].part < E(a, n)[k].part
                 /\ \A k \in 1..Len(t) :
                      E(a, n)[i].msg = t[k].msg => E(a, n)[i].part < t[k].part
                 /\ \A l \in L : E(a, n)[i].msg = l.msg => E(a, n)[i].part < l.next
    <3> DEFINE d == D(a, n)
               e == E(a, n)
    <3>1. \A i \in DOMAIN d :
            /\ \A k \in DOMAIN d : i < k /\ d[i].msg = d[k].msg => d[i].part < d[k].part
            /\ \A k \in 1..Len(s) : d[i].msg = s[k].msg => d[i].part < s[k].part
            /\ \A l \in L : d[i].msg = l.msg => d[i].part < l.next
      BY <1>5 DEF Rising, D
    <3>2. d \in Seq(Chunk(Sendable))
      BY <1>3
    <3>3. e = d \/ e = <<>> \/ e = Append(d, c)
      BY <1>4
    <3> HIDE DEF d, e
    <3>4. CASE e = d
      BY <2>0, <3>1, <3>4 DEF e
    <3>5. CASE e = <<>>
      <4>1. \A k \in DOMAIN <<>> : FALSE
        OBVIOUS
      <4> QED
        BY <3>5, <4>1 DEF e
    <3>6. CASE e = Append(d, c)
      <4>1. /\ Len(d) \in Nat /\ DOMAIN d = 1..Len(d) /\ DOMAIN e = 1..Len(d) + 1
            /\ e[Len(d) + 1] = c /\ \A k \in 1..Len(d) : e[k] = d[k]
        BY <3>2, <3>6
      <4>2. \A i \in DOMAIN e : (i \in DOMAIN d /\ e[i] = d[i]) \/ e[i] = c
        BY <4>1
      <4>3. \A i, k \in DOMAIN e : i < k => i \in DOMAIN d /\ e[i] = d[i]
        <5> TAKE i, k \in DOMAIN e
        <5> HAVE i < k
        <5>1. i \in 1..Len(d)
          BY <4>1
        <5> QED
          BY <4>1, <5>1
      <4>4. ASSUME NEW i \in DOMAIN e, NEW k \in DOMAIN e, i < k, e[i].msg = e[k].msg
            PROVE  e[i].part < e[k].part
        <5>1. CASE k \in DOMAIN d /\ e[k] = d[k]
          BY <3>1, <4>3, <4>4, <5>1
        <5>2. CASE e[k] = s[1]
          BY <1>1, <3>1, <4>3, <4>4, <5>2
        <5> QED
          BY <1>1, <4>2, <5>1, <5>2
      <4>5. ASSUME NEW i \in DOMAIN e, NEW k \in 1..Len(t), e[i].msg = t[k].msg
            PROVE  e[i].part < t[k].part
        <5>1. CASE i \in DOMAIN d /\ e[i] = d[i]
          BY <2>0, <3>1, <4>5, <5>1
        <5>2. CASE e[i] = c
          <6>1. 1 < k + 1
            OBVIOUS
          <6> QED
            BY <1>1, <1>5, <2>0, <4>5, <5>2, <6>1 DEF Rising
        <5> QED
          BY <4>2, <5>1, <5>2
      <4>6. ASSUME NEW i \in DOMAIN e, NEW l \in L, e[i].msg = l.msg
            PROVE  e[i].part < l.next
        <5>1. CASE i \in DOMAIN d /\ e[i] = d[i]
          BY <3>1, <4>6, <5>1
        <5>2. CASE e[i] = c
          BY <1>1, <1>5, <4>6, <5>2 DEF Rising
        <5> QED
          BY <4>2, <5>1, <5>2
      <4> QED
        BY <4>4, <4>5, <4>6 DEF e
    <3> QED
      BY <3>3, <3>4, <3>5, <3>6
  <2> QED
    BY <2>1, <2>2, <2>3 DEF Rising, E
<1> QED
  BY <1>11, <1>12, <1>13, <1>14 DEF Lane, E

(* More is cut short, a session ends, and one begins. *)
LEMMA LaneGrows ==
  ASSUME NEW s, NEW entries, NEW L, NEW on, NEW gone, NEW more, gone \subseteq more,
         Lane(s, entries, L, on, gone)
  PROVE  Lane(s, entries, L, on, more)
BY DueGrows, OverGrows DEF Lane

(* A session that ended here has no loops that may go on. *)
LEMMA LaneEnds ==
  ASSUME NEW s, NEW entries, NEW L, NEW on, NEW gone, Lane(s, entries, L, on, gone)
  PROVE  Lane(s, entries, {}, 0, gone)
<1>1. Rising(s, entries, {})
  BY DEF Lane, Rising
<1> QED
  BY <1>1 DEF Lane

(* A session begins with an empty channel. *)
LEMMA LaneBegins ==
  ASSUME NEW s, s = <<>>, NEW entries, NEW on, NEW gone,
         \A a \in Actions, n \in 0..NonceMod - 1 :
           \A k \in DOMAIN entries[a][n].chunks : entries[a][n].chunks[k].msg \in gone,
         \A a \in Actions, n \in 0..NonceMod - 1 :
           \A i, k \in DOMAIN entries[a][n].chunks :
             LET data == entries[a][n].chunks
             IN  i < k /\ data[i].msg = data[k].msg => data[i].part < data[k].part
  PROVE  Lane(s, entries, {}, on, gone)
<1>1. Len(s) = 0
  OBVIOUS
<1>2. \A i \in 1..Len(s) : FALSE
  BY <1>1
<1>3. \A a \in Actions, n \in 0..NonceMod - 1 :
        Over(s, entries[a][n].chunks, a, n, Len(s) + 1, gone)
  <2>1. \A k \in 1..(Len(s) + 1) - 1 : FALSE
    BY <1>1
  <2> QED
    BY <2>1 DEF Over
<1>4. Rising(s, entries, {})
  BY <1>2 DEF Rising
<1> QED
  BY <1>2, <1>3, <1>4 DEF Lane

-----------------------------------------------------------------------------
(* The types of a lane. *)
LEMMA LaneTypes ==
  ASSUME NEW Sendable, WireTyped(Sendable), NEW p \in Peers, NEW q \in Peers
  PROVE  LaneTyped(Sendable, chan[p][q], partial[q][p], Live(p, q))
<1>1. partial \in [Peers -> [Peers -> [Actions -> [0..NonceMod - 1 -> Entries(Sendable)]]]]
  BY DEF WireTyped, WireTypeOK, Entries
<1>2. chan[p][q] \in Seq(Chunk(Sendable))
  BY DEF WireTyped, WireTypeOK
<1>3. Live(p, q) \subseteq LoopsOf(Sendable) /\ \A l \in Live(p, q) : l.next <= LastPart(l.msg)
  BY DEF WireTyped, WireTypeOK, LoopsOf, Live
<1>4. partial[q] \in [Peers -> [Actions -> [0..NonceMod - 1 -> Entries(Sendable)]]]
  BY <1>1
<1> QED
  BY <1>2, <1>3, <1>4 DEF LaneTyped

(* None of message m has been sent from p to q in this session. *)
Unsent(p, q, m) ==
  /\ \A l \in Live(p, q) : l.msg # m
  /\ \A k \in 1..Len(chan[p][q]) : chan[p][q][k].msg # m
  /\ \A a \in Actions, n \in 0..NonceMod - 1 :
       \A k \in DOMAIN partial[q][p][a][n].chunks : partial[q][p][a][n].chunks[k].msg # m

(* A push touches the lane of its loop only. *)
LEMMA PushLanes ==
  ASSUME NEW Sendable, WireTyped(Sendable), LaneInv, NEW l \in LoopsOf(Sendable),
         NEW k \in Nat, l.next + k <= LastPart(l.msg) + 1, l.next <= LastPart(l.msg),
         push(l, k), UNCHANGED <<session, partial, cut>>,
         l.session = session[l.from][l.to],
         session[l.to][l.from] # 0
           => Lane(chan[l.from][l.to], partial[l.to][l.from], Live(l.from, l.to) \cup {l},
                   session[l.from][l.to], cut)
  PROVE  LaneInv'
<1> DEFINE p == l.from
           q == l.to
           s == chan[p][q]
           t == chan'[p][q]
           L == Live(p, q) \cup {l}
<1>1. p \in Peers /\ q \in Peers
  BY DEF LoopsOf
<1>2. /\ t \in Seq(Chunk(Sendable)) /\ Len(t) = Len(s) + k
      /\ \A i \in 1..Len(s) : t[i] = s[i]
      /\ \A j \in Len(s) + 1..Len(s) + k :
           /\ t[j].msg = l.msg /\ t[j].nonce = l.nonce
           /\ t[j].part = l.next + (j - Len(s)) - 1
      /\ \A a, b \in Peers : <<a, b>> # <<p, q>> => chan'[a][b] = chan[a][b]
  BY PushEffect
<1>3. loops' = (loops \ {l}) \cup Remaining(l, k)
  BY DEF push
<1>4. \A x \in Remaining(l, k) : x.from = p /\ x.to = q /\ x.session = l.session
  BY DEF Remaining, LoopsOf
<1>5. Live(p, q)' = (L \ {l}) \cup Remaining(l, k)
  BY <1>3, <1>4 DEF Live
<1>6. \A a, b \in Peers : <<a, b>> # <<p, q>> => Live(a, b)' = Live(a, b)
  <2> TAKE a, b \in Peers
  <2> HAVE <<a, b>> # <<p, q>>
  <2>1. a # p \/ b # q
    OBVIOUS
  <2>2. \A x : x \in loops' /\ x.from = a /\ x.to = b <=> x \in loops /\ x.from = a /\ x.to = b
    BY <1>3, <1>4, <2>1
  <2> QED
    BY <2>2 DEF Live
<1>7. ASSUME session[q][p] # 0
      PROVE  Lane(t, partial[q][p], Live(p, q)', session[p][q], cut)
  <2>1. LaneTyped(Sendable, s, partial[q][p], L)
    BY <1>1, LaneTypes DEF LaneTyped
  <2>2. Lane(s, partial[q][p], L, session[p][q], cut) /\ l \in L
    BY <1>7
  <2> DEFINE entries == partial[q][p]
             on == session[p][q]
             new == Live(p, q)'
  <2>3. LaneTyped(Sendable, s, entries, L) /\ Lane(s, entries, L, on, cut)
    BY <2>1, <2>2
  <2> HIDE DEF s, t, L, entries, on, new, p, q
  <2>4. new = (L \ {l}) \cup Remaining(l, k)
    BY <1>5 DEF new
  <2>5. Lane(t, entries, new, on, cut)
    BY <1>2, <2>2, <2>3, <2>4, LanePushes
  <2> QED
    BY <2>5 DEF entries, on, new
<1> SUFFICES ASSUME NEW a \in Peers, NEW b \in Peers
             PROVE  IF session[b][a] # 0
                      THEN Lane(chan'[a][b], partial[b][a], Live(a, b)', session[a][b], cut)
                      ELSE \A x \in Actions, n \in 0..NonceMod - 1 :
                             partial[b][a][x][n].chunks = <<>>
  BY DEF LaneInv
<1>8. CASE <<a, b>> = <<p, q>>
  BY <1>7, <1>8 DEF LaneInv
<1>9. CASE <<a, b>> # <<p, q>>
  BY <1>2, <1>6, <1>9 DEF LaneInv
<1> QED
  BY <1>8, <1>9

(* send() of a message that was not sent yet keeps the lanes. *)
LEMMA SendLanes ==
  ASSUME NEW Sendable, WireOK(Sendable), LaneInv, NEW p \in Peers, NEW q \in Peers,
         NEW m \in Sendable, send(p, q, m), Unsent(p, q, m),
         UNCHANGED <<session, sessions, partial, aborted, cut>>
  PROVE  LaneInv'
<1> DEFINE l == [msg |-> m, from |-> p, to |-> q, session |-> session[p][q],
                 nonce |-> nonce[p][m.action], next |-> 0]
<1>1. /\ session[p][q] \in 0..MaxSessions /\ session[p][q] # 0
      /\ m.action \in Actions /\ nonce[p][m.action] \in 0..NonceMod - 1
  BY DEF WireOK, WireTyped, WireTypeOK, send
<1>2. l \in LoopsOf(Sendable)
  BY <1>1, WireAssumption DEF LoopsOf
<1>3. PICK k \in 0..LastPart(m) + 1 : push(l, k)
  BY DEF send
<1>4. /\ l.msg = m /\ l.from = p /\ l.to = q /\ l.session = session[p][q]
      /\ l.nonce = nonce[p][m.action] /\ l.next = 0
  OBVIOUS
<1>5. \A x \in loops : x.from = p /\ x.msg.action = m.action => x.nonce # nonce[p][m.action]
  BY DEF send, NonceFree
<1>6. LastPart(m) \in Nat /\ k \in Nat /\ k <= LastPart(m) + 1
  BY LastPartType DEF WireOK
<1> HIDE DEF l
<1>7. ASSUME session[q][p] # 0
      PROVE  Lane(chan[p][q], partial[q][p], Live(p, q) \cup {l}, session[p][q], cut)
  <2>1. Lane(chan[p][q], partial[q][p], Live(p, q), session[p][q], cut)
    BY <1>7 DEF LaneInv
  <2>2. \A x \in Live(p, q) : x.msg # l.msg /\ ~Same(x, l.msg.action, l.nonce)
    BY <1>4, <1>5 DEF Unsent, Same, Live
  <2>3. /\ \A i \in 1..Len(chan[p][q]) : chan[p][q][i].msg # l.msg
        /\ \A a \in Actions, n \in 0..NonceMod - 1 :
             \A i \in DOMAIN partial[q][p][a][n].chunks :
               partial[q][p][a][n].chunks[i].msg # l.msg
    BY <1>4 DEF Unsent
  <2>4. l.msg.action \in Actions /\ l.nonce \in 0..NonceMod - 1 /\ l.next = 0 /\ session[p][q] # 0
    BY <1>1, <1>4
  <2> QED
    BY <2>1, <2>2, <2>3, <2>4, LaneStarts
<1>8. l.next + k <= LastPart(l.msg) + 1 /\ l.next <= LastPart(l.msg)
  BY <1>4, <1>6
<1> QED
  BY <1>2, <1>3, <1>4, <1>6, <1>7, <1>8, PushLanes DEF WireOK

(* A loop that goes on keeps them, *)
LEMMA DrainedLanes ==
  ASSUME NEW Sendable, WireOK(Sendable), LaneInv, NEW l \in loops, drained(l)
  PROVE  LaneInv'
<1>1. /\ l \in LoopsOf(Sendable) /\ l.next <= LastPart(l.msg)
  BY DEF WireOK, WireTyped, WireTypeOK, LoopsOf
<1>2. LastPart(l.msg) \in Nat /\ l.next \in Nat /\ l.from \in Peers /\ l.to \in Peers
  BY <1>1, LastPartType DEF LoopsOf, WireOK
<1>3. PICK k \in 1..LastPart(l.msg) - l.next + 1 : push(l, k)
  BY DEF drained
<1>4. k \in Nat /\ l.next + k <= LastPart(l.msg) + 1
  BY <1>1, <1>2
<1>5. UNCHANGED <<session, partial, cut>> /\ l.session = session[l.from][l.to]
  BY DEF drained, MayContinue
<1>6. Live(l.from, l.to) \cup {l} = Live(l.from, l.to)
  BY <1>5 DEF Live
<1>7. session[l.to][l.from] # 0
        => Lane(chan[l.from][l.to], partial[l.to][l.from], Live(l.from, l.to) \cup {l},
                session[l.from][l.to], cut)
  BY <1>2, <1>6 DEF LaneInv
<1> QED
  BY <1>1, <1>3, <1>4, <1>5, <1>7, PushLanes DEF WireOK

(* and one that gives up: its message is cut short. *)
LEMMA StoppedLanes ==
  ASSUME NEW Sendable, WireOK(Sendable), LaneInv, NEW l \in loops, stopped(l)
  PROVE  LaneInv'
<1>1. /\ loops' = loops \ {l} /\ cut' = cut \cup {l.msg}
      /\ UNCHANGED <<session, chan, partial>>
  BY DEF stopped
<1> SUFFICES ASSUME NEW p \in Peers, NEW q \in Peers, session[q][p] # 0
             PROVE  Lane(chan[p][q], partial[q][p], Live(p, q)', session[p][q],
                         cut \cup {l.msg})
  BY <1>1 DEF LaneInv
<1>2. Lane(chan[p][q], partial[q][p], Live(p, q), session[p][q], cut)
  BY DEF LaneInv
<1>3. Live(p, q)' = Live(p, q) \ {l}
  BY <1>1 DEF Live
<1>4. CASE l \in Live(p, q)
  <2>1. LaneTyped(Sendable, chan[p][q], partial[q][p], Live(p, q))
    BY LaneTypes DEF WireOK
  <2>2. Lane(chan[p][q], partial[q][p], Live(p, q) \ {l}, session[p][q], cut \cup {l.msg})
    BY <1>2, <1>4, <2>1, LaneStops
  <2> QED
    BY <1>3, <2>2
<1>5. CASE l \notin Live(p, q)
  <2>1. Live(p, q)' = Live(p, q)
    BY <1>3, <1>5
  <2>2. Lane(chan[p][q], partial[q][p], Live(p, q), session[p][q], cut \cup {l.msg})
    BY <1>2, LaneGrows
  <2> QED
    BY <2>1, <2>2
<1> QED
  BY <1>4, <1>5

(* Steps that touch neither sessions nor chunks. *)
LEMMA QuietLanes ==
  ASSUME LaneInv, UNCHANGED <<session, loops, chan, partial, cut>>
  PROVE  LaneInv'
BY DEF LaneInv, Live

(* A room that exits a peer drops what it had of its messages. *)
LEMMA ExitLanes ==
  ASSUME NEW Sendable, WireOK(Sendable), LaneInv, NEW p \in Peers, NEW q \in Peers,
         exitPeer(p, q)
  PROVE  LaneInv'
<1>1. /\ session' = [session EXCEPT ![p][q] = 0]
      /\ partial' = [partial EXCEPT ![p][q] = Fresh]
      /\ UNCHANGED <<loops, chan, cut>>
  BY DEF exitPeer, clearTransmissions
<1>2. /\ session \in [Peers -> [Peers -> 0..MaxSessions]]
      /\ partial \in [Peers -> [Peers -> [Actions -> [0..NonceMod - 1 -> Entries(Sendable)]]]]
  BY DEF WireOK, WireTyped, WireTypeOK, Entries
<1>3. \A a, b \in Peers :
        /\ <<a, b>> = <<p, q>> => session'[a][b] = 0 /\ partial'[a][b] = Fresh
        /\ <<a, b>> # <<p, q>> => session'[a][b] = session[a][b] /\ partial'[a][b] = partial[a][b]
  BY <1>1, <1>2
<1> SUFFICES ASSUME NEW a \in Peers, NEW b \in Peers
             PROVE  IF session'[b][a] # 0
                      THEN Lane(chan[a][b], partial'[b][a], Live(a, b)', session'[a][b], cut)
                      ELSE \A x \in Actions, n \in 0..NonceMod - 1 :
                             partial'[b][a][x][n].chunks = <<>>
  BY <1>1 DEF LaneInv
<1>4. CASE <<b, a>> = <<p, q>>
  <2>1. session'[b][a] = 0 /\ partial'[b][a] = Fresh
    BY <1>3, <1>4
  <2>2. \A x \in Actions, n \in 0..NonceMod - 1 : Fresh[x][n].chunks = <<>>
    BY DEF Fresh, Nothing
  <2> QED
    BY <2>1, <2>2
<1>5. CASE <<b, a>> # <<p, q>> /\ <<a, b>> = <<p, q>>
  <2>1. /\ session'[b][a] = session[b][a] /\ partial'[b][a] = partial[b][a]
        /\ session'[a][b] = 0
    BY <1>3, <1>5
  <2>2. Live(a, b)' = {}
    <3>1. \A l \in loops : l.session # 0
      <4>1. \A l \in loops : l.session \in Nat /\ l.session > 0
        BY LoopType
      <4> QED
        BY <4>1
    <3> QED
      BY <1>1, <2>1, <3>1 DEF Live
  <2>3. CASE session[b][a] # 0
    <3>1. Lane(chan[a][b], partial[b][a], Live(a, b), session[a][b], cut)
      BY <2>3 DEF LaneInv
    <3>2. Lane(chan[a][b], partial[b][a], {}, 0, cut)
      BY <3>1, LaneEnds
    <3> QED
      BY <2>1, <2>2, <2>3, <3>2
  <2>4. CASE session[b][a] = 0
    BY <2>1, <2>4 DEF LaneInv
  <2> QED
    BY <2>3, <2>4
<1>6. CASE <<b, a>> # <<p, q>> /\ <<a, b>> # <<p, q>>
  <2>1. /\ session'[b][a] = session[b][a] /\ partial'[b][a] = partial[b][a]
        /\ session'[a][b] = session[a][b]
    BY <1>3, <1>6
  <2>2. Live(a, b)' = Live(a, b)
    BY <1>1, <2>1 DEF Live
  <2> QED
    BY <2>1, <2>2 DEF LaneInv
<1> QED
  BY <1>4, <1>5, <1>6

(* Rooms that become active for each other begin two lanes. *)
LEMMA ActivateLanes ==
  ASSUME NEW Sendable, WireOK(Sendable), LaneInv, NEW p \in Peers, NEW q \in Peers,
         activate(p, q)
  PROVE  LaneInv'
<1>1. /\ p # q /\ session[p][q] = 0 /\ session[q][p] = 0
      /\ session' = [session EXCEPT ![p][q] = sessions + 1, ![q][p] = sessions + 1]
      /\ chan' = [chan EXCEPT ![p][q] = <<>>, ![q][p] = <<>>]
  BY DEF activate
<1>u. UNCHANGED <<loops, partial, cut>>
  BY DEF activate
<1>2. /\ session \in [Peers -> [Peers -> 0..MaxSessions]] /\ sessions \in Nat
      /\ chan \in [Peers -> [Peers -> Seq(Chunk(Sendable))]]
  BY SessionsType DEF WireOK, WireTyped, WireTypeOK
<1>3. \A a, b \in Peers :
        IF <<a, b>> = <<p, q>> \/ <<a, b>> = <<q, p>>
          THEN session'[a][b] = sessions + 1 /\ chan'[a][b] = <<>>
          ELSE session'[a][b] = session[a][b] /\ chan'[a][b] = chan[a][b]
  BY <1>1, <1>2
<1> SUFFICES ASSUME NEW a \in Peers, NEW b \in Peers
             PROVE  IF session'[b][a] # 0
                      THEN Lane(chan'[a][b], partial[b][a], Live(a, b)', session'[a][b], cut)
                      ELSE \A x \in Actions, n \in 0..NonceMod - 1 :
                             partial[b][a][x][n].chunks = <<>>
  BY <1>u DEF LaneInv
<1>4. CASE <<a, b>> = <<p, q>> \/ <<a, b>> = <<q, p>>
  <2>1. session[b][a] = 0 /\ <<b, a>> \in {<<p, q>>, <<q, p>>}
    BY <1>1, <1>4
  <2>2. session'[b][a] = sessions + 1 /\ session'[a][b] = sessions + 1 /\ chan'[a][b] = <<>>
    BY <1>3, <1>4, <2>1
  <2>3. \A x \in Actions, n \in 0..NonceMod - 1 : partial[b][a][x][n].chunks = <<>>
    BY <2>1 DEF LaneInv
  <2>4. Live(a, b)' = {}
    <3>1. \A l \in loops : l.session # sessions + 1
      <4>1. \A l \in loops : l.session \in Nat /\ l.session <= sessions
        BY LoopType
      <4>2. sessions \in Nat /\ \A n \in Nat : n <= sessions => n # sessions + 1
        BY <1>2
      <4> QED
        BY <4>1, <4>2
    <3> QED
      BY <1>u, <2>2, <3>1 DEF Live
  <2>5. Lane(chan'[a][b], partial[b][a], {}, session'[a][b], cut)
    <3>1. \A k \in DOMAIN <<>> : FALSE
      OBVIOUS
    <3>2. \A x \in Actions, n \in 0..NonceMod - 1 :
            \A k \in DOMAIN partial[b][a][x][n].chunks : FALSE
      BY <2>3, <3>1
    <3> QED
      BY <2>2, <3>2, LaneBegins
  <2>6. session'[b][a] # 0
    BY <1>2, <2>2
  <2> QED
    BY <2>4, <2>5, <2>6
<1>5. CASE ~(<<a, b>> = <<p, q>> \/ <<a, b>> = <<q, p>>)
  <2>1. ~(<<b, a>> = <<p, q>> \/ <<b, a>> = <<q, p>>)
    BY <1>5
  <2>2. /\ session'[b][a] = session[b][a] /\ session'[a][b] = session[a][b]
        /\ chan'[a][b] = chan[a][b]
    BY <1>3, <1>5, <2>1
  <2>3. Live(a, b)' = Live(a, b)
    BY <1>u, <2>2 DEF Live
  <2> QED
    BY <2>2, <2>3 DEF LaneInv
<1> QED
  BY <1>4, <1>5

(* handleData, of the entries of the peer the chunk is from. *)
LEMMA HandleEntries ==
  ASSUME NEW Sendable, WireOK(Sendable), NEW p \in Peers, NEW q \in Peers,
         chan[p][q] # <<>>, handleData(p, q), session[q][p] # 0
  PROVE  /\ Handled(Head(chan[p][q]), partial[q][p], partial'[q][p])
         /\ \A a, b \in Peers : <<a, b>> # <<p, q>> => partial'[b][a] = partial[b][a]
<1> DEFINE s == chan[p][q]
           c == Head(s)
<1>1. partial' = [partial EXCEPT ![q][p][c.msg.action][c.nonce] = kept(p, q, c)]
  BY DEF handleData
<1>2. partial \in [Peers -> [Peers -> [Actions -> [0..NonceMod - 1 -> Entries(Sendable)]]]]
  BY DEF WireOK, WireTyped, WireTypeOK, Entries
<1>3. s \in Seq(Chunk(Sendable)) /\ s # <<>>
  BY DEF WireOK, WireTyped, WireTypeOK
<1> HIDE DEF s
<1>4. c \in Chunk(Sendable)
  BY <1>3
<1> HIDE DEF c
<1>5. c.msg.action \in Actions /\ c.nonce \in 0..NonceMod - 1
  BY <1>4, ChunkType DEF WireOK
<1>6. ASSUME NEW a \in Actions, NEW n \in 0..NonceMod - 1
      PROVE  partial'[q][p][a][n].chunks =
               IF ~Same(c, a, n) THEN partial[q][p][a][n].chunks
               ELSE IF IsLast(c) THEN <<>>
               ELSE IF c.part = 0 THEN partial[q][p][a][n].chunks
               ELSE Append(partial[q][p][a][n].chunks, c)
  <2>1. partial'[q][p][a][n] =
          IF c.msg.action = a /\ c.nonce = n THEN kept(p, q, c) ELSE partial[q][p][a][n]
    <3>1. partial[q][p] \in [Actions -> [0..NonceMod - 1 -> Entries(Sendable)]]
      BY <1>2
    <3>2. partial'[q][p] = [partial[q][p] EXCEPT ![c.msg.action] =
                              [partial[q][p][c.msg.action] EXCEPT ![c.nonce] = kept(p, q, c)]]
      BY <1>1, <1>2
    <3> DEFINE f == partial[q][p]
               v == kept(p, q, c)
               g == partial'[q][p]
               b == c.msg.action
               i == c.nonce
    <3>4. /\ f \in [Actions -> [0..NonceMod - 1 -> Entries(Sendable)]]
          /\ g = [f EXCEPT ![b] = [f[b] EXCEPT ![i] = v]]
          /\ b \in Actions /\ i \in 0..NonceMod - 1
      BY <1>5, <3>1, <3>2
    <3> HIDE DEF f, g, v, b, i
    <3>5. g[a][n] = IF b = a /\ i = n THEN v ELSE f[a][n]
      <4>1. CASE b = a
        <5>1. g[a] = [f[a] EXCEPT ![i] = v] /\ f[a] \in [0..NonceMod - 1 -> Entries(Sendable)]
          BY <3>4, <4>1
        <5> QED
          BY <3>4, <4>1, <5>1
      <4>2. CASE b # a
        <5>1. g[a] = f[a]
          BY <3>4, <4>2
        <5> QED
          BY <4>2, <5>1
      <4> QED
        BY <4>1, <4>2
    <3> QED
      BY <3>5 DEF f, g, v, b, i
  <2>2. partial[q][p][a][n] \in Entries(Sendable)
    BY EntryType DEF WireOK
  <2>3. CASE ~Same(c, a, n)
    BY <2>1, <2>3 DEF Same
  <2>4. CASE Same(c, a, n) /\ IsLast(c)
    BY <2>1, <2>4 DEF Same, kept, Nothing
  <2>5. CASE Same(c, a, n) /\ ~IsLast(c)
    <3>1. partial'[q][p][a][n] =
            IF c.part = 0 THEN [partial[q][p][a][n] EXCEPT !.meta = c.msg]
                          ELSE [partial[q][p][a][n] EXCEPT !.chunks = Append(@, c)]
      BY <2>1, <2>5 DEF Same, kept, assembled
    <3> QED
      BY <2>2, <2>5, <3>1 DEF Entries
  <2> QED
    BY <2>3, <2>4, <2>5
<1>7. \A a, b \in Peers : <<a, b>> # <<p, q>> => partial'[b][a] = partial[b][a]
  BY <1>1, <1>2
<1> QED
  BY <1>6, <1>7 DEF Handled, c, s

(* handleData moves a lane on. *)
LEMMA HandleLanes ==
  ASSUME NEW Sendable, WireOK(Sendable), LaneInv, NEW p \in Peers, NEW q \in Peers,
         chan[p][q] # <<>>, handleData(p, q)
  PROVE  LaneInv'
<1> DEFINE s == chan[p][q]
           c == Head(s)
<1>1. /\ chan' = [chan EXCEPT ![p][q] = Tail(s)]
      /\ UNCHANGED <<session, loops, cut>>
      /\ session[q][p] = 0 => partial' = partial
      /\ session[q][p] # 0 =>
           partial' = [partial EXCEPT ![q][p][c.msg.action][c.nonce] = kept(p, q, c)]
  BY DEF handleData
<1>2. /\ chan \in [Peers -> [Peers -> Seq(Chunk(Sendable))]]
      /\ partial \in [Peers -> [Peers -> [Actions -> [0..NonceMod - 1 -> Entries(Sendable)]]]]
  BY DEF WireOK, WireTyped, WireTypeOK, Entries
<1>3. /\ s \in Seq(Chunk(Sendable)) /\ s # <<>>
  BY <1>2
<1> HIDE DEF s
<1>4. c \in Chunk(Sendable)
  BY <1>3
<1> HIDE DEF c
<1>5. c.msg.action \in Actions /\ c.nonce \in 0..NonceMod - 1
  BY <1>4, ChunkType DEF WireOK
<1>6. /\ chan'[p][q] = Tail(s)
      /\ \A a, b \in Peers : <<a, b>> # <<p, q>> => chan'[a][b] = chan[a][b]
  BY <1>1, <1>2
<1>7. \A a, b \in Peers : <<a, b>> # <<p, q>> => partial'[b][a] = partial[b][a]
  BY <1>1, <1>2
<1>8. \A a, b \in Peers : Live(a, b)' = Live(a, b)
  BY <1>1 DEF Live
<1>9. ASSUME session[q][p] # 0
      PROVE  Lane(Tail(s), partial'[q][p], Live(p, q), session[p][q], cut)
  <2>1. Lane(s, partial[q][p], Live(p, q), session[p][q], cut)
    BY <1>9 DEF LaneInv, s
  <2>2. LaneTyped(Sendable, s, partial[q][p], Live(p, q))
    BY LaneTypes DEF WireOK, s
  <2>3. Handled(c, partial[q][p], partial'[q][p])
    BY <1>9, HandleEntries DEF c, s
  <2>4. c = Head(s)
    BY DEF c
  <2> DEFINE entries == partial[q][p]
             new == partial'[q][p]
             L == Live(p, q)
             on == session[p][q]
             t == Tail(s)
  <2>5. /\ Lane(s, entries, L, on, cut) /\ LaneTyped(Sendable, s, entries, L)
        /\ t = Tail(s) /\ WireTyped(Sendable)
    BY <2>1, <2>2 DEF WireOK
  <2>6. Handled(c, entries, new)
    BY <2>3
  <2> HIDE DEF entries, new, L, on, t
  <2>7. Lane(t, new, L, on, cut)
    BY <1>3, <2>4, <2>5, <2>6, LaneHandles
  <2> QED
    BY <2>7 DEF t, new, L, on
<1> SUFFICES ASSUME NEW a \in Peers, NEW b \in Peers
             PROVE  IF session[b][a] # 0
                      THEN Lane(chan'[a][b], partial'[b][a], Live(a, b), session[a][b], cut)
                      ELSE \A x \in Actions, n \in 0..NonceMod - 1 :
                             partial'[b][a][x][n].chunks = <<>>
  BY <1>1, <1>8 DEF LaneInv
<1>10. CASE <<a, b>> = <<p, q>>
  <2>1. a = p /\ b = q
    BY <1>10
  <2>2. CASE session[q][p] = 0
    <3>1. \A x \in Actions, n \in 0..NonceMod - 1 : partial[q][p][x][n].chunks = <<>>
      BY <2>2 DEF LaneInv
    <3>2. partial' = partial
      BY <1>1, <2>2
    <3> QED
      BY <2>1, <2>2, <3>1, <3>2
  <2>3. CASE session[q][p] # 0
    BY <1>6, <1>9, <2>1, <2>3
  <2> QED
    BY <2>2, <2>3
<1>11. CASE <<a, b>> # <<p, q>>
  BY <1>6, <1>7, <1>11 DEF LaneInv
<1> QED
  BY <1>10, <1>11

(* At first there may be what is left of a message that was cut short. *)
LEMMA LanesStart ==
  ASSUME NEW Sendable, \A m \in Sendable : m.action \in Actions,
         NEW who \in Peers, NEW past \in SUBSET Sendable, WireInit(who, past)
  PROVE  LaneInv
<1>1. loops = {} /\ cut = past /\ chan = [p \in Peers |-> [q \in Peers |-> <<>>]]
  BY DEF WireInit
<1>2. \A p, q \in Peers : Live(p, q) = {} /\ chan[p][q] = <<>>
  BY <1>1 DEF Live
<1>3. \A a \in Actions, n \in 0..NonceMod - 1 : Fresh[a][n].chunks = <<>>
  BY DEF Fresh, Nothing
<1>4. \A k \in DOMAIN <<>> : FALSE
  OBVIOUS
<1>5. CASE past = {}
  <2>1. /\ session = [p \in Peers |-> [q \in Peers |-> 0]]
        /\ partial = [q \in Peers |-> [p \in Peers |-> Fresh]]
    BY <1>5 DEF WireInit
  <2>2. \A p, q \in Peers : session[q][p] = 0 /\ partial[q][p] = Fresh
    BY <2>1
  <2> QED
    BY <1>3, <2>2 DEF LaneInv
<1>6. CASE past # {}
  <2>1. session = [p \in Peers |-> [q \in Peers |-> IF p # q THEN 1 ELSE 0]]
    BY <1>6 DEF WireInit
  <2>2. PICK to \in Peers, m \in past :
          /\ who # to
          /\ partial = [x \in Peers |-> [y \in Peers |->
                          IF <<x, y>> = <<to, who>>
                            THEN [Fresh EXCEPT ![m.action][0] = Leftover(m)]
                            ELSE Fresh]]
    BY <1>6 DEF WireInit
  <2> DEFINE data == Leftover(m).chunks
             left == [Fresh EXCEPT ![m.action] = [Fresh[m.action] EXCEPT ![0] = Leftover(m)]]
  <2>3. \A p, q \in Peers :
          /\ <<q, p>> = <<to, who>> => partial[q][p] = left /\ p # q
          /\ <<q, p>> # <<to, who>> => partial[q][p] = Fresh
    BY <2>2
  <2>4. \A a \in Actions, n \in 0..NonceMod - 1 :
          left[a][n].chunks = <<>> \/ left[a][n].chunks = data
    <3> TAKE a \in Actions, n \in 0..NonceMod - 1
    <3>1. CASE a = m.action
      <4>1. left[a] = [Fresh[a] EXCEPT ![0] = Leftover(m)] /\ DOMAIN Fresh[a] = 0..NonceMod - 1
        BY <3>1 DEF Fresh
      <4>2. left[a][n] = IF n = 0 THEN Leftover(m) ELSE Fresh[a][n]
        BY <4>1
      <4> QED
        BY <1>3, <4>2
    <3>2. CASE a # m.action
      <4>1. left[a] = Fresh[a]
        BY <3>2 DEF Fresh
      <4> QED
        BY <1>3, <4>1
    <3> QED
      BY <3>1, <3>2
  <2>5. /\ \A k \in DOMAIN data : data[k].msg = m /\ data[k].part = k
        /\ DOMAIN data \subseteq Nat
    <3>1. LastPart(m) \in Nat
      BY ChunksAssumption DEF LastPart
    <3> QED
      BY <3>1 DEF Leftover
  <2> HIDE DEF data, left
  <2> SUFFICES ASSUME NEW p \in Peers, NEW q \in Peers
               PROVE  IF session[q][p] # 0
                        THEN Lane(chan[p][q], partial[q][p], {}, session[p][q], cut)
                        ELSE \A a \in Actions, n \in 0..NonceMod - 1 :
                               partial[q][p][a][n].chunks = <<>>
    BY <1>2 DEF LaneInv
  <2>6. CASE p = q
    <3>1. session[q][p] = 0 /\ partial[q][p] = Fresh
      BY <2>1, <2>3, <2>6
    <3> QED
      BY <1>3, <3>1
  <2>7. CASE p # q
    <3> DEFINE entries == partial[q][p]
    <3>1. entries = Fresh \/ entries = left
      BY <2>3
    <3> HIDE DEF entries
    <3>2. \A a \in Actions, n \in 0..NonceMod - 1 :
            entries[a][n].chunks = <<>> \/ entries[a][n].chunks = data
      BY <1>3, <2>4, <3>1
    <3>3. \A a \in Actions, n \in 0..NonceMod - 1 :
            \A k \in DOMAIN entries[a][n].chunks : entries[a][n].chunks[k].msg \in cut
      BY <1>1, <1>4, <2>5, <3>2
    <3>4. \A a \in Actions, n \in 0..NonceMod - 1 :
            \A i, k \in DOMAIN entries[a][n].chunks :
              LET d == entries[a][n].chunks
              IN  i < k /\ d[i].msg = d[k].msg => d[i].part < d[k].part
      BY <1>4, <2>5, <3>2
    <3>5. Lane(chan[p][q], entries, {}, session[p][q], cut)
      BY <1>2, <3>3, <3>4, LaneBegins
    <3>6. session[q][p] # 0
      BY <2>1, <2>7
    <3> QED
      BY <3>5, <3>6 DEF entries
  <2> QED
    BY <2>6, <2>7
<1> QED
  BY <1>5, <1>6

(* A message that is completed is whole. *)
LEMMA LanesWhole ==
  ASSUME NEW Sendable, WireOK(Sendable), LaneInv
  PROVE  Whole
<1> SUFFICES ASSUME NEW p \in Peers, NEW q \in Peers, Completes(p, q)
             PROVE  LET m == Head(chan[p][q]).msg
                        chunks == payload(p, q).chunks
                        own == {i \in DOMAIN chunks : chunks[i].msg = m}
                    IN  /\ payload(p, q).meta = m
                        /\ \A i \in DOMAIN chunks \ own : chunks[i].msg \in cut
                        /\ {chunks[i].part : i \in own} = 1..LastPart(m)
                        /\ \A i, k \in own : i < k => chunks[i].part < chunks[k].part
  BY DEF Whole
<1> DEFINE s == chan[p][q]
           c == Head(s)
           entry == partial[q][p][c.msg.action][c.nonce]
           d == entry.chunks
           all == payload(p, q).chunks
<1>1. /\ s \in Seq(Chunk(Sendable)) /\ s # <<>> /\ session[q][p] # 0 /\ IsLast(c)
  BY DEF WireOK, WireTyped, WireTypeOK, Completes
<1>2. c = s[1] /\ c \in Chunk(Sendable) /\ 1 \in 1..Len(s)
  <2> HIDE DEF s
  <2> QED
    BY <1>1
<1>3. /\ c.msg \in Sendable /\ c.msg.action \in Actions /\ c.nonce \in 0..NonceMod - 1
      /\ c.part \in Nat /\ LastPart(c.msg) \in Nat /\ LastPart(c.msg) > 0
      /\ c.part = LastPart(c.msg)
  BY <1>1, <1>2, ChunkType DEF WireOK, IsLast
<1>4. Lane(s, partial[q][p], Live(p, q), session[p][q], cut)
  BY <1>1 DEF LaneInv
<1>5. entry \in Entries(Sendable)
  BY <1>3, EntryType DEF WireOK
<1>6. all = Append(d, c)
  <2>1. payload(p, q) = IF c.part = 0 THEN [entry EXCEPT !.meta = c.msg]
                                      ELSE [entry EXCEPT !.chunks = Append(d, c)]
    BY DEF payload, assembled
  <2> HIDE DEF entry, c
  <2> QED
    BY <1>3, <1>5, <2>1 DEF Entries
<1>7. payload(p, q).meta = c.msg
  BY OwnMetadata
<1>8. d \in Seq(Chunk(Sendable))
  BY <1>5 DEF Entries
<1>9. Due(s, d, c.msg, c.nonce, 1, c.part, cut)
  BY <1>2, <1>4 DEF Lane
<1>10. \A i \in DOMAIN d :
         /\ \A k \in DOMAIN d : i < k /\ d[i].msg = d[k].msg => d[i].part < d[k].part
         /\ d[i].msg = c.msg => d[i].part < c.part
  <2>1. Rising(s, partial[q][p], Live(p, q))
    BY <1>4 DEF Lane
  <2> QED
    BY <1>2, <1>3, <2>1 DEF Rising
<1> HIDE DEF s, c, entry, d, all
<1>11. Holds(d, c.msg, c.part, cut)
  <2>1. \A h \in 1..1 - 1 : FALSE
    OBVIOUS
  <2> QED
    BY <1>3, <1>9, <2>1 DEF Due, Fits
<1>12. Holds(all, c.msg, c.part + 1, cut)
  BY <1>2, <1>3, <1>6, <1>8, <1>11, HoldsMore
<1>13. ASSUME NEW i \in DOMAIN all, NEW k \in DOMAIN all, i < k, all[i].msg = c.msg,
              all[k].msg = c.msg
       PROVE  all[i].part < all[k].part
  <2>1. /\ Len(d) \in Nat /\ DOMAIN d = 1..Len(d) /\ DOMAIN all = 1..Len(d) + 1
        /\ all[Len(d) + 1] = c /\ \A x \in 1..Len(d) : all[x] = d[x]
    BY <1>6, <1>8
  <2>2. i \in DOMAIN d /\ all[i] = d[i]
    <3>1. i \in 1..Len(d)
      BY <1>13, <2>1
    <3> QED
      BY <2>1, <3>1
  <2>3. CASE k \in DOMAIN d
    BY <1>10, <1>13, <2>1, <2>2, <2>3
  <2>4. CASE k \notin DOMAIN d
    <3>1. all[k] = c
      BY <2>1, <2>4
    <3> QED
      BY <1>10, <1>13, <2>2, <3>1
  <2> QED
    BY <2>3, <2>4
<1>14. 1..(c.part + 1) - 1 = 1..LastPart(c.msg)
  BY <1>3
<1>15. /\ \A i \in DOMAIN all \ {x \in DOMAIN all : all[x].msg = c.msg} : all[i].msg \in cut
       /\ {all[i].part : i \in {x \in DOMAIN all : all[x].msg = c.msg}} = 1..LastPart(c.msg)
       /\ \A i, k \in {x \in DOMAIN all : all[x].msg = c.msg} :
            i < k => all[i].part < all[k].part
  BY <1>12, <1>13, <1>14 DEF Holds
<1> QED
  BY <1>7, <1>15 DEF all, c, s

-----------------------------------------------------------------------------
(* Requests. *)

\* The tables have entries for everybody.
Tables ==
  /\ DOMAIN session = Peers
  /\ \A p \in Peers : DOMAIN session[p] = Peers
  /\ DOMAIN promise = Ids
  /\ DOMAIN asked = Ids
  /\ waiters \subseteq Ids

\* Whoever waits asked while it had the peer, and sessions are counted from 1:
\* that a session begins cannot make an old request look like one of it.
Waits(id) ==
  /\ asked[id].by \in Peers /\ asked[id].of \in Peers
  /\ asked[id].session # 0
  /\ session[asked[id].by][asked[id].of] = asked[id].session

WaitInv == Tables /\ \A id \in waiters : Waits(id)

\* What keeps the invariant, of a step that starts no request and ends no
\* session.
LEMMA WaitersShrink ==
  ASSUME WaitInv, UNCHANGED <<session, asked>>, waiters' \subseteq waiters,
         DOMAIN promise' = Ids
  PROVE  WaitInv'
BY DEF WaitInv, Tables, Waits

\* settle() takes the waiters it settles away, and touches no table.
LEMMA SettleShrinks ==
  ASSUME WaitInv, NEW ids, NEW outcome, settle(ids, outcome)
  PROVE  /\ waiters' = waiters \ ids
         /\ DOMAIN promise' = Ids
BY DEF settle, WaitInv, Tables

LEMMA StepKeeps ==
  ASSUME WaitInv, [Next]_vars
  PROVE  WaitInv'
<1>1. CASE UNCHANGED vars
  BY <1>1, WaitersShrink DEF vars, wireVars, WaitInv, Tables
<1>2. ASSUME NEW p \in Peers, NEW q \in Peers, activate(p, q) /\ UNCHANGED rest
      PROVE  WaitInv'
  <2>1. session' = [session EXCEPT ![p][q] = sessions + 1, ![q][p] = sessions + 1]
        /\ p # q /\ session[p][q] = 0 /\ session[q][p] = 0
    BY <1>2 DEF activate
  <2>2. Tables'
    BY <2>1, <1>2 DEF WaitInv, Tables, rest
  <2>3. ASSUME NEW id \in waiters
        PROVE  Waits(id)'
    <3>1. Waits(id)
      BY DEF WaitInv
    <3>2. <<asked[id].by, asked[id].of>> # <<p, q>>
          /\ <<asked[id].by, asked[id].of>> # <<q, p>>
      BY <3>1, <2>1 DEF Waits
    <3>3. session'[asked[id].by][asked[id].of] = session[asked[id].by][asked[id].of]
      BY <3>1, <3>2, <2>1 DEF Waits, WaitInv, Tables
    <3>4. QED
      BY <3>1, <3>3, <1>2 DEF Waits, rest
  <2>4. QED
    BY <2>2, <2>3, <1>2 DEF WaitInv, rest
<1>3. ASSUME NEW p \in Peers, NEW q \in Peers, clearPeer(p, q)
      PROVE  WaitInv'
  <2>1. session' = [session EXCEPT ![p][q] = 0] /\ UNCHANGED asked
        /\ settle(rejected(p, q), "disconnected")
    BY <1>3 DEF clearPeer, exitPeer
  <2>2. waiters' = waiters \ rejected(p, q) /\ DOMAIN promise' = Ids
    BY <2>1, SettleShrinks
  <2>3. Tables'
    BY <2>1, <2>2 DEF WaitInv, Tables
  <2>4. ASSUME NEW id \in waiters'
        PROVE  Waits(id)'
    <3>1. Waits(id) /\ id \in waiters /\ id \notin rejected(p, q)
      BY <2>2 DEF WaitInv
    <3>2. ~(asked[id].by = p /\ asked[id].of = q)
      BY <3>1 DEF rejected
    <3>3. session'[asked[id].by][asked[id].of] = session[asked[id].by][asked[id].of]
      BY <3>1, <3>2, <2>1 DEF Waits, WaitInv, Tables
    <3>4. QED
      BY <3>1, <3>3, <2>1 DEF Waits
  <2>5. QED
    BY <2>3, <2>4 DEF WaitInv
<1>4. ASSUME NEW p \in Requesters, NEW q \in Peers, NEW id \in Ids, requestOne(p, q, id)
      PROVE  WaitInv'
  <2>1. /\ asked' = [asked EXCEPT ![id] = [by |-> p, of |-> q, session |-> session[p][q]]]
        /\ waiters' = waiters \cup {id}
        /\ promise' = [promise EXCEPT ![id] = "pending"]
        /\ UNCHANGED session
    BY <1>4 DEF requestOne
  <2>2. session[p][q] # 0
    BY <1>4 DEF requestOne, send
  <2>3. Tables'
    BY <2>1 DEF WaitInv, Tables
  <2>4. p \in Peers
    BY RequestsAssumption
  <2>5. ASSUME NEW other \in waiters'
        PROVE  Waits(other)'
    <3>1. CASE other = id
      BY <3>1, <2>1, <2>2, <2>4 DEF Waits, WaitInv, Tables
    <3>2. CASE other # id
      <4>1. Waits(other) /\ other \in Ids
        BY <3>2, <2>1 DEF WaitInv, Tables
      <4>2. asked'[other] = asked[other]
        BY <4>1, <3>2, <2>1
      <4>3. QED
        BY <4>1, <4>2, <2>1 DEF Waits
    <3>3. QED
      BY <3>1, <3>2
  <2>6. QED
    BY <2>3, <2>5 DEF WaitInv
<1>5. ASSUME NEW id \in Ids, rejectAsAborted(id)
      PROVE  WaitInv'
  BY <1>5, SettleShrinks, WaitersShrink DEF rejectAsAborted
<1>6. ASSUME NEW id \in Ids, timeOut(id)
      PROVE  WaitInv'
  BY <1>6, SettleShrinks, WaitersShrink DEF timeOut, wireVars
<1>7. ASSUME NEW l \in loops, (drained(l) \/ stopped(l)) /\ UNCHANGED rest
      PROVE  WaitInv'
  BY <1>7, WaitersShrink DEF drained, stopped, rest, WaitInv, Tables
<1>8. ASSUME NEW p \in Peers, NEW q \in Peers, receive(p, q)
      PROVE  WaitInv'
  <2>1. UNCHANGED <<session, asked>>
    BY <1>8 DEF receive, handleData
  <2>2. waiters' \subseteq waiters /\ DOMAIN promise' = Ids
    <3>1. CASE UNCHANGED <<promise, waiters>>
      BY <3>1 DEF WaitInv, Tables
    <3>2. CASE receiveResponse(p, q)
      BY <3>2, SettleShrinks DEF receiveResponse
    <3>3. QED
      BY <1>8, <3>1, <3>2 DEF receive, complete, queueIncomingRequest
  <2>3. QED
    BY <2>1, <2>2, WaitersShrink
<1>9. ASSUME NEW q \in Peers, setHandler(q) \/ unsetHandler(q)
      PROVE  WaitInv'
  BY <1>9, WaitersShrink DEF setHandler, unsetHandler, wireVars, WaitInv, Tables
<1>10. ASSUME NEW x \in running, handlerReturns(x)
       PROVE  WaitInv'
  BY <1>10, WaitersShrink DEF handlerReturns, respond, WaitInv, Tables
<1>11. ASSUME NEW x \in queued, refuse(x)
       PROVE  WaitInv'
  BY <1>11, WaitersShrink DEF refuse, respond, WaitInv, Tables
<1>12. QED
  BY <1>1, <1>2, <1>3, <1>4, <1>5, <1>6, <1>7, <1>8, <1>9, <1>10, <1>11
     DEF Next, Asked

LEMMA InitWaits == Init => WaitInv
<1> SUFFICES ASSUME Init PROVE WaitInv
  OBVIOUS
<1>1. PICK who \in Requesters : WireInit(who, {Request(id) : id \in Past})
  BY DEF Init
<1>2. DOMAIN session = Peers /\ \A p \in Peers : DOMAIN session[p] = Peers
  BY <1>1 DEF WireInit
<1>3. QED
  BY <1>2 DEF Init, WaitInv, Tables

\* A request is pending only while the room of whoever made it has the peer it
\* was made to, in the session it was made in (actions.ts:192-214).
THEOREM PendingHasPeerHolds == Spec => []PendingHasPeer
<1>1. WaitInv => PendingHasPeer
  BY DEF WaitInv, Waits, PendingHasPeer
<1>2. QED
  BY <1>1, InitWaits, StepKeeps, PTL DEF Spec

-----------------------------------------------------------------------------
(* A message on its way from p to q: a request that was made by p of q, or  *)
(* the response to one that q made of p, which says what was done about it. *)
Tracked(p, q, m, made, whom, done) ==
  /\ m \in Messages /\ m.id \in Ids /\ made[m.id] # "none"
  /\ m.action = "request" => p = whom[m.id].by /\ q = whom[m.id].of
  /\ m.action # "request" =>
       /\ p = whom[m.id].of /\ q = whom[m.id].by
       /\ m.failed => done[m.id] \in {<<"handled", "failed">>, <<"refused">>}
       /\ ~m.failed => done[m.id] = <<"handled", "returned">>

Track(p, q, m) == Tracked(p, q, m, promise, asked, taken)

(* The i-th chunk from p to q is the last of request id. *)
LastOf(p, q, i, id) ==
  chan[p][q][i].msg = Request(id) /\ IsLast(chan[p][q][i])

(* Of a request there is one loop or one last chunk. *)
Road ==
  /\ \A l \in loops : Track(l.from, l.to, l.msg)
  /\ \A p, q \in Peers : \A i \in 1..Len(chan[p][q]) : Track(p, q, chan[p][q][i].msg)
  /\ \A id \in Ids : \A l1, l2 \in loops :
       l1.msg = Request(id) /\ l2.msg = Request(id) => l1 = l2
  /\ \A id \in Ids, l \in loops, p, q \in Peers : \A i \in 1..Len(chan[p][q]) :
       ~(l.msg = Request(id) /\ LastOf(p, q, i, id))
  /\ \A id \in Ids, p, q \in Peers : \A i, j \in 1..Len(chan[p][q]) :
       LastOf(p, q, i, id) /\ LastOf(p, q, j, id) => i = j

(* A request that may yet be completed at the other side. *)
OnWay(id) ==
  \/ \E l \in loops : l.msg = Request(id)
  \/ \E p, q \in Peers : \E i \in 1..Len(chan[p][q]) : LastOf(p, q, i, id)

Untouched(id) == taken[id] = <<>> /\ \A x \in queued \cup running : x[3] # id

(* What is kept, or handled, is a request that was made. *)
Mine(x) ==
  /\ x[3] \in Ids /\ promise[x[3]] # "none"
  /\ x = <<asked[x[3]].of, asked[x[3]].by, x[3]>>

(* What was done about a request, and where it is, go together. *)
Fate ==
  /\ \A id \in Ids : OnWay(id) => Untouched(id)
  /\ \A x \in queued : Mine(x) /\ taken[x[3]] = <<>>
  /\ \A x \in running : Mine(x) /\ taken[x[3]] = <<"handled">>
  /\ \A id \in Ids : promise[id] = "none" => taken[id] = <<>>
  /\ OutcomeTrue

Asking == [by : Peers, of : Peers, session : Nat]

Promises ==
  /\ promise \in [Ids -> Outcomes \cup {"none", "pending"}]
  /\ asked \in [Ids -> Asking \cup {None}]
  /\ \A id \in Ids : promise[id] # "none" => asked[id] \in Asking
  /\ waiters = {id \in Ids : promise[id] = "pending"}
  /\ onRequest \in [Peers -> BOOLEAN]
  /\ taken \in [Ids -> Dones]

RequestInv == WireOK(Messages) /\ Promises /\ Road /\ Fate

-----------------------------------------------------------------------------
(* The messages there are. *)
LEMMA MessagesKnown ==
  /\ \A m \in Messages : m.action \in Actions
  /\ \A id \in Ids \cup Past : Request(id) \in Messages
  /\ \A id, failed : /\ Request(id).action = "request" /\ Request(id).id = id
                    /\ Response(id, failed).action = "@_response"
                    /\ Response(id, failed).id = id /\ Response(id, failed).failed = failed
  /\ \A id \in Ids, failed \in BOOLEAN : Response(id, failed) \in Messages
  /\ \A m \in Messages : m.action = "request" => m = Request(m.id)
<1>1. \A m \in Messages : m.action \in Actions
  BY RequestsAssumption DEF Messages
<1>2. \A id \in Ids \cup Past : Request(id) \in Messages
  BY DEF Messages, Request
<1>3. \A id, failed : /\ Request(id).action = "request" /\ Request(id).id = id
                      /\ Response(id, failed).action = "@_response"
                      /\ Response(id, failed).id = id
                      /\ Response(id, failed).failed = failed
  BY DEF Request, Response
<1>4. \A id \in Ids, failed \in BOOLEAN : Response(id, failed) \in Messages
  BY DEF Messages, Response
<1>5. ASSUME NEW m \in Messages, m.action = "request"
      PROVE  m = Request(m.id)
  <2>1. m \in [action : {"request"}, id : Ids \cup Past, failed : {FALSE}]
    BY <1>5 DEF Messages
  <2> QED
    BY <2>1 DEF Request
<1> QED
  BY <1>1, <1>2, <1>3, <1>4, <1>5

(* A request that was made stays made, of the same peer. *)
Kept ==
  \A id \in Ids : /\ promise'[id] = "none" <=> promise[id] = "none"
                  /\ promise[id] # "none" => asked'[id] = asked[id]

(* What was done in the end is not done again. *)
DoneStays ==
  \A id \in Ids :
    taken[id] \in Dones \ {<<>>, <<"handled">>} => taken'[id] = taken[id]

(* A message stays on track while promises settle and what was done in the  *)
(* end is not done again. *)
LEMMA TracksKept ==
  ASSUME Kept, DoneStays, NEW p, NEW q, NEW m, Track(p, q, m)
  PROVE  Tracked(p, q, m, promise', asked', taken')
<1>1. /\ <<"handled", "failed">> \in Dones \ {<<>>, <<"handled">>}
      /\ <<"refused">> \in Dones \ {<<>>, <<"handled">>}
      /\ <<"handled", "returned">> \in Dones \ {<<>>, <<"handled">>}
  BY DEF Dones
<1>2. m.action # "request" => taken[m.id] \in Dones \ {<<>>, <<"handled">>}
  BY <1>1 DEF Track, Tracked
<1> QED
  BY <1>2 DEF Track, Tracked, Kept, DoneStays

(* All of them do. *)
KeepsTracks ==
  \A p, q, m : Track(p, q, m) => Tracked(p, q, m, promise', asked', taken')

(* Steps by which loops and chunks only go. *)
LEMMA RoadShrinks ==
  ASSUME Road, loops' \subseteq loops, KeepsTracks,
         \A p, q \in Peers :
           \/ chan'[p][q] = chan[p][q]
           \/ Len(chan'[p][q]) = 0
           \/ /\ Len(chan[p][q]) \in Nat /\ Len(chan'[p][q]) = Len(chan[p][q]) - 1
              /\ \A i \in 1..Len(chan[p][q]) - 1 : chan'[p][q][i] = chan[p][q][i + 1]
  PROVE  Road' /\ \A id \in Ids : OnWay(id)' => OnWay(id)
<1>1. ASSUME NEW p \in Peers, NEW q \in Peers
      PROVE  \E d \in {0, 1} : \A i \in 1..Len(chan'[p][q]) :
               i + d \in 1..Len(chan[p][q]) /\ chan'[p][q][i] = chan[p][q][i + d]
  <2>1. CASE chan'[p][q] = chan[p][q]
    <3>1. \A i \in 1..Len(chan'[p][q]) :
            i + 0 \in 1..Len(chan[p][q]) /\ chan'[p][q][i] = chan[p][q][i + 0]
      BY <2>1
    <3> QED
      BY <3>1
  <2>2. CASE Len(chan'[p][q]) = 0
    <3>1. \A i \in 1..Len(chan'[p][q]) : FALSE
      BY <2>2
    <3> QED
      BY <3>1
  <2>3. CASE /\ Len(chan[p][q]) \in Nat /\ Len(chan'[p][q]) = Len(chan[p][q]) - 1
             /\ \A i \in 1..Len(chan[p][q]) - 1 : chan'[p][q][i] = chan[p][q][i + 1]
    <3>1. \A i \in 1..Len(chan'[p][q]) :
            i + 1 \in 1..Len(chan[p][q]) /\ chan'[p][q][i] = chan[p][q][i + 1]
      BY <2>3
    <3> QED
      BY <3>1
  <2> QED
    BY <2>1, <2>2, <2>3
<1>2. ASSUME NEW p \in Peers, NEW q \in Peers, NEW i \in 1..Len(chan'[p][q])
      PROVE  \E j \in 1..Len(chan[p][q]) : chan'[p][q][i] = chan[p][q][j]
  BY <1>1
<1>3. /\ \A l \in loops' : Tracked(l.from, l.to, l.msg, promise', asked', taken')
      /\ \A p, q \in Peers : \A i \in 1..Len(chan'[p][q]) :
           Tracked(p, q, chan'[p][q][i].msg, promise', asked', taken')
  <2>1. ASSUME NEW p \in Peers, NEW q \in Peers, NEW i \in 1..Len(chan'[p][q])
        PROVE  Tracked(p, q, chan'[p][q][i].msg, promise', asked', taken')
    <3>1. PICK j \in 1..Len(chan[p][q]) : chan'[p][q][i] = chan[p][q][j]
      BY <1>2
    <3>2. Track(p, q, chan[p][q][j].msg)
      BY DEF Road
    <3> QED
      BY <3>1, <3>2 DEF KeepsTracks
  <2> QED
    BY <2>1 DEF Road, KeepsTracks
<1>4. \A id \in Ids, p, q \in Peers : \A i, j \in 1..Len(chan'[p][q]) :
        LastOf(p, q, i, id)' /\ LastOf(p, q, j, id)' => i = j
  <2> SUFFICES ASSUME NEW id \in Ids, NEW p \in Peers, NEW q \in Peers,
                      NEW i \in 1..Len(chan'[p][q]), NEW j \in 1..Len(chan'[p][q]),
                      LastOf(p, q, i, id)', LastOf(p, q, j, id)'
               PROVE  i = j
    OBVIOUS
  <2>1. PICK d \in {0, 1} : \A k \in 1..Len(chan'[p][q]) :
               k + d \in 1..Len(chan[p][q]) /\ chan'[p][q][k] = chan[p][q][k + d]
    BY <1>1
  <2>2. LastOf(p, q, i + d, id) /\ LastOf(p, q, j + d, id)
    BY <2>1 DEF LastOf
  <2>3. i + d = j + d
    BY <2>1, <2>2 DEF Road
  <2> QED
    BY <2>3
<1>5. \A id \in Ids, p, q \in Peers : \A i \in 1..Len(chan'[p][q]) :
        LastOf(p, q, i, id)' => \E j \in 1..Len(chan[p][q]) : LastOf(p, q, j, id)
  <2> SUFFICES ASSUME NEW id \in Ids, NEW p \in Peers, NEW q \in Peers,
                      NEW i \in 1..Len(chan'[p][q]), LastOf(p, q, i, id)'
               PROVE  \E j \in 1..Len(chan[p][q]) : LastOf(p, q, j, id)
    OBVIOUS
  <2>1. PICK j \in 1..Len(chan[p][q]) : chan'[p][q][i] = chan[p][q][j]
    BY <1>2
  <2>2. LastOf(p, q, j, id)
    BY <2>1 DEF LastOf
  <2> QED
    BY <2>2
<1>6. Road'
  <2>1. \A id \in Ids, l \in loops', p, q \in Peers : \A i \in 1..Len(chan'[p][q]) :
          ~(l.msg = Request(id) /\ LastOf(p, q, i, id)')
    BY <1>5 DEF Road
  <2>2. \A id \in Ids : \A l1, l2 \in loops' :
          l1.msg = Request(id) /\ l2.msg = Request(id) => l1 = l2
    BY DEF Road
  <2> QED
    BY <1>3, <1>4, <2>1, <2>2 DEF Road, Track
<1>7. \A id \in Ids : OnWay(id)' => OnWay(id)
  BY <1>5 DEF OnWay
<1> QED
  BY <1>6, <1>7

(* A push of a loop of which there was no trace at the other side yet. *)
LEMMA RoadGrows ==
  ASSUME WireTyped(Messages), Road, KeepsTracks, NEW l \in LoopsOf(Messages),
         NEW k \in Nat, l.next + k <= LastPart(l.msg) + 1, push(l, k),
         Tracked(l.from, l.to, l.msg, promise', asked', taken'),
         \A id \in Ids : l.msg = Request(id) =>
           /\ \A x \in loops : x.msg = l.msg => x = l
           /\ \A p, q \in Peers : \A i \in 1..Len(chan[p][q]) : ~LastOf(p, q, i, id)
  PROVE  Road' /\ \A id \in Ids : OnWay(id)' => OnWay(id) \/ l.msg = Request(id)
<1> DEFINE s == chan[l.from][l.to]
           t == chan'[l.from][l.to]
           new(x) == /\ x.msg = l.msg /\ x.from = l.from /\ x.to = l.to
                     /\ x.session = l.session /\ x.nonce = l.nonce
                     /\ x.next = l.next + k /\ x \in LoopsOf(Messages)
                     /\ x.next <= LastPart(l.msg)
<1>1. /\ l.msg \in Messages /\ l.from \in Peers /\ l.to \in Peers /\ l.next \in Nat
      /\ LastPart(l.msg) \in Nat /\ LastPart(l.msg) > 0
  BY LastPartType DEF LoopsOf
<1>2. /\ s \in Seq(Chunk(Messages)) /\ Len(t) = Len(s) + k
      /\ \A i \in 1..Len(s) : t[i] = s[i]
      /\ \A i \in Len(s) + 1..Len(s) + k :
           t[i].msg = l.msg /\ t[i].part = l.next + (i - Len(s)) - 1
      /\ \A p, q \in Peers : <<p, q>> # <<l.from, l.to>> => chan'[p][q] = chan[p][q]
      /\ \A x \in loops' : (x \in loops /\ x # l) \/ new(x)
  BY PushEffect
<1>3. Len(s) \in Nat
  BY <1>2
<1> HIDE DEF s, t
<1>4. ASSUME NEW p \in Peers, NEW q \in Peers, NEW i \in 1..Len(chan'[p][q])
      PROVE  \/ i \in 1..Len(chan[p][q]) /\ chan'[p][q][i] = chan[p][q][i]
             \/ /\ p = l.from /\ q = l.to /\ i \in Len(s) + 1..Len(s) + k
                /\ chan'[p][q][i].msg = l.msg
                /\ chan'[p][q][i].part = l.next + (i - Len(s)) - 1
  <2>1. CASE <<p, q>> # <<l.from, l.to>>
    BY <1>2, <2>1
  <2>2. CASE p = l.from /\ q = l.to
    <3>1. i \in 1..Len(t)
      BY <2>2 DEF t
    <3>2. i \in 1..Len(s) \/ i \in Len(s) + 1..Len(s) + k
      BY <1>2, <1>3, <3>1
    <3>3. chan'[p][q] = t /\ chan[p][q] = s
      BY <2>2 DEF s, t
    <3> QED
      BY <1>2, <2>2, <3>2, <3>3
  <2> QED
    BY <2>1, <2>2
<1>5. /\ \A x \in loops' : Tracked(x.from, x.to, x.msg, promise', asked', taken')
      /\ \A p, q \in Peers : \A i \in 1..Len(chan'[p][q]) :
           Tracked(p, q, chan'[p][q][i].msg, promise', asked', taken')
  <2>1. ASSUME NEW x \in loops'
        PROVE  Tracked(x.from, x.to, x.msg, promise', asked', taken')
    <3>1. CASE x \in loops
      BY <3>1 DEF Road, KeepsTracks
    <3>2. CASE new(x)
      BY <3>2
    <3> QED
      BY <1>2, <3>1, <3>2
  <2>2. ASSUME NEW p \in Peers, NEW q \in Peers, NEW i \in 1..Len(chan'[p][q])
        PROVE  Tracked(p, q, chan'[p][q][i].msg, promise', asked', taken')
    <3>1. CASE i \in 1..Len(chan[p][q]) /\ chan'[p][q][i] = chan[p][q][i]
      BY <3>1 DEF Road, KeepsTracks
    <3>2. CASE p = l.from /\ q = l.to /\ chan'[p][q][i].msg = l.msg
      BY <3>2
    <3> QED
      BY <1>4, <3>1, <3>2
  <2> QED
    BY <2>1, <2>2
<1>6. ASSUME NEW id \in Ids, NEW x \in loops', NEW y \in loops', x.msg = Request(id), y.msg = Request(id)
      PROVE  x = y
  <2>1. CASE new(x) /\ new(y)
    BY <2>1 DEF LoopsOf
  <2>2. CASE x \in loops /\ x # l /\ y \in loops /\ y # l
    BY <1>6, <2>2 DEF Road
  <2>3. ~(new(x) /\ y \in loops /\ y # l) /\ ~(new(y) /\ x \in loops /\ x # l)
    BY <1>6
  <2> QED
    BY <1>2, <2>1, <2>2, <2>3
<1>7. ASSUME NEW id \in Ids, NEW p \in Peers, NEW q \in Peers, NEW i \in 1..Len(chan'[p][q]),
             LastOf(p, q, i, id)'
      PROVE  \/ i \in 1..Len(chan[p][q]) /\ LastOf(p, q, i, id) /\ l.msg # Request(id)
             \/ /\ p = l.from /\ q = l.to /\ l.msg = Request(id)
                /\ i = Len(s) + k /\ l.next + k = LastPart(l.msg) + 1
  <2>1. CASE i \in 1..Len(chan[p][q]) /\ chan'[p][q][i] = chan[p][q][i]
    BY <1>7, <2>1 DEF LastOf
  <2>2. CASE /\ p = l.from /\ q = l.to /\ i \in Len(s) + 1..Len(s) + k
             /\ chan'[p][q][i].msg = l.msg
             /\ chan'[p][q][i].part = l.next + (i - Len(s)) - 1
    <3>1. l.msg = Request(id) /\ l.next + (i - Len(s)) - 1 = LastPart(l.msg)
      BY <1>7, <2>2 DEF LastOf, IsLast
    <3>2. i = Len(s) + k /\ l.next + k = LastPart(l.msg) + 1
      BY <1>1, <1>3, <2>2, <3>1
    <3> QED
      BY <2>2, <3>1, <3>2
  <2> QED
    BY <1>4, <2>1, <2>2
<1>8. ASSUME NEW id \in Ids, NEW x \in loops', NEW p \in Peers, NEW q \in Peers,
             NEW i \in 1..Len(chan'[p][q]), x.msg = Request(id), LastOf(p, q, i, id)'
      PROVE  FALSE
  <2>1. CASE l.msg # Request(id)
    <3>1. i \in 1..Len(chan[p][q]) /\ LastOf(p, q, i, id)
      BY <1>7, <1>8, <2>1
    <3>2. x \in loops
      BY <1>2, <1>8, <2>1
    <3> QED
      BY <1>8, <3>1, <3>2 DEF Road
  <2>2. CASE l.msg = Request(id)
    <3>1. l.next + k = LastPart(l.msg) + 1
      BY <1>7, <1>8, <2>2
    <3>2. new(x)
      BY <1>2, <1>8, <2>2
    <3> QED
      BY <1>1, <3>1, <3>2
  <2> QED
    BY <2>1, <2>2
<1>9. ASSUME NEW id \in Ids, NEW p \in Peers, NEW q \in Peers, NEW i \in 1..Len(chan'[p][q]),
             NEW j \in 1..Len(chan'[p][q]), LastOf(p, q, i, id)', LastOf(p, q, j, id)'
      PROVE  i = j
  <2>1. CASE l.msg # Request(id)
    <3>1. /\ i \in 1..Len(chan[p][q]) /\ LastOf(p, q, i, id)
          /\ j \in 1..Len(chan[p][q]) /\ LastOf(p, q, j, id)
      BY <1>7, <1>9, <2>1
    <3> QED
      BY <3>1 DEF Road
  <2>2. CASE l.msg = Request(id)
    BY <1>7, <1>9, <2>2
  <2> QED
    BY <2>1, <2>2
<1>10. Road'
  BY <1>5, <1>6, <1>8, <1>9 DEF Road, Track
<1>11. ASSUME NEW id \in Ids, OnWay(id)', l.msg # Request(id)
       PROVE  OnWay(id)
  <2>1. CASE \E x \in loops' : x.msg = Request(id)
    BY <1>2, <1>11, <2>1 DEF OnWay
  <2>2. CASE \E p, q \in Peers : \E i \in 1..Len(chan'[p][q]) : LastOf(p, q, i, id)'
    BY <1>7, <1>11, <2>2 DEF OnWay
  <2> QED
    BY <1>11, <2>1, <2>2 DEF OnWay
<1> QED
  BY <1>10, <1>11

-----------------------------------------------------------------------------
(* settle(), of requests that wait. *)
LEMMA SettleEffect ==
  ASSUME Promises, NEW ids, NEW outcome \in Outcomes, ids \subseteq waiters,
         settle(ids, outcome), UNCHANGED <<asked, onRequest>>, taken' \in [Ids -> Dones]
  PROVE  /\ Promises' /\ Kept
         /\ \A id \in Ids : promise'[id] = IF id \in ids THEN outcome ELSE promise[id]
<1>1. /\ waiters' = waiters \ ids
      /\ promise' = [id \in Ids |-> IF id \in ids THEN outcome ELSE promise[id]]
      /\ asked' = asked /\ onRequest' = onRequest
  BY DEF settle
<1>2. \A id \in Ids : promise'[id] = IF id \in ids THEN outcome ELSE promise[id]
  BY <1>1
<1>3. outcome # "none" /\ outcome # "pending"
  BY DEF Outcomes
<1>4. \A id \in ids : id \in Ids /\ promise[id] = "pending"
  BY DEF Promises
<1>5. Kept
  BY <1>1, <1>2, <1>3, <1>4 DEF Kept
<1>6. promise' \in [Ids -> Outcomes \cup {"none", "pending"}]
  BY <1>1 DEF Promises
<1>7. \A id \in Ids : promise'[id] # "none" => asked'[id] \in Asking
  BY <1>1, <1>5 DEF Promises, Kept
<1>8. waiters' = {id \in Ids : promise'[id] = "pending"}
  BY <1>1, <1>2, <1>3, <1>4 DEF Promises
<1> QED
  BY <1>1, <1>2, <1>5, <1>6, <1>7, <1>8 DEF Promises

(* Steps in which nothing is done about a request and none is sent. *)
LEMMA Onlookers ==
  ASSUME RequestInv, WireOK(Messages)', Promises', Road', OutcomeTrue', Kept,
         \A id \in Ids : OnWay(id)' => OnWay(id), UNCHANGED <<queued, running, taken>>
  PROVE  RequestInv'
<1>1. \A id \in Ids : OnWay(id)' => Untouched(id)'
  BY DEF RequestInv, Fate, Untouched
<1>2. \A x : Mine(x) => Mine(x)'
  BY DEF Mine, Kept
<1>3. /\ \A x \in queued : Mine(x)' /\ taken[x[3]] = <<>>
      /\ \A x \in running : Mine(x)' /\ taken[x[3]] = <<"handled">>
  BY <1>2 DEF RequestInv, Fate
<1>4. \A id \in Ids : promise'[id] = "none" => taken[id] = <<>>
  BY DEF RequestInv, Fate, Kept
<1> QED
  BY <1>1, <1>3, <1>4 DEF RequestInv, Fate

(* Steps that settle promises as nobody answered. *)
LEMMA SettlesAlone ==
  ASSUME RequestInv, WireOK(Messages)', NEW ids, ids \subseteq waiters,
         NEW outcome \in {"aborted", "timeout", "disconnected"}, settle(ids, outcome),
         UNCHANGED <<loops, chan, asked, onRequest, queued, running, taken>>
  PROVE  RequestInv' /\ KeepsTracks
<1>1. /\ outcome \in Outcomes /\ outcome # "fulfilled" /\ outcome # "rejected"
      /\ taken' \in [Ids -> Dones]
  BY DEF Outcomes, RequestInv, Promises
<1>2. /\ Promises' /\ Kept
      /\ \A id \in Ids : promise'[id] = IF id \in ids THEN outcome ELSE promise[id]
  BY <1>1, SettleEffect DEF RequestInv
<1>3. DoneStays
  BY DEF DoneStays
<1>4. KeepsTracks
  BY <1>2, <1>3, TracksKept DEF KeepsTracks
<1>5. Road' /\ \A id \in Ids : OnWay(id)' => OnWay(id)
  BY <1>4, RoadShrinks DEF RequestInv
<1>6. OutcomeTrue'
  BY <1>1, <1>2 DEF RequestInv, Fate, OutcomeTrue
<1> QED
  BY <1>2, <1>4, <1>5, <1>6, Onlookers

(* Steps of the wire alone. *)
LEMMA WireAlone ==
  ASSUME RequestInv, WireOK(Messages)', UNCHANGED rest,
         Road' /\ \A id \in Ids : OnWay(id)' => OnWay(id)
  PROVE  RequestInv'
<1>1. /\ promise' = promise /\ asked' = asked /\ waiters' = waiters
      /\ onRequest' = onRequest /\ queued' = queued /\ running' = running
      /\ taken' = taken
  BY DEF rest
<1>2. Promises' /\ Kept /\ OutcomeTrue'
  BY <1>1 DEF RequestInv, Promises, Kept, Fate, OutcomeTrue
<1> QED
  BY <1>1, <1>2, Onlookers

(* What is unchanged stays on track. *)
LEMMA RestKeepsTracks ==
  ASSUME UNCHANGED <<promise, asked, taken>>
  PROVE  KeepsTracks
<1>1. Kept /\ DoneStays
  BY DEF Kept, DoneStays
<1> QED
  BY <1>1, TracksKept DEF KeepsTracks

LEMMA ActivateStep ==
  ASSUME RequestInv, NEW p \in Peers, NEW q \in Peers, activate(p, q) /\ UNCHANGED rest
  PROVE  RequestInv' /\ KeepsTracks
<1>1. WireOK(Messages)'
  BY ActivateKeeps DEF RequestInv
<1>2. KeepsTracks
  BY RestKeepsTracks DEF rest
<1>3. \A a, b \in Peers : chan'[a][b] = chan[a][b] \/ Len(chan'[a][b]) = 0
  <2>1. chan' = [chan EXCEPT ![p][q] = <<>>, ![q][p] = <<>>] /\ p # q
    BY DEF activate
  <2>2. chan \in [Peers -> [Peers -> Seq(Chunk(Messages))]]
    BY DEF RequestInv, WireOK, WireTyped, WireTypeOK
  <2>3. \A a, b \in Peers : chan'[a][b] = chan[a][b] \/ chan'[a][b] = <<>>
    BY <2>1, <2>2
  <2> QED
    BY <2>3
<1>4. loops' \subseteq loops
  BY DEF activate
<1>5. Road' /\ \A id \in Ids : OnWay(id)' => OnWay(id)
  BY <1>2, <1>3, <1>4, RoadShrinks DEF RequestInv
<1> QED
  BY <1>1, <1>2, <1>5, WireAlone

LEMMA StoppedStep ==
  ASSUME RequestInv, NEW l \in loops, stopped(l) /\ UNCHANGED rest
  PROVE  RequestInv' /\ KeepsTracks
<1>1. WireOK(Messages)'
  BY StoppedKeeps DEF RequestInv
<1>2. KeepsTracks
  BY RestKeepsTracks DEF rest
<1>3. loops' \subseteq loops /\ chan' = chan
  BY DEF stopped
<1>4. Road' /\ \A id \in Ids : OnWay(id)' => OnWay(id)
  BY <1>2, <1>3, RoadShrinks DEF RequestInv
<1> QED
  BY <1>1, <1>2, <1>4, WireAlone

LEMMA ClearPeerStep ==
  ASSUME RequestInv, NEW p \in Peers, NEW q \in Peers, clearPeer(p, q)
  PROVE  RequestInv' /\ KeepsTracks
<1>1. WireOK(Messages)'
  BY ExitKeeps DEF RequestInv, clearPeer
<1>2. rejected(p, q) \subseteq waiters
  BY DEF rejected
<1>3. /\ settle(rejected(p, q), "disconnected")
      /\ UNCHANGED <<loops, chan, asked, onRequest, queued, running, taken>>
  BY DEF clearPeer, exitPeer
<1> QED
  BY <1>1, <1>2, <1>3, SettlesAlone

LEMMA AbortStep ==
  ASSUME RequestInv, NEW id \in Ids, rejectAsAborted(id)
  PROVE  RequestInv' /\ KeepsTracks
<1>1. Request(id) \in Messages
  BY MessagesKnown
<1>2. WireOK(Messages)'
  BY <1>1, AbortKeeps DEF RequestInv, rejectAsAborted
<1>3. {id} \subseteq waiters
  BY DEF rejectAsAborted
<1>4. /\ settle({id}, "aborted")
      /\ UNCHANGED <<loops, chan, asked, onRequest, queued, running, taken>>
  BY DEF rejectAsAborted
<1> QED
  BY <1>2, <1>3, <1>4, SettlesAlone

LEMMA TimeOutStep ==
  ASSUME RequestInv, NEW id \in Ids, timeOut(id)
  PROVE  RequestInv' /\ KeepsTracks
<1>1. WireOK(Messages)'
  BY QuietKeeps DEF RequestInv, timeOut
<1>2. {id} \subseteq waiters
  BY DEF timeOut, TimerRuns
<1>3. /\ settle({id}, "timeout")
      /\ UNCHANGED <<loops, chan, asked, onRequest, queued, running, taken>>
  BY DEF timeOut, wireVars
<1> QED
  BY <1>1, <1>2, <1>3, SettlesAlone

LEMMA DrainedStep ==
  ASSUME RequestInv, NEW l \in loops, drained(l) /\ UNCHANGED rest
  PROVE  RequestInv' /\ KeepsTracks
<1>1. WireOK(Messages)'
  BY DrainedKeeps DEF RequestInv
<1>2. KeepsTracks
  BY RestKeepsTracks DEF rest
<1>3. /\ l \in LoopsOf(Messages) /\ l.next <= LastPart(l.msg) /\ l.msg \in Messages
      /\ l.next \in Nat /\ LastPart(l.msg) \in Nat
  BY LoopType, LastPartType DEF RequestInv, WireOK
<1>4. PICK k \in 1..LastPart(l.msg) - l.next + 1 : push(l, k)
  BY DEF drained
<1>5. k \in Nat /\ l.next + k <= LastPart(l.msg) + 1
  BY <1>3
<1>6. Tracked(l.from, l.to, l.msg, promise', asked', taken')
  BY <1>2 DEF RequestInv, Road, KeepsTracks
<1>7. ASSUME NEW id \in Ids, l.msg = Request(id)
      PROVE  /\ \A x \in loops : x.msg = l.msg => x = l
             /\ \A p, q \in Peers : \A i \in 1..Len(chan[p][q]) : ~LastOf(p, q, i, id)
             /\ OnWay(id)
  BY <1>7 DEF RequestInv, Road, OnWay
<1>8. WireTyped(Messages) /\ Road
  BY DEF RequestInv, WireOK
<1>9. Road' /\ \A id \in Ids : OnWay(id)' => OnWay(id) \/ l.msg = Request(id)
  BY <1>2, <1>3, <1>4, <1>5, <1>6, <1>7, <1>8, RoadGrows
<1> QED
  BY <1>1, <1>2, <1>7, <1>9, WireAlone

(* A step that deals with some requests, and moves what is kept of them. *)
LEMMA FateMoves ==
  ASSUME Fate, NEW dealt \in SUBSET Ids, UNCHANGED <<promise, asked>>,
         \A id \in dealt : promise[id] # "none" /\ taken[id] \in {<<>>, <<"handled">>},
         \A id \in Ids \ dealt : taken'[id] = taken[id],
         \A id \in Ids : OnWay(id)' => OnWay(id) /\ id \notin dealt,
         \A x \in queued' :
           \/ x \in queued /\ x[3] \notin dealt
           \/ x[3] \in dealt /\ Mine(x) /\ taken'[x[3]] = <<>>,
         \A x \in running' :
           \/ x \in running /\ x[3] \notin dealt
           \/ x[3] \in dealt /\ Mine(x) /\ taken'[x[3]] = <<"handled">>
  PROVE  Fate'
<1>0. \A x : Mine(x) => Mine(x)'
  BY DEF Mine
<1>1. ASSUME NEW id \in Ids, OnWay(id)'
      PROVE  Untouched(id)'
  <2>1. OnWay(id) /\ id \notin dealt /\ Untouched(id)
    BY <1>1 DEF Fate
  <2>2. taken'[id] = <<>>
    BY <2>1 DEF Untouched
  <2>3. \A x \in queued' \cup running' : x[3] # id
    BY <2>1 DEF Untouched
  <2> QED
    BY <2>2, <2>3 DEF Untouched
<1>2. ASSUME NEW x \in queued'
      PROVE  Mine(x)' /\ taken'[x[3]] = <<>>
  <2>1. x \in queued => x[3] \in Ids /\ Mine(x) /\ taken[x[3]] = <<>>
    BY DEF Fate, Mine
  <2> QED
    BY <1>0, <2>1
<1>3. ASSUME NEW x \in running'
      PROVE  Mine(x)' /\ taken'[x[3]] = <<"handled">>
  <2>1. x \in running => x[3] \in Ids /\ Mine(x) /\ taken[x[3]] = <<"handled">>
    BY DEF Fate, Mine
  <2> QED
    BY <1>0, <2>1
<1>4. \A id \in Ids : promise'[id] = "none" => taken'[id] = <<>>
  BY DEF Fate
<1>5. ASSUME NEW id \in Ids
      PROVE  /\ promise'[id] = "fulfilled" => taken'[id] = <<"handled", "returned">>
             /\ promise'[id] = "rejected" =>
                  taken'[id] \in {<<"handled", "failed">>, <<"refused">>}
  <2>1. /\ promise[id] = "fulfilled" => taken[id] = <<"handled", "returned">>
        /\ promise[id] = "rejected" =>
             taken[id] \in {<<"handled", "failed">>, <<"refused">>}
    BY DEF Fate, OutcomeTrue
  <2>2. taken[id] \in {<<>>, <<"handled">>} =>
          taken[id] \notin {<<"handled", "returned">>, <<"handled", "failed">>, <<"refused">>}
    OBVIOUS
  <2> QED
    BY <2>1, <2>2
<1>6. OutcomeTrue'
  BY <1>5 DEF OutcomeTrue
<1> QED
  BY <1>1, <1>2, <1>3, <1>4, <1>6 DEF Fate

(* responseAction.send. *)
LEMMA RespondEffect ==
  ASSUME RequestInv, KeepsTracks, NEW p \in Peers, NEW q \in Peers, NEW m \in Messages,
         m.action # "request", respond(q, p, m),
         Tracked(q, p, m, promise', asked', taken')
  PROVE  WireOK(Messages)' /\ Road' /\ \A id \in Ids : OnWay(id)' => OnWay(id)
<1>1. UNCHANGED <<session, sessions, partial, aborted, cut, spoiled>>
  BY DEF respond
<1>2. CASE session[q][p] # 0
  <2>1. send(q, p, m)
    BY <1>2 DEF respond
  <2>2. WireOK(Messages)'
    BY <1>1, <2>1, SendKeeps DEF RequestInv
  <2> DEFINE l == [msg |-> m, from |-> q, to |-> p, session |-> session[q][p],
                   nonce |-> nonce[q][m.action], next |-> 0]
  <2>3. PICK k \in 0..LastPart(m) + 1 : push(l, k)
    BY <2>1 DEF send
  <2>4. LastPart(m) \in Nat /\ m.action \in Actions
    BY LastPartType, MessagesKnown DEF RequestInv, WireOK
  <2>5. l \in LoopsOf(Messages)
    <3>1. session \in [Peers -> [Peers -> 0..MaxSessions]]
          /\ nonce \in [Peers -> [Actions -> 0..NonceMod - 1]]
      BY DEF RequestInv, WireOK, WireTyped, WireTypeOK
    <3>2. session[q][p] \in 0..MaxSessions
      BY <3>1
    <3>3. session[q][p] \in 1..MaxSessions
      BY <1>2, <3>2, WireAssumption
    <3>4. nonce[q][m.action] \in 0..NonceMod - 1
      BY <2>4, <3>1
    <3> QED
      BY <3>3, <3>4 DEF LoopsOf
  <2>6. k \in Nat /\ l.next + k <= LastPart(l.msg) + 1
    BY <2>4
  <2>7. \A id \in Ids : l.msg # Request(id)
    BY MessagesKnown
  <2>8. Tracked(l.from, l.to, l.msg, promise', asked', taken')
    OBVIOUS
  <2>9. WireTyped(Messages) /\ Road
    BY DEF RequestInv, WireOK
  <2> HIDE DEF l
  <2>10. Road' /\ \A id \in Ids : OnWay(id)' => OnWay(id) \/ l.msg = Request(id)
    BY <2>3, <2>5, <2>6, <2>7, <2>8, <2>9, RoadGrows
  <2> QED
    BY <2>2, <2>7, <2>10
<1>3. CASE session[q][p] = 0
  <2>1. UNCHANGED <<nonce, loops, chan>>
    BY <1>3 DEF respond
  <2>2. WireOK(Messages)'
    BY <1>1, <2>1, QuietKeeps DEF RequestInv, wireVars
  <2>3. Road' /\ \A id \in Ids : OnWay(id)' => OnWay(id)
    BY <2>1, RoadShrinks DEF RequestInv
  <2> QED
    BY <2>2, <2>3
<1> QED
  BY <1>2, <1>3

(* A handler returns. *)
LEMMA HandlerReturnsStep ==
  ASSUME RequestInv, NEW x \in running, handlerReturns(x)
  PROVE  RequestInv' /\ KeepsTracks
<1> DEFINE id == x[3]
<1>1. /\ Mine(x) /\ taken[id] = <<"handled">> /\ id \in Ids /\ promise[id] # "none"
      /\ x[1] = asked[id].of /\ x[2] = asked[id].by
  BY DEF RequestInv, Fate, Mine
<1>2. x[1] \in Peers /\ x[2] \in Peers
  BY <1>1 DEF RequestInv, Promises, Asking
<1>3. PICK failed \in BOOLEAN :
        /\ respond(x[1], x[2], Response(id, failed))
        /\ taken' = [taken EXCEPT ![id] =
                      Append(@, IF failed THEN "failed" ELSE "returned")]
  BY DEF handlerReturns
<1>4. /\ running' = running \ {x}
      /\ UNCHANGED <<promise, asked, waiters, onRequest, queued>>
  BY DEF handlerReturns
<1> HIDE DEF id
<1>5. taken \in [Ids -> Dones]
  BY DEF RequestInv, Promises
<1>6. /\ taken'[id] = Append(<<"handled">>, IF failed THEN "failed" ELSE "returned")
      /\ \A other \in Ids \ {id} : taken'[other] = taken[other]
      /\ DOMAIN taken' = Ids
  BY <1>1, <1>3, <1>5
<1>7. taken'[id] = IF failed THEN <<"handled", "failed">> ELSE <<"handled", "returned">>
  BY <1>6
<1>8. taken' \in [Ids -> Dones]
  <2>1. \A other \in Ids : taken'[other] \in Dones
    BY <1>5, <1>6, <1>7 DEF Dones
  <2>2. taken' = [other \in Ids |-> taken'[other]]
    BY <1>3, <1>5
  <2> QED
    BY <2>1, <2>2
<1>9. Kept /\ DoneStays
  <2>1. <<"handled">> \notin Dones \ {<<>>, <<"handled">>}
    OBVIOUS
  <2> QED
    BY <1>1, <1>4, <1>6, <2>1 DEF Kept, DoneStays
<1>10. KeepsTracks
  BY <1>9, TracksKept DEF KeepsTracks
<1> DEFINE m == Response(id, failed)
<1>11. /\ m \in Messages /\ m.action # "request" /\ m.id = id /\ m.failed = failed
  BY <1>1, MessagesKnown
<1> HIDE DEF m
<1>12. Tracked(x[1], x[2], m, promise', asked', taken')
  BY <1>1, <1>4, <1>7, <1>11 DEF Tracked
<1>13. WireOK(Messages)' /\ Road' /\ \A other \in Ids : OnWay(other)' => OnWay(other)
  BY <1>2, <1>3, <1>10, <1>11, <1>12, RespondEffect DEF m
<1>14. Promises'
  BY <1>4, <1>8 DEF RequestInv, Promises
<1>15. Fate'
  <2>1. \A other \in Ids : OnWay(other)' => OnWay(other) /\ other \notin {id}
    BY <1>1, <1>13 DEF RequestInv, Fate, Untouched
  <2>2. \A y \in queued' : y \in queued /\ y[3] \notin {id}
    BY <1>1, <1>4 DEF RequestInv, Fate
  <2>3. \A y \in running' : y \in running /\ y[3] \notin {id}
    BY <1>1, <1>4 DEF RequestInv, Fate, Mine, id
  <2>4. {id} \in SUBSET Ids /\ Fate
    BY <1>1 DEF RequestInv
  <2>5. \A other \in {id} : promise[other] # "none" /\ taken[other] \in {<<>>, <<"handled">>}
    BY <1>1
  <2> QED
    BY <1>4, <1>6, <2>1, <2>2, <2>3, <2>4, <2>5, FateMoves
<1> QED
  BY <1>10, <1>13, <1>14, <1>15 DEF RequestInv

(* The timer of a queue refuses a request. *)
LEMMA RefuseStep ==
  ASSUME RequestInv, NEW x \in queued, refuse(x)
  PROVE  RequestInv' /\ KeepsTracks
<1> DEFINE id == x[3]
           m == Response(id, TRUE)
<1>1. /\ Mine(x) /\ taken[id] = <<>> /\ id \in Ids /\ promise[id] # "none"
      /\ x[1] = asked[id].of /\ x[2] = asked[id].by
  BY DEF RequestInv, Fate, Mine
<1>2. x[1] \in Peers /\ x[2] \in Peers
  BY <1>1 DEF RequestInv, Promises, Asking
<1>3. /\ respond(x[1], x[2], m)
      /\ taken' = [taken EXCEPT ![id] = Append(@, "refused")]
      /\ queued' = queued \ {x}
      /\ UNCHANGED <<promise, asked, waiters, onRequest, running>>
  BY DEF refuse, dequeued
<1>4. /\ m \in Messages /\ m.action # "request" /\ m.id = id /\ m.failed = TRUE
  BY <1>1, MessagesKnown
<1> HIDE DEF id, m
<1>5. taken \in [Ids -> Dones]
  BY DEF RequestInv, Promises
<1>6. /\ taken'[id] = Append(<<>>, "refused")
      /\ \A other \in Ids \ {id} : taken'[other] = taken[other]
      /\ DOMAIN taken' = Ids
  BY <1>1, <1>3, <1>5
<1>7. taken'[id] = <<"refused">>
  BY <1>6
<1>8. taken' \in [Ids -> Dones]
  <2>1. \A other \in Ids : taken'[other] \in Dones
    BY <1>5, <1>6, <1>7 DEF Dones
  <2>2. taken' = [other \in Ids |-> taken'[other]]
    BY <1>3, <1>5
  <2> QED
    BY <2>1, <2>2
<1>9. Kept /\ DoneStays
  <2>1. <<>> \notin Dones \ {<<>>, <<"handled">>}
    OBVIOUS
  <2> QED
    BY <1>1, <1>3, <1>6, <2>1 DEF Kept, DoneStays
<1>10. KeepsTracks
  BY <1>9, TracksKept DEF KeepsTracks
<1>11. Tracked(x[1], x[2], m, promise', asked', taken')
  BY <1>1, <1>3, <1>4, <1>7 DEF Tracked
<1>12. WireOK(Messages)' /\ Road' /\ \A other \in Ids : OnWay(other)' => OnWay(other)
  BY <1>2, <1>3, <1>4, <1>10, <1>11, RespondEffect
<1>13. Promises'
  BY <1>3, <1>8 DEF RequestInv, Promises
<1>14. Fate'
  <2>1. \A other \in Ids : OnWay(other)' => OnWay(other) /\ other \notin {id}
    BY <1>12 DEF RequestInv, Fate, Untouched, id
  <2>2. \A y \in queued' : y \in queued /\ y[3] \notin {id}
    BY <1>1, <1>3 DEF RequestInv, Fate, Mine, id
  <2>3. \A y \in running' : y \in running /\ y[3] \notin {id}
    BY <1>1, <1>3 DEF RequestInv, Fate
  <2>4. {id} \in SUBSET Ids /\ Fate
    BY <1>1 DEF RequestInv
  <2>5. \A other \in {id} : promise[other] # "none" /\ taken[other] \in {<<>>, <<"handled">>}
    BY <1>1
  <2> QED
    BY <1>3, <1>6, <2>1, <2>2, <2>3, <2>4, <2>5, FateMoves
<1> QED
  BY <1>10, <1>12, <1>13, <1>14 DEF RequestInv

(* handle(), of requests nothing was done about. *)
LEMMA HandleEffect ==
  ASSUME taken \in [Ids -> Dones], NEW requests, handle(requests),
         \A x \in requests : x[3] \in Ids /\ taken[x[3]] = <<>>
  PROVE  /\ running' = running \cup requests
         /\ taken' \in [Ids -> Dones]
         /\ \A x \in requests : taken'[x[3]] = <<"handled">>
         /\ \A id \in Ids : (\A x \in requests : x[3] # id) => taken'[id] = taken[id]
<1>1. /\ running' = running \cup requests
      /\ taken' = [id \in Ids |-> IF \E x \in requests : x[3] = id
                                    THEN Append(taken[id], "handled") ELSE taken[id]]
  BY DEF handle
<1>2. Append(<<>>, "handled") = <<"handled">>
  OBVIOUS
<1>3. \A x \in requests : taken'[x[3]] = <<"handled">>
  BY <1>1, <1>2
<1>4. \A id \in Ids : (\A x \in requests : x[3] # id) => taken'[id] = taken[id]
  BY <1>1
<1>5. \A id \in Ids : taken'[id] \in Dones
  BY <1>3, <1>4 DEF Dones
<1> QED
  BY <1>1, <1>3, <1>4, <1>5

LEMMA SetHandlerStep ==
  ASSUME RequestInv, NEW q \in Peers, setHandler(q)
  PROVE  RequestInv' /\ KeepsTracks
<1> DEFINE dealt == {x[3] : x \in Of(q)}
<1>1. /\ handle(Of(q)) /\ queued' = queued \ Of(q) /\ UNCHANGED wireVars
      /\ onRequest' = [onRequest EXCEPT ![q] = TRUE]
      /\ UNCHANGED <<promise, asked, waiters>>
  BY DEF setHandler
<1>2. Of(q) \subseteq queued
  BY DEF Of
<1>3. \A x \in queued : Mine(x) /\ x[3] \in Ids /\ promise[x[3]] # "none" /\ taken[x[3]] = <<>>
  BY DEF RequestInv, Fate, Mine
<1>4. taken \in [Ids -> Dones]
  BY DEF RequestInv, Promises
<1>5. /\ running' = running \cup Of(q)
      /\ taken' \in [Ids -> Dones]
      /\ \A x \in Of(q) : taken'[x[3]] = <<"handled">>
      /\ \A id \in Ids : (\A x \in Of(q) : x[3] # id) => taken'[id] = taken[id]
  BY <1>1, <1>2, <1>3, <1>4, HandleEffect
<1>6. /\ \A id \in Ids \ dealt : taken'[id] = taken[id]
      /\ \A id \in dealt : id \in Ids /\ promise[id] # "none" /\ taken[id] = <<>>
  BY <1>2, <1>3, <1>5
<1>7. Kept /\ DoneStays
  <2>1. <<>> \notin Dones \ {<<>>, <<"handled">>}
    OBVIOUS
  <2> QED
    BY <1>1, <1>6, <2>1 DEF Kept, DoneStays
<1>8. KeepsTracks
  BY <1>7, TracksKept DEF KeepsTracks
<1>9. WireOK(Messages)'
  BY <1>1, QuietKeeps DEF RequestInv
<1>10. Road' /\ \A id \in Ids : OnWay(id)' => OnWay(id)
  BY <1>1, <1>8, RoadShrinks DEF RequestInv, wireVars
<1>11. Promises'
  BY <1>1, <1>5 DEF RequestInv, Promises
<1>12. Fate'
  <2>1. \A id \in Ids : OnWay(id)' => OnWay(id) /\ id \notin dealt
    BY <1>2, <1>10 DEF RequestInv, Fate, Untouched
  <2>2. \A y \in queued' : y \in queued /\ y[3] \notin dealt
    <3>1. ASSUME NEW y \in queued', NEW x \in Of(q), y[3] = x[3]
          PROVE  FALSE
      <4>1. y \in queued /\ x \in queued /\ y \notin Of(q)
        BY <1>1, <1>2, <3>1
      <4>2. y = x
        BY <1>3, <3>1, <4>1 DEF Mine
      <4> QED
        BY <3>1, <4>1, <4>2
    <3> QED
      BY <1>1, <3>1
  <2>3. \A y \in running' :
           \/ y \in running /\ y[3] \notin dealt
           \/ y[3] \in dealt /\ Mine(y) /\ taken'[y[3]] = <<"handled">>
    BY <1>2, <1>3, <1>5, <1>6 DEF RequestInv, Fate
  <2>4. dealt \in SUBSET Ids /\ Fate
    BY <1>6 DEF RequestInv
  <2>5. \A id \in dealt : promise[id] # "none" /\ taken[id] \in {<<>>, <<"handled">>}
    BY <1>6
  <2>6. UNCHANGED <<promise, asked>>
    BY <1>1
  <2> HIDE DEF dealt
  <2> QED
    BY <1>6, <2>1, <2>2, <2>3, <2>4, <2>5, <2>6, FateMoves
<1> QED
  BY <1>8, <1>9, <1>10, <1>11, <1>12 DEF RequestInv

LEMMA UnsetHandlerStep ==
  ASSUME RequestInv, NEW q \in Peers, unsetHandler(q)
  PROVE  RequestInv' /\ KeepsTracks
<1>1. /\ onRequest' = [onRequest EXCEPT ![q] = FALSE] /\ UNCHANGED wireVars
      /\ UNCHANGED <<promise, asked, waiters, queued, running, taken>>
  BY DEF unsetHandler
<1>2. WireOK(Messages)'
  BY <1>1, QuietKeeps DEF RequestInv
<1>3. KeepsTracks
  BY <1>1, RestKeepsTracks
<1>4. Road' /\ \A id \in Ids : OnWay(id)' => OnWay(id)
  BY <1>1, <1>3, RoadShrinks DEF RequestInv, wireVars
<1>5. Promises' /\ Kept /\ OutcomeTrue'
  BY <1>1 DEF RequestInv, Promises, Kept, Fate, OutcomeTrue
<1> QED
  BY <1>1, <1>2, <1>3, <1>4, <1>5, Onlookers

-----------------------------------------------------------------------------
(* handleData takes the first chunk away. *)
LEMMA ReceiveEffect ==
  ASSUME RequestInv, NEW p \in Peers, NEW q \in Peers, receive(p, q)
  PROVE  /\ WireOK(Messages)' /\ loops' = loops
         /\ Len(chan[p][q]) \in Nat /\ Len(chan[p][q]) > 0
         /\ Len(chan'[p][q]) = Len(chan[p][q]) - 1
         /\ \A i \in 1..Len(chan[p][q]) - 1 : chan'[p][q][i] = chan[p][q][i + 1]
         /\ \A a, b \in Peers : <<a, b>> # <<p, q>> => chan'[a][b] = chan[a][b]
         /\ Head(chan[p][q]) = chan[p][q][1]
<1>1. WireOK(Messages)'
  BY HandleKeeps DEF RequestInv, receive
<1>2. /\ chan' = [chan EXCEPT ![p][q] = Tail(chan[p][q])] /\ loops' = loops
      /\ chan[p][q] # <<>>
  BY DEF receive, handleData
<1>3. chan \in [Peers -> [Peers -> Seq(Chunk(Messages))]]
  BY DEF RequestInv, WireOK, WireTyped, WireTypeOK
<1> DEFINE s == chan[p][q]
<1>4. s \in Seq(Chunk(Messages)) /\ s # <<>>
  BY <1>2, <1>3
<1> HIDE DEF s
<1>5. /\ Len(s) \in Nat /\ Len(s) > 0 /\ Len(Tail(s)) = Len(s) - 1 /\ Head(s) = s[1]
      /\ \A i \in 1..Len(s) - 1 : Tail(s)[i] = s[i + 1]
  BY <1>4
<1>6. chan'[p][q] = Tail(s)
  BY <1>2, <1>3 DEF s
<1>7. \A a, b \in Peers : <<a, b>> # <<p, q>> => chan'[a][b] = chan[a][b]
  BY <1>2, <1>3
<1> QED
  BY <1>1, <1>2, <1>5, <1>6, <1>7 DEF s

LEMMA ReceiveShrinks ==
  ASSUME RequestInv, NEW p \in Peers, NEW q \in Peers, receive(p, q), KeepsTracks
  PROVE  Road' /\ \A id \in Ids : OnWay(id)' => OnWay(id)
<1>1. /\ loops' = loops /\ Len(chan[p][q]) \in Nat
      /\ Len(chan'[p][q]) = Len(chan[p][q]) - 1
      /\ \A i \in 1..Len(chan[p][q]) - 1 : chan'[p][q][i] = chan[p][q][i + 1]
      /\ \A a, b \in Peers : <<a, b>> # <<p, q>> => chan'[a][b] = chan[a][b]
  BY ReceiveEffect
<1>2. \A a, b \in Peers :
           \/ chan'[a][b] = chan[a][b]
           \/ /\ Len(chan[a][b]) \in Nat /\ Len(chan'[a][b]) = Len(chan[a][b]) - 1
              /\ \A i \in 1..Len(chan[a][b]) - 1 : chan'[a][b][i] = chan[a][b][i + 1]
  BY <1>1
<1> QED
  BY <1>1, <1>2, RoadShrinks DEF RequestInv

(* A request is completed: there is no other trace of it. *)
LEMMA RequestArrives ==
  ASSUME RequestInv, NEW p \in Peers, NEW q \in Peers, receive(p, q),
         Completes(p, q), Head(chan[p][q]).msg.action = "request",
         NEW id, id = Meta(p, q).id
  PROVE  /\ id \in Ids /\ Mine(<<q, p, id>>) /\ Untouched(id) /\ ~OnWay(id)'
         /\ promise[id] # "none"
<1> DEFINE c == Head(chan[p][q])
<1>1. c.msg \in Messages /\ Meta(p, q) = c.msg /\ id = c.msg.id
  BY OwnMetadata DEF RequestInv, Meta
<1>2. /\ loops' = loops /\ Len(chan[p][q]) \in Nat /\ Len(chan[p][q]) > 0
      /\ Len(chan'[p][q]) = Len(chan[p][q]) - 1
      /\ \A i \in 1..Len(chan[p][q]) - 1 : chan'[p][q][i] = chan[p][q][i + 1]
      /\ \A a, b \in Peers : <<a, b>> # <<p, q>> => chan'[a][b] = chan[a][b]
      /\ c = chan[p][q][1]
  BY ReceiveEffect
<1>3. Track(p, q, c.msg)
  BY <1>2 DEF RequestInv, Road
<1>4. /\ id \in Ids /\ promise[id] # "none" /\ p = asked[id].by /\ q = asked[id].of
      /\ c.msg = Request(id)
  BY <1>1, <1>2, <1>3, MessagesKnown DEF Track, Tracked
<1>5. IsLast(c)
  BY DEF Completes
<1>6. LastOf(p, q, 1, id)
  BY <1>2, <1>4, <1>5 DEF LastOf
<1>7. 1 \in 1..Len(chan[p][q])
  BY <1>2
<1> HIDE DEF c
<1>8. OnWay(id)
  BY <1>6, <1>7 DEF OnWay
<1>9. Untouched(id)
  BY <1>4, <1>8 DEF RequestInv, Fate
<1>10. \A l \in loops : l.msg # Request(id)
  BY <1>4, <1>6, <1>7 DEF RequestInv, Road
<1>11. ASSUME NEW a \in Peers, NEW b \in Peers, NEW i \in 1..Len(chan'[a][b]), LastOf(a, b, i, id)'
       PROVE  FALSE
  <2>1. chan'[a][b][i].msg = Request(id) /\ IsLast(chan'[a][b][i])
    BY <1>11 DEF LastOf
  <2>2. CASE <<a, b>> # <<p, q>>
    <3>1. i \in 1..Len(chan[a][b]) /\ LastOf(a, b, i, id)
      BY <1>2, <1>11, <2>1, <2>2 DEF LastOf
    <3>2. Track(a, b, Request(id))
      BY <3>1 DEF RequestInv, Road, LastOf
    <3>3. a = asked[id].by /\ b = asked[id].of
      BY <3>2, MessagesKnown DEF Track, Tracked
    <3> QED
      BY <1>4, <2>2, <3>3
  <2>3. CASE a = p /\ b = q
    <3>1. i + 1 \in 1..Len(chan[p][q]) /\ chan'[p][q][i] = chan[p][q][i + 1] /\ i + 1 # 1
      BY <1>2, <2>3
    <3>2. LastOf(p, q, i + 1, id)
      BY <2>1, <2>3, <3>1 DEF LastOf
    <3> QED
      BY <1>4, <1>6, <1>7, <3>1, <3>2 DEF RequestInv, Road
  <2> QED
    BY <2>2, <2>3
<1>12. ~OnWay(id)'
  BY <1>2, <1>10, <1>11 DEF OnWay
<1>13. Mine(<<q, p, id>>)
  BY <1>4 DEF Mine
<1> QED
  BY <1>4, <1>9, <1>12, <1>13

LEMMA ReceiveRequestStep ==
  ASSUME RequestInv, NEW p \in Peers, NEW q \in Peers, receive(p, q),
         Completes(p, q), complete(p, q),
         Head(chan[p][q]).msg.action = "request"
  PROVE  RequestInv' /\ KeepsTracks
<1> PICK id : id = Meta(p, q).id
  OBVIOUS
<1> DEFINE x == <<q, p, id>>
<1>1. /\ id \in Ids /\ Mine(x) /\ Untouched(id) /\ ~OnWay(id)' /\ promise[id] # "none"
  BY RequestArrives
<1>2. queueIncomingRequest(p, q) /\ UNCHANGED <<asked, onRequest>>
  BY DEF receive, complete
<1>3. UNCHANGED <<promise, waiters>>
  BY <1>2 DEF queueIncomingRequest
<1>4. \/ handle({x}) /\ UNCHANGED queued
      \/ queued' = queued \cup {x} /\ UNCHANGED <<running, taken>>
  BY <1>2 DEF queueIncomingRequest
<1>5. taken \in [Ids -> Dones] /\ taken[id] = <<>> /\ x[3] = id
  BY <1>1 DEF RequestInv, Promises, Untouched
<1> HIDE DEF x
<1>6. /\ taken' \in [Ids -> Dones]
      /\ \A other \in Ids \ {id} : taken'[other] = taken[other]
      /\ \/ queued' = queued /\ running' = running \cup {x} /\ taken'[id] = <<"handled">>
         \/ queued' = queued \cup {x} /\ running' = running /\ taken'[id] = <<>>
  <2>1. CASE handle({x}) /\ UNCHANGED queued
    <3>1. \A y \in {x} : y[3] \in Ids /\ taken[y[3]] = <<>>
      BY <1>1, <1>5
    <3>2. /\ running' = running \cup {x}
          /\ taken' \in [Ids -> Dones]
          /\ \A y \in {x} : taken'[y[3]] = <<"handled">>
          /\ \A i \in Ids : (\A y \in {x} : y[3] # i) => taken'[i] = taken[i]
      BY <1>5, <2>1, <3>1, HandleEffect
    <3> QED
      BY <1>5, <2>1, <3>2
  <2>2. CASE queued' = queued \cup {x} /\ UNCHANGED <<running, taken>>
    BY <1>5, <2>2
  <2> QED
    BY <1>4, <2>1, <2>2
<1>7. Kept /\ DoneStays
  <2>1. <<>> \notin Dones \ {<<>>, <<"handled">>}
    OBVIOUS
  <2> QED
    BY <1>2, <1>3, <1>5, <1>6, <2>1 DEF Kept, DoneStays
<1>8. KeepsTracks
  BY <1>7, TracksKept DEF KeepsTracks
<1>9. Road' /\ \A other \in Ids : OnWay(other)' => OnWay(other)
  BY <1>8, ReceiveShrinks
<1>10. WireOK(Messages)'
  BY ReceiveEffect
<1>11. Promises'
  BY <1>2, <1>3, <1>6 DEF RequestInv, Promises
<1>12. Fate'
  <2>1. \A other \in Ids : OnWay(other)' => OnWay(other) /\ other \notin {id}
    BY <1>1, <1>9
  <2>2. \A y \in queued \cup running : y[3] \notin {id}
    BY <1>1 DEF Untouched
  <2>3. \A y \in queued' :
           \/ y \in queued /\ y[3] \notin {id}
           \/ y[3] \in {id} /\ Mine(y) /\ taken'[y[3]] = <<>>
    BY <1>1, <1>5, <1>6, <2>2
  <2>4. \A y \in running' :
           \/ y \in running /\ y[3] \notin {id}
           \/ y[3] \in {id} /\ Mine(y) /\ taken'[y[3]] = <<"handled">>
    BY <1>1, <1>5, <1>6, <2>2
  <2>5. {id} \in SUBSET Ids /\ Fate
    BY <1>1 DEF RequestInv
  <2>6. \A other \in {id} : promise[other] # "none" /\ taken[other] \in {<<>>, <<"handled">>}
    BY <1>1, <1>5
  <2>7. UNCHANGED <<promise, asked>>
    BY <1>2, <1>3
  <2> QED
    BY <1>6, <2>1, <2>3, <2>4, <2>5, <2>6, <2>7, FateMoves
<1> QED
  BY <1>8, <1>9, <1>10, <1>11, <1>12 DEF RequestInv

(* A response is completed, and settles a promise by what it says. *)
LEMMA ReceiveResponseStep ==
  ASSUME RequestInv, NEW p \in Peers, NEW q \in Peers, receive(p, q),
         Completes(p, q), complete(p, q),
         Head(chan[p][q]).msg.action # "request"
  PROVE  RequestInv' /\ KeepsTracks
<1> DEFINE m == Head(chan[p][q]).msg
           ids == settledBy(p, q)
           outcome == IF m.failed THEN "rejected" ELSE "fulfilled"
<1>1. m \in Messages /\ Meta(p, q) = m
  BY OwnMetadata DEF RequestInv, Meta
<1>2. Track(p, q, m)
  BY ReceiveEffect DEF RequestInv, Road
<1>3. receiveResponse(p, q) /\ UNCHANGED <<asked, onRequest>>
  BY DEF receive, complete
<1>4. settle(ids, outcome) /\ UNCHANGED <<queued, running, taken>>
  BY <1>1, <1>3 DEF receiveResponse
<1>5. ids \subseteq waiters /\ \A id \in ids : id = m.id
  BY <1>1 DEF settledBy
<1>6. outcome \in Outcomes
  BY DEF Outcomes
<1>7. /\ m.failed => taken[m.id] \in {<<"handled", "failed">>, <<"refused">>}
      /\ ~m.failed => taken[m.id] = <<"handled", "returned">>
  BY <1>2 DEF Track, Tracked
<1> HIDE DEF ids
<1>8. taken' \in [Ids -> Dones]
  BY <1>4 DEF RequestInv, Promises
<1>9. outcome = IF m.failed THEN "rejected" ELSE "fulfilled"
  OBVIOUS
<1> HIDE DEF outcome, m
<1>10. /\ Promises' /\ Kept
       /\ \A id \in Ids : promise'[id] = IF id \in ids THEN outcome ELSE promise[id]
  BY <1>3, <1>4, <1>5, <1>6, <1>8, SettleEffect DEF RequestInv
<1>11. DoneStays
  BY <1>4 DEF DoneStays
<1>12. KeepsTracks
  BY <1>10, <1>11, TracksKept DEF KeepsTracks
<1>13. Road' /\ \A id \in Ids : OnWay(id)' => OnWay(id)
  BY <1>12, ReceiveShrinks
<1>14. OutcomeTrue'
  <2>1. ASSUME NEW id \in Ids
        PROVE  /\ promise'[id] = "fulfilled" => taken'[id] = <<"handled", "returned">>
               /\ promise'[id] = "rejected" =>
                    taken'[id] \in {<<"handled", "failed">>, <<"refused">>}
    <3>1. CASE id \in ids
      BY <1>4, <1>5, <1>7, <1>9, <1>10, <3>1
    <3>2. CASE id \notin ids
      BY <1>4, <1>10, <3>2 DEF RequestInv, Fate, OutcomeTrue
    <3> QED
      BY <3>1, <3>2
  <2> QED
    BY <2>1 DEF OutcomeTrue
<1>15. WireOK(Messages)'
  BY ReceiveEffect
<1> QED
  BY <1>4, <1>10, <1>12, <1>13, <1>14, <1>15, Onlookers

LEMMA ReceiveStep ==
  ASSUME RequestInv, NEW p \in Peers, NEW q \in Peers, receive(p, q)
  PROVE  RequestInv' /\ KeepsTracks
<1>1. CASE UNCHANGED <<promise, waiters, queued, running, taken>>
  <2>1. UNCHANGED rest
    BY <1>1 DEF receive, rest
  <2>2. KeepsTracks
    BY <2>1, RestKeepsTracks DEF rest
  <2>3. Road' /\ \A id \in Ids : OnWay(id)' => OnWay(id)
    BY <2>2, ReceiveShrinks
  <2>4. WireOK(Messages)'
    BY ReceiveEffect
  <2> QED
    BY <2>1, <2>2, <2>3, <2>4, WireAlone
<1>2. CASE Completes(p, q) /\ complete(p, q)
  BY <1>2, ReceiveRequestStep, ReceiveResponseStep
<1> QED
  BY <1>1, <1>2 DEF receive

-----------------------------------------------------------------------------
(* At first nothing was asked; what is left of aborted requests is no part  *)
(* of one that will be. *)
LEMMA InitRequests == Init => RequestInv
<1> SUFFICES ASSUME Init PROVE RequestInv
  OBVIOUS
<1>1. PICK who \in Requesters : WireInit(who, {Request(id) : id \in Past})
  BY DEF Init
<1> DEFINE past == {Request(id) : id \in Past}
<1>2. who \in Peers /\ (past # {} => MaxSessions > 0) /\ past \in SUBSET Messages
  BY RequestsAssumption, MessagesKnown
<1>3. \A m \in Messages : m.action \in Actions
  BY MessagesKnown
<1>4. WireInit(who, past)
  BY <1>1
<1>5. loops = {} /\ chan = [p \in Peers |-> [q \in Peers |-> <<>>]]
  BY <1>1 DEF WireInit
<1> HIDE DEF past
<1>6. WireOK(Messages)
  BY <1>2, <1>3, <1>4, WireStarts
<1>7. \A p, q \in Peers : Len(chan[p][q]) = 0
  BY <1>5
<1>8. Road /\ \A id \in Ids : ~OnWay(id)
  BY <1>5, <1>7 DEF Road, OnWay
<1>9. /\ promise = [id \in Ids |-> "none"] /\ asked = [id \in Ids |-> None]
      /\ onRequest = [q \in Peers |-> FALSE]
      /\ waiters = {} /\ queued = {} /\ running = {}
      /\ taken = [id \in Ids |-> <<>>]
  BY DEF Init
<1>10. Promises
  BY <1>9 DEF Promises, Dones
<1>11. Fate
  BY <1>8, <1>9 DEF Fate, OutcomeTrue
<1> QED
  BY <1>6, <1>8, <1>10, <1>11 DEF RequestInv

(* A question is sent, with an id that nothing carries yet. *)
LEMMA RequestStep ==
  ASSUME RequestInv, NEW p \in Requesters, NEW q \in Peers, NEW id \in Ids,
         requestOne(p, q, id)
  PROVE  RequestInv' /\ KeepsTracks
<1> DEFINE m == Request(id)
           l == [msg |-> m, from |-> p, to |-> q, session |-> session[p][q],
                 nonce |-> nonce[p][m.action], next |-> 0]
<1>1. /\ promise[id] = "none" /\ send(p, q, m)
      /\ asked' = [asked EXCEPT ![id] = [by |-> p, of |-> q, session |-> session[p][q]]]
      /\ promise' = [promise EXCEPT ![id] = "pending"]
      /\ waiters' = waiters \cup {id}
      /\ UNCHANGED <<session, sessions, partial, aborted, cut>>
      /\ UNCHANGED <<onRequest, queued, running, taken>>
  BY DEF requestOne
<1>2. p \in Peers /\ m \in Messages /\ m.action \in Actions
  BY RequestsAssumption, MessagesKnown
<1>3. WireOK(Messages)'
  BY <1>1, <1>2, SendKeeps DEF RequestInv
<1>4. session[p][q] \in 1..MaxSessions /\ nonce[p][m.action] \in 0..NonceMod - 1
  <2>1. session[p][q] # 0
    BY <1>1 DEF send
  <2>2. session \in [Peers -> [Peers -> 0..MaxSessions]]
        /\ nonce \in [Peers -> [Actions -> 0..NonceMod - 1]]
    BY DEF RequestInv, WireOK, WireTyped, WireTypeOK
  <2>3. session[p][q] \in 0..MaxSessions
    BY <1>2, <2>2
  <2> HIDE DEF m
  <2>4. nonce[p][m.action] \in 0..NonceMod - 1
    BY <1>2, <2>2
  <2> QED
    BY <2>1, <2>3, <2>4, WireAssumption
<1>5. PICK k \in 0..LastPart(m) + 1 : push(l, k)
  BY <1>1 DEF send
<1>6. LastPart(m) \in Nat
  BY <1>2, LastPartType DEF RequestInv, WireOK
<1>7. m.action = "request" /\ m.id = id /\ \A other : Request(other) = m => other = id
  BY MessagesKnown
<1>8. /\ promise \in [Ids -> Outcomes \cup {"none", "pending"}]
      /\ asked \in [Ids -> Asking \cup {None}]
      /\ waiters = {other \in Ids : promise[other] = "pending"}
      /\ \A other \in Ids : promise[other] # "none" => asked[other] \in Asking
  BY DEF RequestInv, Promises
<1>9. /\ promise'[id] = "pending"
      /\ asked'[id] = [by |-> p, of |-> q, session |-> session[p][q]]
      /\ \A other \in Ids \ {id} : promise'[other] = promise[other] /\ asked'[other] = asked[other]
  BY <1>1, <1>8
<1>10. asked'[id] \in Asking /\ asked'[id].by = p /\ asked'[id].of = q
  <2>1. session[p][q] \in Nat
    BY <1>4, WireAssumption
  <2> QED
    BY <1>2, <1>9, <2>1 DEF Asking
<1> HIDE DEF m
<1>11. Promises'
  <2>1. promise' \in [Ids -> Outcomes \cup {"none", "pending"}]
    BY <1>1, <1>8
  <2>2. asked' \in [Ids -> Asking \cup {None}]
    BY <1>1, <1>8, <1>9, <1>10
  <2>3. \A other \in Ids : promise'[other] # "none" => asked'[other] \in Asking
    BY <1>8, <1>9, <1>10
  <2>4. waiters' = {other \in Ids : promise'[other] = "pending"}
    BY <1>1, <1>8, <1>9
  <2> QED
    BY <1>1, <2>1, <2>2, <2>3, <2>4 DEF RequestInv, Promises
<1>12. KeepsTracks
  <2> SUFFICES ASSUME NEW a, NEW b, NEW x, Track(a, b, x)
               PROVE  Tracked(a, b, x, promise', asked', taken')
    BY DEF KeepsTracks
  <2>1. x.id \in Ids /\ x.id # id /\ taken' = taken
    BY <1>1 DEF Track, Tracked
  <2> QED
    BY <1>9, <2>1 DEF Track, Tracked
<1>13. Tracked(l.from, l.to, l.msg, promise', asked', taken')
  BY <1>2, <1>7, <1>9, <1>10 DEF Tracked
<1>14. l \in LoopsOf(Messages) /\ l.msg = m
  BY <1>2, <1>4 DEF LoopsOf
<1>15. k \in Nat /\ l.next + k <= LastPart(l.msg) + 1
  BY <1>6
<1> HIDE DEF l
<1>16. \A a, b, x : Track(a, b, x) => x # m
  BY <1>1, <1>7 DEF Track, Tracked
<1>17. ASSUME NEW other \in Ids, l.msg = Request(other)
       PROVE  /\ \A x \in loops : x.msg = l.msg => x = l
              /\ \A a, b \in Peers : \A i \in 1..Len(chan[a][b]) : ~LastOf(a, b, i, other)
  BY <1>14, <1>16, <1>17 DEF RequestInv, Road, LastOf
<1>18. WireTyped(Messages) /\ Road
  BY DEF RequestInv, WireOK
<1>19. Road' /\ \A other \in Ids : OnWay(other)' => OnWay(other) \/ l.msg = Request(other)
  BY <1>5, <1>12, <1>13, <1>14, <1>15, <1>17, <1>18, RoadGrows
<1>20. Untouched(id)
  <2>1. taken[id] = <<>> /\ \A x \in queued \cup running : x[3] # id
    BY <1>1 DEF RequestInv, Fate, Mine
  <2> QED
    BY <2>1 DEF Untouched
<1>21. Fate'
  <2>1. ASSUME NEW other \in Ids, OnWay(other)'
        PROVE  Untouched(other)'
    <3>1. Untouched(other)
      BY <1>7, <1>14, <1>19, <1>20, <2>1 DEF RequestInv, Fate
    <3> QED
      BY <1>1, <3>1 DEF Untouched
  <2>2. \A x : Mine(x) => Mine(x)'
    BY <1>1, <1>9 DEF Mine
  <2>3. /\ \A x \in queued' : Mine(x)' /\ taken'[x[3]] = <<>>
        /\ \A x \in running' : Mine(x)' /\ taken'[x[3]] = <<"handled">>
    BY <1>1, <2>2 DEF RequestInv, Fate
  <2>4. \A other \in Ids : promise'[other] = "none" => taken'[other] = <<>>
    BY <1>1, <1>9 DEF RequestInv, Fate
  <2>5. OutcomeTrue'
    BY <1>1, <1>9 DEF RequestInv, Fate, OutcomeTrue
  <2> QED
    BY <2>1, <2>3, <2>4, <2>5 DEF Fate
<1> QED
  BY <1>3, <1>11, <1>12, <1>19, <1>21 DEF RequestInv

LEMMA StepRequests ==
  ASSUME RequestInv, [Next]_vars
  PROVE  RequestInv' /\ KeepsTracks
<1>1. CASE UNCHANGED vars
  <2>1. UNCHANGED wireVars /\ UNCHANGED rest /\ UNCHANGED <<loops, chan>>
    BY <1>1 DEF vars, rest, wireVars
  <2>2. WireOK(Messages)'
    BY <2>1, QuietKeeps DEF RequestInv
  <2>3. KeepsTracks
    BY <2>1, RestKeepsTracks DEF rest
  <2>4. Road' /\ \A id \in Ids : OnWay(id)' => OnWay(id)
    BY <2>1, <2>3, RoadShrinks DEF RequestInv
  <2> QED
    BY <2>1, <2>2, <2>3, <2>4, WireAlone
<1>2. CASE Next
  BY <1>2, ActivateStep, ClearPeerStep, RequestStep, AbortStep, TimeOutStep, DrainedStep,
     StoppedStep, ReceiveStep, SetHandlerStep, UnsetHandlerStep, HandlerReturnsStep,
     RefuseStep DEF Next, Asked
<1> QED
  BY <1>1, <1>2

LEMMA RequestInvHolds == Spec => []RequestInv
BY InitRequests, StepRequests, PTL DEF Spec

(* What could not be parsed had arrived, and was a message that is sent. *)
SpoiledOK == spoiled \subseteq Messages

LEMMA SpoiledKnown == Spec => []SpoiledOK
<1>1. Init => SpoiledOK
  BY DEF Init, WireInit, SpoiledOK
<1>2. ASSUME RequestInv, SpoiledOK, [Next]_vars
      PROVE  SpoiledOK'
  <2> USE DEF SpoiledOK
  <2>1. ASSUME NEW p \in Peers, NEW q \in Peers, receive(p, q)
        PROVE  spoiled' \subseteq Messages
    <3>1. CASE UNCHANGED spoiled
      BY <1>2, <3>1
    <3>2. CASE throws(p, q)
      <4>1. Head(chan[p][q]).msg \in Messages
        BY <1>2, <3>2, OwnMetadata DEF throws, RequestInv
      <4> QED
        BY <1>2, <3>2, <4>1 DEF throws
    <3> QED
      BY <2>1, <3>1, <3>2 DEF receive
  <2>2. CASE UNCHANGED spoiled
    BY <1>2, <2>2
  <2>3. CASE UNCHANGED vars
    BY <2>2, <2>3 DEF vars, wireVars
  <2>4. CASE Next
    BY <2>1, <2>2, <2>4
       DEF Next, activate, clearPeer, exitPeer, requestOne, rejectAsAborted, timeOut,
           drained, stopped, setHandler, unsetHandler, handlerReturns, refuse, respond,
           wireVars
  <2> QED
    BY <1>2, <2>3, <2>4
<1> QED
  BY <1>1, <1>2, RequestInvHolds, PTL DEF Spec

(* The tables of the wire and of the requests have the types they are meant *)
(* to have (action-wire.ts, actions.ts). *)
THEOREM TypeCorrect == Spec => []TypeOK
<1>1. ASSUME RequestInv, SpoiledOK PROVE TypeOK
  <2>1. \A x : Mine(x) => x \in Peers \X Peers \X Ids
    <3> SUFFICES ASSUME NEW x, Mine(x) PROVE x \in Peers \X Peers \X Ids
      OBVIOUS
    <3>1. x[3] \in Ids /\ asked[x[3]] \in Asking /\ x = <<asked[x[3]].of, asked[x[3]].by, x[3]>>
      BY <1>1 DEF Mine, RequestInv, Promises
    <3>2. asked[x[3]].of \in Peers /\ asked[x[3]].by \in Peers
      BY <3>1 DEF Asking
    <3> QED
      BY <3>1, <3>2
  <2>2. queued \subseteq Peers \X Peers \X Ids /\ running \subseteq Peers \X Peers \X Ids
    BY <1>1, <2>1 DEF RequestInv, Fate
  <2> QED
    BY <1>1, <2>2 DEF TypeOK, RequestInv, Promises, Asking, WireOK, WireTyped, SpoiledOK
<1> QED
  BY <1>1, RequestInvHolds, SpoiledKnown, PTL

(* The other side deals with a request at most once, whenever handlers are  *)
(* set and unset and the timers of its queue fire (actions.ts:359-412). *)
THEOREM HandledOnceHolds == Spec => []HandledOnce
<1>1. RequestInv => HandledOnce
  BY DEF RequestInv, Promises, HandledOnce
<1> QED
  BY <1>1, RequestInvHolds, PTL

(* A promise settles by what the handler of the peer that was asked did     *)
(* about this very request, however late responses are, whatever becomes of *)
(* loops and connections, and though nonces are used again                  *)
(* (actions.ts:216-237). *)
THEOREM OutcomeTrueHolds == Spec => []OutcomeTrue
<1>1. RequestInv => OutcomeTrue
  BY DEF RequestInv, Fate
<1> QED
  BY <1>1, RequestInvHolds, PTL
-----------------------------------------------------------------------------
(* The data a peer has is of requests that were aborted before, or of       *)
(* messages on their way to it.                                             *)
PartOf(p, q, m) == m.id \in Past \/ Track(p, q, m)

Parts ==
  \A p, q \in Peers, a \in Actions, n \in 0..NonceMod - 1 :
    \A k \in DOMAIN partial[q][p][a][n].chunks :
      PartOf(p, q, partial[q][p][a][n].chunks[k].msg)

WholeInv == LaneInv /\ Parts

(* It stays so, of data that is kept and of a chunk that arrives. *)
LEMMA PartsKept ==
  ASSUME Parts, KeepsTracks,
         \A p, q \in Peers, a \in Actions, n \in 0..NonceMod - 1 :
           \A k \in DOMAIN partial'[q][p][a][n].chunks :
             \/ \E j \in DOMAIN partial[q][p][a][n].chunks :
                  partial'[q][p][a][n].chunks[k] = partial[q][p][a][n].chunks[j]
             \/ Track(p, q, partial'[q][p][a][n].chunks[k].msg)
  PROVE  Parts'
<1>1. ASSUME NEW p \in Peers, NEW q \in Peers, NEW a \in Actions,
             NEW n \in 0..NonceMod - 1, NEW k \in DOMAIN partial'[q][p][a][n].chunks
      PROVE  PartOf(p, q, partial'[q][p][a][n].chunks[k].msg)
  BY DEF Parts, PartOf
<1>2. \A p, q, m : PartOf(p, q, m) => PartOf(p, q, m)'
  BY DEF PartOf, KeepsTracks, Track
<1> QED
  BY <1>1, <1>2 DEF Parts

(* Steps that leave the data alone. *)
LEMMA SamePartsKept ==
  ASSUME Parts, KeepsTracks, UNCHANGED partial
  PROVE  Parts'
BY PartsKept

(* A message that is not on its way was not sent yet: that is why it is sent *)
(* once, and no part of it is taken for a part of another sending.           *)
LEMMA NotSentYet ==
  ASSUME RequestInv, Parts, NEW p \in Peers, NEW q \in Peers, NEW m, m.id \in Ids,
         ~Track(p, q, m)
  PROVE  Unsent(p, q, m)
<1>1. \A l \in Live(p, q) : l.msg # m
  BY DEF RequestInv, Road, Live
<1>2. \A k \in 1..Len(chan[p][q]) : chan[p][q][k].msg # m
  BY DEF RequestInv, Road
<1>3. ~PartOf(p, q, m)
  BY RequestsAssumption DEF PartOf
<1>4. \A a \in Actions, n \in 0..NonceMod - 1 :
        \A k \in DOMAIN partial[q][p][a][n].chunks : partial[q][p][a][n].chunks[k].msg # m
  BY <1>3 DEF Parts
<1> QED
  BY <1>1, <1>2, <1>4 DEF Unsent

LEMMA ActivateWhole ==
  ASSUME RequestInv, WholeInv, KeepsTracks, NEW p \in Peers, NEW q \in Peers, activate(p, q)
  PROVE  WholeInv'
<1>1. LaneInv'
  BY ActivateLanes DEF RequestInv, WholeInv
<1>2. Parts'
  BY SamePartsKept DEF WholeInv, activate
<1> QED
  BY <1>1, <1>2 DEF WholeInv

LEMMA ClearPeerWhole ==
  ASSUME RequestInv, WholeInv, KeepsTracks, NEW p \in Peers, NEW q \in Peers, clearPeer(p, q)
  PROVE  WholeInv'
<1>1. exitPeer(p, q) /\ partial' = [partial EXCEPT ![p][q] = Fresh]
  BY DEF clearPeer, exitPeer, clearTransmissions
<1>2. LaneInv'
  BY <1>1, ExitLanes DEF RequestInv, WholeInv
<1>3. partial \in [Peers -> [Peers -> [Actions -> [0..NonceMod - 1 -> Entries(Messages)]]]]
  BY DEF RequestInv, WireOK, WireTyped, WireTypeOK, Entries
<1>4. \A a, b \in Peers : partial'[a][b] = partial[a][b] \/ partial'[a][b] = Fresh
  BY <1>1, <1>3
<1>5. \A a \in Actions, n \in 0..NonceMod - 1 : DOMAIN Fresh[a][n].chunks = {}
  BY DEF Fresh, Nothing
<1>6. \A a, b \in Peers, x \in Actions, n \in 0..NonceMod - 1 :
        \/ partial'[b][a][x][n] = partial[b][a][x][n]
        \/ DOMAIN partial'[b][a][x][n].chunks = {}
  BY <1>4, <1>5
<1>7. Parts'
  BY <1>6, PartsKept DEF WholeInv
<1> QED
  BY <1>2, <1>7 DEF WholeInv

LEMMA ReceiveWhole ==
  ASSUME RequestInv, WholeInv, KeepsTracks, NEW p \in Peers, NEW q \in Peers, receive(p, q)
  PROVE  WholeInv'
<1>1. chan[p][q] # <<>> /\ handleData(p, q)
  BY DEF receive
<1>2. LaneInv'
  BY <1>1, HandleLanes DEF RequestInv, WholeInv
<1> DEFINE c == Head(chan[p][q])
<1>3. Track(p, q, c.msg)
  <2>1. Len(chan[p][q]) \in Nat /\ Len(chan[p][q]) > 0 /\ c = chan[p][q][1]
    BY ReceiveEffect
  <2>2. 1 \in 1..Len(chan[p][q])
    BY <2>1
  <2> QED
    BY <2>1, <2>2 DEF RequestInv, Road
<1>4. CASE session[q][p] = 0
  <2>1. partial' = partial
    BY <1>1, <1>4 DEF handleData
  <2>2. Parts'
    BY <2>1, SamePartsKept DEF WholeInv
  <2> QED
    BY <1>2, <2>2 DEF WholeInv
<1>5. CASE session[q][p] # 0
  <2>1. /\ Handled(c, partial[q][p], partial'[q][p])
        /\ \A a, b \in Peers : <<a, b>> # <<p, q>> => partial'[b][a] = partial[b][a]
    BY <1>1, <1>5, HandleEntries DEF RequestInv
  <2> HIDE DEF c
  <2>2. ASSUME NEW a \in Actions, NEW n \in 0..NonceMod - 1,
               NEW k \in DOMAIN partial'[q][p][a][n].chunks
        PROVE  \/ \E j \in DOMAIN partial[q][p][a][n].chunks :
                    partial'[q][p][a][n].chunks[k] = partial[q][p][a][n].chunks[j]
               \/ partial'[q][p][a][n].chunks[k] = c
    <3> DEFINE data == partial[q][p][a][n].chunks
               new == partial'[q][p][a][n].chunks
    <3>1. new = data \/ new = <<>> \/ new = Append(data, c)
      BY <2>1 DEF Handled
    <3>2. data \in Seq(Chunk(Messages))
      BY EntryType DEF RequestInv, WireOK, Entries
    <3> HIDE DEF data, new
    <3>3. k \in DOMAIN new
      BY DEF new
    <3>4. \/ \E j \in DOMAIN data : new[k] = data[j]
          \/ new[k] = c
      BY <3>1, <3>2, <3>3
    <3> QED
      BY <3>4 DEF data, new
  <2>3. Parts'
    <3>1. ASSUME NEW a \in Peers, NEW b \in Peers, NEW x \in Actions,
                 NEW n \in 0..NonceMod - 1, NEW k \in DOMAIN partial'[b][a][x][n].chunks
          PROVE  \/ \E j \in DOMAIN partial[b][a][x][n].chunks :
                      partial'[b][a][x][n].chunks[k] = partial[b][a][x][n].chunks[j]
                 \/ Track(a, b, partial'[b][a][x][n].chunks[k].msg)
      <4>1. CASE <<a, b>> # <<p, q>>
        BY <2>1, <4>1
      <4>2. CASE a = p /\ b = q
        BY <1>3, <2>2, <4>2
      <4> QED
        BY <4>1, <4>2
    <3> QED
      BY <3>1, PartsKept DEF WholeInv
  <2> QED
    BY <1>2, <2>3 DEF WholeInv
<1> QED
  BY <1>4, <1>5

LEMMA RequestWhole ==
  ASSUME RequestInv, WholeInv, KeepsTracks, NEW p \in Requesters, NEW q \in Peers,
         NEW id \in Ids, requestOne(p, q, id)
  PROVE  WholeInv'
<1>1. /\ promise[id] = "none" /\ send(p, q, Request(id))
      /\ UNCHANGED <<session, sessions, partial, aborted, cut>>
  BY DEF requestOne
<1>2. p \in Peers /\ Request(id) \in Messages /\ Request(id).id = id
  BY RequestsAssumption, MessagesKnown
<1>3. ~Track(p, q, Request(id))
  BY <1>1, <1>2 DEF Track, Tracked
<1>4. Unsent(p, q, Request(id))
  BY <1>2, <1>3, NotSentYet DEF WholeInv
<1>5. LaneInv'
  BY <1>1, <1>2, <1>4, SendLanes DEF RequestInv, WholeInv
<1>6. Parts'
  BY <1>1, SamePartsKept DEF WholeInv
<1> QED
  BY <1>5, <1>6 DEF WholeInv

(* A request nothing was done about, or that is handled, is not answered. *)
LEMMA Unanswered ==
  ASSUME NEW done \in {<<>>, <<"handled">>}
  PROVE  done \notin {<<"handled", "failed">>, <<"refused">>, <<"handled", "returned">>}
OBVIOUS

(* A response is given to a request that was not answered yet. *)
LEMMA RespondWhole ==
  ASSUME RequestInv, WholeInv, KeepsTracks, NEW q \in Peers, NEW p \in Peers,
         NEW id \in Ids, taken[id] \in {<<>>, <<"handled">>}, NEW failed \in BOOLEAN,
         respond(q, p, Response(id, failed))
  PROVE  WholeInv'
<1> DEFINE m == Response(id, failed)
<1>1. m \in Messages /\ m.id = id /\ m.action # "request" /\ m.failed = failed
  BY MessagesKnown
<1>2. UNCHANGED <<session, sessions, partial, aborted, cut>>
  BY DEF respond
<1>3. Parts'
  BY <1>2, SamePartsKept DEF WholeInv
<1>4. session[q][p] # 0 => send(q, p, m)
  BY DEF respond
<1>5. session[q][p] = 0 => UNCHANGED <<loops, chan>>
  BY DEF respond
<1> HIDE DEF m
<1>6. CASE session[q][p] # 0
  <2>1. taken[id] \notin {<<"handled", "failed">>, <<"refused">>, <<"handled", "returned">>}
    BY Unanswered
  <2>2. ~Track(q, p, m)
    BY <1>1, <2>1 DEF Track, Tracked
  <2>3. Unsent(q, p, m)
    BY <1>1, <2>2, NotSentYet DEF WholeInv
  <2>4. LaneInv'
    BY <1>1, <1>2, <1>4, <1>6, <2>3, SendLanes DEF RequestInv, WholeInv
  <2> QED
    BY <1>3, <2>4 DEF WholeInv
<1>7. CASE session[q][p] = 0
  <2>1. LaneInv'
    BY <1>2, <1>5, <1>7, QuietLanes DEF WholeInv
  <2> QED
    BY <1>3, <2>1 DEF WholeInv
<1> QED
  BY <1>6, <1>7

(* Steps that touch neither loops nor chunks. *)
LEMMA QuietWhole ==
  ASSUME WholeInv, KeepsTracks, UNCHANGED <<session, loops, chan, partial, cut>>
  PROVE  WholeInv'
<1>1. LaneInv'
  BY QuietLanes DEF WholeInv
<1>2. Parts'
  BY SamePartsKept DEF WholeInv
<1> QED
  BY <1>1, <1>2 DEF WholeInv

(* Every step does. *)
LEMMA StepWhole ==
  ASSUME RequestInv, WholeInv, [Next]_vars
  PROVE  WholeInv'
<1>0. KeepsTracks
  BY StepRequests
<1>1. CASE UNCHANGED vars
  BY <1>0, <1>1, QuietWhole DEF vars, wireVars
<1>2. ASSUME NEW p \in Peers, NEW q \in Peers, activate(p, q)
      PROVE  WholeInv'
  BY <1>0, <1>2, ActivateWhole
<1>3. ASSUME NEW p \in Peers, NEW q \in Peers, clearPeer(p, q)
      PROVE  WholeInv'
  BY <1>0, <1>3, ClearPeerWhole
<1>4. ASSUME NEW p \in Requesters, NEW q \in Peers, NEW id \in Ids, requestOne(p, q, id)
      PROVE  WholeInv'
  BY <1>0, <1>4, RequestWhole
<1>5. ASSUME NEW id \in Ids, rejectAsAborted(id) \/ timeOut(id)
      PROVE  WholeInv'
  <2>1. UNCHANGED <<session, loops, chan, partial, cut>>
    BY <1>5 DEF rejectAsAborted, timeOut, wireVars
  <2> QED
    BY <1>0, <2>1, QuietWhole
<1>6. ASSUME NEW l \in loops, drained(l) \/ stopped(l)
      PROVE  WholeInv'
  <2>1. LaneInv'
    BY <1>6, DrainedLanes, StoppedLanes DEF RequestInv, WholeInv
  <2>2. partial' = partial
    BY <1>6 DEF drained, stopped
  <2>3. Parts'
    BY <1>0, <2>2, SamePartsKept DEF WholeInv
  <2> QED
    BY <2>1, <2>3 DEF WholeInv
<1>7. ASSUME NEW p \in Peers, NEW q \in Peers, receive(p, q)
      PROVE  WholeInv'
  BY <1>0, <1>7, ReceiveWhole
<1>8. ASSUME NEW q \in Peers, setHandler(q) \/ unsetHandler(q)
      PROVE  WholeInv'
  <2>1. UNCHANGED <<session, loops, chan, partial, cut>>
    BY <1>8 DEF setHandler, unsetHandler, wireVars
  <2> QED
    BY <1>0, <2>1, QuietWhole
<1>9. ASSUME NEW x \in running, handlerReturns(x)
      PROVE  WholeInv'
  <2>1. Mine(x) /\ taken[x[3]] = <<"handled">> /\ x[3] \in Ids
    BY DEF RequestInv, Fate, Mine
  <2>2. x[1] \in Peers /\ x[2] \in Peers
    BY <2>1 DEF RequestInv, Promises, Asking, Mine
  <2>3. PICK failed \in BOOLEAN : respond(x[1], x[2], Response(x[3], failed))
    BY <1>9 DEF handlerReturns
  <2> QED
    BY <1>0, <2>1, <2>2, <2>3, RespondWhole
<1>10. ASSUME NEW x \in queued, refuse(x)
       PROVE  WholeInv'
  <2>1. Mine(x) /\ taken[x[3]] = <<>> /\ x[3] \in Ids
    BY DEF RequestInv, Fate, Mine
  <2>2. x[1] \in Peers /\ x[2] \in Peers
    BY <2>1 DEF RequestInv, Promises, Asking, Mine
  <2>3. respond(x[1], x[2], Response(x[3], TRUE))
    BY <1>10 DEF refuse
  <2> QED
    BY <1>0, <2>1, <2>2, <2>3, RespondWhole
<1> QED
  BY <1>1, <1>2, <1>3, <1>4, <1>5, <1>6, <1>7, <1>8, <1>9, <1>10 DEF Next, Asked

(* At first nobody has more than what is left of an aborted request. *)
LEMMA InitWhole == Init => WholeInv
<1> SUFFICES ASSUME Init PROVE WholeInv
  OBVIOUS
<1> DEFINE past == {Request(id) : id \in Past}
<1>1. PICK who \in Requesters : WireInit(who, past)
  BY DEF Init
<1>2. who \in Peers /\ past \in SUBSET Messages /\ \A m \in past : m.id \in Past
  BY RequestsAssumption, MessagesKnown
<1>3. \A m \in Messages : m.action \in Actions
  BY MessagesKnown
<1> HIDE DEF past
<1>4. LaneInv
  BY <1>1, <1>2, <1>3, LanesStart
<1>5. \A a \in Actions, n \in 0..NonceMod - 1 : DOMAIN Fresh[a][n].chunks = {}
  BY DEF Fresh, Nothing
<1>6. CASE past = {}
  <2>1. partial = [q \in Peers |-> [p \in Peers |-> Fresh]]
    BY <1>1, <1>6 DEF WireInit
  <2>2. Parts
    BY <1>5, <2>1 DEF Parts
  <2> QED
    BY <1>4, <2>2 DEF WholeInv
<1>7. CASE past # {}
  <2>1. PICK q \in Peers, m \in past :
          who # q /\ partial = [x \in Peers |-> [y \in Peers |->
            IF <<x, y>> = <<q, who>>
              THEN [Fresh EXCEPT ![m.action][0] = Leftover(m)]
              ELSE Fresh]]
    BY <1>1, <1>7 DEF WireInit
  <2> DEFINE left == [Fresh EXCEPT ![m.action][0] = Leftover(m)]
  <2>2. m.action \in Actions /\ 0 \in 0..NonceMod - 1 /\ m.id \in Past
    BY <1>2, <1>3, WireAssumption
  <2>3. \A a \in Actions, n \in 0..NonceMod - 1 :
          left[a][n] = Leftover(m) \/ left[a][n] = Fresh[a][n]
    BY <2>2 DEF Fresh
  <2>4. \A k \in DOMAIN Leftover(m).chunks : Leftover(m).chunks[k].msg = m
    BY DEF Leftover
  <2>5. \A a \in Actions, n \in 0..NonceMod - 1 :
          \A k \in DOMAIN left[a][n].chunks : left[a][n].chunks[k].msg.id \in Past
    BY <1>5, <2>2, <2>3, <2>4
  <2> HIDE DEF left
  <2>6. \A x, y \in Peers : partial[x][y] = left \/ partial[x][y] = Fresh
    BY <2>1 DEF left
  <2>7. Parts
    BY <1>5, <2>5, <2>6 DEF Parts, PartOf
  <2> QED
    BY <1>4, <2>7 DEF WholeInv
<1> QED
  BY <1>6, <1>7

(* A message that is complete is complete: its own metadata, and its own    *)
(* data in order, with nothing in between but what is left of messages that *)
(* were cut short, though nonces come round, connections come and go and    *)
(* the chunks of many messages alternate (action-wire.ts:427-447).          *)
THEOREM WholeHolds == Spec => []Whole
<1>1. RequestInv /\ WholeInv => Whole
  BY LanesWhole DEF RequestInv, WholeInv
<1> QED
  BY <1>1, RequestInvHolds, InitWhole, StepWhole, PTL DEF Spec
=============================================================================
