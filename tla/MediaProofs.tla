---------------------------- MODULE MediaProofs ----------------------------
(***************************************************************************)
(* Proofs about a connection and the tracks on it, for any number of       *)
(* rooms, tracks and renewals of the offer, and any plan of who adds what. *)
(*                                                                         *)
(* NeverRejected is about what was said before: an operation is joined to  *)
(* the chain in a state in which the browser would do it, and has to be    *)
(* done in one.  The invariant has three parts.  A chain is Orderly: what  *)
(* stands before an operation leads to the state it needs.  An offer that  *)
(* waits for its answer is in one place (Turns): on its way, in a chain,   *)
(* being answered, or its answer is.  And of offers that cross, that of    *)
(* the responder is either still to be answered or is one the initiator    *)
(* will ignore (Crossing).                                                 *)
(***************************************************************************)
EXTENDS Media, TLAPS, FiniteSetTheorems

-----------------------------------------------------------------------------
(* The operations there are on a chain. *)
Creating(o) == o = Local("create")
Reviving(o) == o = Rollback("restart") \/ o = Local("restart")
Yielding(o) == o = Rollback("offer")
Taking(o) == o.do = "remote" /\ o.for = "offer" /\ o.signal.type = "offer"
Settling(o) == o.do = "remote" /\ o.for = "answer" /\ o.signal.type = "answer"
Adding(o) == o.do = "candidate" /\ o.for \in {"none", "offer", "answer"}

(* Those after which an answer is made, and after which one is settled. *)
Replying(o) == o = Local("offer") \/ (Adding(o) /\ o.for = "offer")
Finishing(o) == Adding(o) /\ o.for = "answer"

(* Chain c of end e is in order, when the end has state s, makes an offer   *)
(* (m), waits for a remote answer to be set (p), and is wanted (w). *)
Kinds(c, w) ==
  \A i \in DOMAIN c :
    \/ Creating(c[i]) \/ Yielding(c[i]) \/ Taking(c[i]) \/ Settling(c[i])
    \/ Adding(c[i]) \/ Replying(c[i])
    \/ Reviving(c[i]) /\ ~w /\ DOMAIN c = {1}

CreatingFirst(c, s, m) ==
  /\ m => c # <<>> /\ (Creating(c[1]) \/ Reviving(c[1]))
  /\ \A i \in DOMAIN c : Creating(c[i]) => i = 1 /\ s = "stable" /\ m

ReplyingAlone(c, s) ==
  \A i \in DOMAIN c : Replying(c[i]) =>
    /\ s = "have-remote-offer"
    /\ \A j \in DOMAIN c : j # i => Adding(c[j]) /\ ~Replying(c[j])

YieldingFits(e, c, s) ==
  \A i \in DOMAIN c : Yielding(c[i]) =>
    /\ e = Responder
    /\ i + 1 \in DOMAIN c /\ Taking(c[i + 1])
    /\ s = "have-local-offer" \/ Creating(c[1])
    /\ \A j \in 1..i - 1 : Adding(c[j]) \/ Creating(c[j])

SettlingFits(c, s) ==
  /\ \A i \in DOMAIN c : Settling(c[i]) =>
       s = "have-local-offer" /\ \A j \in 1..i - 1 : Adding(c[j])
  /\ \A i \in DOMAIN c : Finishing(c[i]) =>
       s # "have-local-offer" /\ ~Creating(c[1])

TakingFits(c, s) ==
  /\ \A i, j \in DOMAIN c : Taking(c[i]) /\ Taking(c[j]) => i = j
  /\ \A i \in DOMAIN c : Taking(c[i]) =>
       \/ s = "stable" /\ ~Creating(c[1])
       \/ \E j \in 1..i - 1 : Settling(c[j]) \/ Yielding(c[j])

PendingFits(c, p) ==
  /\ p => \E i \in DOMAIN c : Settling(c[i]) \/ Finishing(c[i])
  /\ \A i \in DOMAIN c : Settling(c[i]) => p

Orderly(e, c, s, m, p, w) ==
  /\ Kinds(c, w) /\ CreatingFirst(c, s, m) /\ ReplyingAlone(c, s)
  /\ YieldingFits(e, c, s) /\ SettlingFits(c, s) /\ TakingFits(c, s)
  /\ PendingFits(c, p)

HasTaking(c) == \E i \in DOMAIN c : Taking(c[i])
HasSettling(c) == \E i \in DOMAIN c : Settling(c[i])
HasCreating(c) == \E i \in DOMAIN c : Creating(c[i])

-----------------------------------------------------------------------------
\* No operation is of two kinds.
LEMMA KindsApart ==
  ASSUME NEW o
  PROVE  /\ Creating(o) => ~Reviving(o) /\ ~Yielding(o) /\ ~Taking(o)
                           /\ ~Settling(o) /\ ~Adding(o) /\ ~Replying(o)
         /\ Reviving(o) => ~Yielding(o) /\ ~Taking(o) /\ ~Settling(o)
                           /\ ~Adding(o) /\ ~Replying(o)
         /\ Yielding(o) => ~Taking(o) /\ ~Settling(o) /\ ~Adding(o)
                           /\ ~Replying(o)
         /\ Taking(o) => ~Settling(o) /\ ~Adding(o) /\ ~Replying(o)
         /\ Settling(o) => ~Adding(o) /\ ~Replying(o)
         /\ Finishing(o) => Adding(o) /\ ~Replying(o)
  BY DEF Creating, Reviving, Yielding, Taking, Settling, Adding, Replying,
     Finishing, Local, Rollback, Op

\* A sequence without its first element, and one with another at its end.
LEMMA Shorter ==
  ASSUME NEW S, NEW s \in Seq(S), s # <<>>
  PROVE  /\ Tail(s) \in Seq(S) /\ Head(s) = s[1] /\ s[1] \in S
         /\ Len(s) \in Nat /\ Len(s) >= 1 /\ DOMAIN s = 1..Len(s)
         /\ Len(Tail(s)) = Len(s) - 1
         /\ DOMAIN Tail(s) = 1..(Len(s) - 1)
         /\ \A i \in 1..(Len(s) - 1) : Tail(s)[i] = s[i + 1]
         /\ ToSet(Tail(s)) \subseteq ToSet(s) /\ Head(s) \in ToSet(s)
<1>1. /\ Tail(s) \in Seq(S) /\ Head(s) = s[1] /\ s[1] \in S
      /\ Len(s) \in Nat /\ Len(s) >= 1 /\ DOMAIN s = 1..Len(s)
      /\ Len(Tail(s)) = Len(s) - 1
      /\ DOMAIN Tail(s) = 1..(Len(s) - 1)
      /\ \A i \in 1..(Len(s) - 1) : Tail(s)[i] = s[i + 1]
  OBVIOUS
<1>2. \A i \in DOMAIN Tail(s) : i + 1 \in DOMAIN s
  BY <1>1
<1>3. 1 \in DOMAIN s
  BY <1>1
<1> QED  BY <1>1, <1>2, <1>3 DEF ToSet

LEMMA Longer ==
  ASSUME NEW S, NEW s \in Seq(S), NEW x \in S
  PROVE  /\ Append(s, x) \in Seq(S)
         /\ Len(s) \in Nat /\ DOMAIN s = 1..Len(s)
         /\ Len(Append(s, x)) = Len(s) + 1
         /\ DOMAIN Append(s, x) = 1..(Len(s) + 1)
         /\ \A i \in 1..Len(s) : Append(s, x)[i] = s[i]
         /\ Append(s, x)[Len(s) + 1] = x
         /\ s \o <<x>> = Append(s, x)
         /\ s \o <<>> = s
         /\ ToSet(Append(s, x)) = ToSet(s) \union {x}
<1>1. /\ Append(s, x) \in Seq(S)
      /\ Len(s) \in Nat /\ DOMAIN s = 1..Len(s)
      /\ Len(Append(s, x)) = Len(s) + 1
      /\ DOMAIN Append(s, x) = 1..(Len(s) + 1)
      /\ \A i \in 1..Len(s) : Append(s, x)[i] = s[i]
      /\ Append(s, x)[Len(s) + 1] = x
      /\ s \o <<x>> = Append(s, x)
      /\ s \o <<>> = s
  OBVIOUS
<1>2. \A i \in DOMAIN Append(s, x) :
        i = Len(s) + 1 \/ (i \in DOMAIN s /\ Append(s, x)[i] = s[i])
  BY <1>1
<1>3. Len(s) + 1 \in DOMAIN Append(s, x)
      /\ \A i \in DOMAIN s : i \in DOMAIN Append(s, x) /\ Append(s, x)[i] = s[i]
  BY <1>1
<1> QED  BY <1>1, <1>2, <1>3 DEF ToSet

\* Of a set with an element or none, the sequence.
LEMMA Few ==
  ASSUME NEW x
  PROVE  SetToSeq({}) = <<>> /\ SetToSeq({x}) = <<x>>
<1>1. Cardinality({}) = 0 /\ Cardinality({x}) = 1
  BY FS_EmptySet, FS_Singleton
<1>2. SetToSeq({}) = <<>>
  <2>1. 1..0 = {} /\ <<>> \in [1..0 -> {}] /\ IsInjective(<<>>)
    BY DEF IsInjective
  <2>2. \A f \in [1..0 -> {}] : f = <<>>
    OBVIOUS
  <2> QED  BY <1>1, <2>1, <2>2 DEF SetToSeq
<1>3. SetToSeq({x}) = <<x>>
  <2>1. <<x>> \in [1..1 -> {x}] /\ IsInjective(<<x>>)
    BY DEF IsInjective
  <2>2. \A f \in [1..1 -> {x}] : f = <<x>>
    OBVIOUS
  <2> QED  BY <1>1, <2>1, <2>2 DEF SetToSeq
<1> QED  BY <1>2, <1>3

-----------------------------------------------------------------------------
(* What is left, d, of a chain when its first operation is done. *)
Rest(e, c, s, w, d) ==
  /\ Kinds(d, w)
  /\ \A i \in DOMAIN d : i \in Nat \ {0} /\ i + 1 \in DOMAIN c
                         /\ d[i] = c[i + 1]
  /\ 1 \in DOMAIN c
  /\ \A i \in DOMAIN c : i # 1 => i - 1 \in DOMAIN d /\ d[i - 1] = c[i]
  /\ \A i \in DOMAIN d : ~Creating(d[i]) /\ ~Reviving(d[i])
  /\ \A i \in DOMAIN d : Yielding(d[i]) =>
       /\ e = Responder
       /\ i + 1 \in DOMAIN d /\ Taking(d[i + 1])
       /\ s = "have-local-offer" \/ Creating(c[1])
       /\ Adding(c[1]) \/ Creating(c[1])
       /\ \A j \in 1..i - 1 : Adding(d[j]) \/ Creating(d[j])
  /\ \A i \in DOMAIN d : Settling(d[i]) =>
       /\ s = "have-local-offer" /\ Adding(c[1])
       /\ \A j \in 1..i - 1 : Adding(d[j])
  /\ \A i, j \in DOMAIN d : Taking(d[i]) /\ Taking(d[j]) => i = j
  /\ \A i \in DOMAIN d : Taking(d[i]) =>
       \/ s = "stable" /\ ~Creating(c[1])
       \/ Settling(c[1]) \/ Yielding(c[1])
       \/ \E j \in 1..i - 1 : Settling(d[j]) \/ Yielding(d[j])
  /\ \A i \in DOMAIN d : Replying(d[i]) =>
       /\ s = "have-remote-offer"
       /\ \A j \in DOMAIN d : j # i => Adding(d[j]) /\ ~Replying(d[j])
  /\ HasTaking(d) => HasTaking(c)
  /\ HasTaking(c) => HasTaking(d) \/ Taking(c[1])
  /\ Taking(c[1]) => ~HasTaking(d)
  /\ HasSettling(d) => HasSettling(c)
  /\ HasSettling(c) => HasSettling(d) \/ Settling(c[1])
  /\ Settling(c[1]) => ~HasSettling(d)
  /\ ~HasCreating(d)

\* This is what is left.
LEMMA Dropped ==
  ASSUME NEW e, NEW c \in Seq(Operations), c # <<>>, NEW s, NEW m, NEW p,
         NEW w, Orderly(e, c, s, m, p, w), NEW d, d = Tail(c)
  PROVE  Rest(e, c, s, w, d)
<1>1. /\ Len(c) \in Nat /\ Len(c) >= 1 /\ DOMAIN c = 1..Len(c)
      /\ DOMAIN d = 1..(Len(c) - 1)
      /\ \A i \in 1..(Len(c) - 1) : d[i] = c[i + 1]
  BY Shorter
<1>2. \A i \in DOMAIN d : i \in Nat \ {0} /\ i + 1 \in DOMAIN c /\ d[i] = c[i + 1]
  BY <1>1
<1>3. 1 \in DOMAIN c
      /\ \A i \in DOMAIN c : i # 1 => i - 1 \in DOMAIN d /\ d[i - 1] = c[i]
  BY <1>1
<1>4. \A i \in DOMAIN d : ~Creating(d[i]) /\ ~Reviving(d[i])
  <2>1. \A i \in DOMAIN d : ~Creating(d[i])
    BY <1>1 DEF Orderly, CreatingFirst
  <2>2. ASSUME NEW i \in DOMAIN d, Reviving(d[i]) PROVE FALSE
    <3>1. i + 1 \in DOMAIN c /\ Reviving(c[i + 1]) /\ i + 1 # 1
      BY <1>1, <2>2
    <3> QED  BY <3>1, KindsApart DEF Orderly, Kinds
  <2> QED  BY <2>1, <2>2
<1>5. Kinds(d, w)
  BY <1>2, <1>4 DEF Orderly, Kinds
<1>6. ASSUME NEW i \in DOMAIN d, Yielding(d[i])
      PROVE  /\ e = Responder
             /\ i + 1 \in DOMAIN d /\ Taking(d[i + 1])
             /\ s = "have-local-offer" \/ Creating(c[1])
             /\ Adding(c[1]) \/ Creating(c[1])
             /\ \A j \in 1..i - 1 : Adding(d[j]) \/ Creating(d[j])
  <2>1. i + 1 \in DOMAIN c /\ c[i + 1] = d[i] /\ i + 1 + 1 = i + 2
        /\ i + 1 - 1 = i
    BY <1>1
  <2>2. /\ e = Responder
        /\ i + 2 \in DOMAIN c /\ Taking(c[i + 2])
        /\ s = "have-local-offer" \/ Creating(c[1])
        /\ \A j \in 1..i : Adding(c[j]) \/ Creating(c[j])
    BY <2>1, <1>6 DEF Orderly, YieldingFits
  <2> QED  BY <1>1, <2>2
<1>7. ASSUME NEW i \in DOMAIN d, Settling(d[i])
      PROVE  /\ s = "have-local-offer" /\ Adding(c[1])
             /\ \A j \in 1..i - 1 : Adding(d[j])
  <2>1. i + 1 \in DOMAIN c /\ c[i + 1] = d[i] /\ i + 1 - 1 = i
    BY <1>1
  <2>2. s = "have-local-offer" /\ \A j \in 1..i : Adding(c[j])
    BY <2>1, <1>7 DEF Orderly, SettlingFits
  <2> QED  BY <1>1, <2>2
<1>8. \A i, j \in DOMAIN d : Taking(d[i]) /\ Taking(d[j]) => i = j
  BY <1>1 DEF Orderly, TakingFits
<1>9. ASSUME NEW i \in DOMAIN d, Taking(d[i])
      PROVE  \/ s = "stable" /\ ~Creating(c[1])
             \/ Settling(c[1]) \/ Yielding(c[1])
             \/ \E j \in 1..i - 1 : Settling(d[j]) \/ Yielding(d[j])
  <2>1. i + 1 \in DOMAIN c /\ Taking(c[i + 1]) /\ i + 1 - 1 = i
    BY <1>1, <1>9
  <2>2. CASE s = "stable" /\ ~Creating(c[1])
    BY <2>2
  <2>3. ASSUME NEW j \in 1..i, Settling(c[j]) \/ Yielding(c[j])
        PROVE  \/ Settling(c[1]) \/ Yielding(c[1])
               \/ \E k \in 1..i - 1 : Settling(d[k]) \/ Yielding(d[k])
    <3>1. CASE j = 1
      BY <3>1, <2>3
    <3>2. CASE j # 1
      <4>1. j - 1 \in 1..i - 1 /\ d[j - 1] = c[j]
        BY <1>1, <3>2
      <4> QED  BY <4>1, <2>3
    <3> QED  BY <3>1, <3>2
  <2>4. \/ s = "stable" /\ ~Creating(c[1])
        \/ \E j \in 1..(i + 1) - 1 : Settling(c[j]) \/ Yielding(c[j])
    BY <2>1 DEF Orderly, TakingFits
  <2>5. 1..(i + 1) - 1 = 1..i
    BY <2>1
  <2> QED  BY <2>2, <2>3, <2>4, <2>5
<1>10. ASSUME NEW i \in DOMAIN d, Replying(d[i])
       PROVE  /\ s = "have-remote-offer"
              /\ \A j \in DOMAIN d : j # i => Adding(d[j]) /\ ~Replying(d[j])
  <2>1. i + 1 \in DOMAIN c /\ Replying(c[i + 1])
    BY <1>1, <1>10
  <2>2. /\ s = "have-remote-offer"
        /\ \A j \in DOMAIN c : j # i + 1 => Adding(c[j]) /\ ~Replying(c[j])
    BY <2>1 DEF Orderly, ReplyingAlone
  <2> QED  BY <1>1, <2>2
<1>11. /\ HasTaking(d) => HasTaking(c)
       /\ HasTaking(c) => HasTaking(d) \/ Taking(c[1])
       /\ HasSettling(d) => HasSettling(c)
       /\ HasSettling(c) => HasSettling(d) \/ Settling(c[1])
       /\ ~HasCreating(d)
  BY <1>2, <1>3, <1>4 DEF HasTaking, HasSettling, HasCreating
<1>12. Taking(c[1]) => ~HasTaking(d)
  <2> SUFFICES ASSUME Taking(c[1]), NEW i \in DOMAIN d, Taking(d[i])
               PROVE  FALSE
    BY DEF HasTaking
  <2>1. i + 1 \in DOMAIN c /\ Taking(c[i + 1]) /\ i + 1 # 1
    BY <1>1
  <2> QED  BY <2>1, <1>3 DEF Orderly, TakingFits
<1>13. Settling(c[1]) => ~HasSettling(d)
  BY <1>7, KindsApart DEF HasSettling
<1> QED
  BY <1>2, <1>3, <1>4, <1>5, <1>6, <1>7, <1>8, <1>9, <1>10, <1>11, <1>12, <1>13
     DEF Rest

\* The browser makes the offer that was asked for.
LEMMA CreatingDone ==
  ASSUME NEW e, NEW c \in Seq(Operations), c # <<>>, NEW s, NEW m, NEW p,
         NEW w, Orderly(e, c, s, m, p, w), Creating(c[1])
  PROVE  /\ s = "stable" /\ m
         /\ Orderly(e, Tail(c), "have-local-offer", FALSE, p, w)
         /\ HasTaking(Tail(c)) <=> HasTaking(c)
         /\ ~HasSettling(Tail(c)) /\ ~HasSettling(c)
         /\ ~HasCreating(Tail(c))
<1> DEFINE d == Tail(c)
<1>1. Rest(e, c, s, w, d)
  BY Dropped
<1> HIDE DEF d
<1>2. s = "stable" /\ m
  BY <1>1 DEF Orderly, CreatingFirst, Rest
<1>3. \A i \in DOMAIN c : ~Settling(c[i]) /\ ~Finishing(c[i])
  BY <1>2 DEF Orderly, SettlingFits
<1>4. \A i \in DOMAIN d : ~Settling(d[i]) /\ ~Finishing(d[i]) /\ ~Creating(d[i])
                          /\ ~Replying(d[i])
  BY <1>1, <1>2, <1>3 DEF Rest
<1>5. ~p
  BY <1>3 DEF Orderly, PendingFits
<1>6. CreatingFirst(d, "have-local-offer", FALSE)
      /\ ReplyingAlone(d, "have-local-offer")
      /\ SettlingFits(d, "have-local-offer") /\ PendingFits(d, p)
  BY <1>4, <1>5 DEF CreatingFirst, ReplyingAlone, SettlingFits, PendingFits
<1>7. YieldingFits(e, d, "have-local-offer")
  BY <1>1 DEF YieldingFits, Rest
<1>8. TakingFits(d, "have-local-offer")
  BY <1>1, KindsApart DEF TakingFits, Rest
<1>9. Kinds(d, w) /\ (HasTaking(d) <=> HasTaking(c)) /\ ~HasCreating(d)
      /\ ~HasSettling(d) /\ ~HasSettling(c)
  BY <1>1, <1>3, <1>4, KindsApart DEF HasSettling, Rest
<1> QED
  BY <1>2, <1>6, <1>7, <1>8, <1>9 DEF Orderly, d

\* An end gives its offer up.
LEMMA YieldingDone ==
  ASSUME NEW e, NEW c \in Seq(Operations), c # <<>>, NEW s, NEW m, NEW p,
         NEW w, Orderly(e, c, s, m, p, w), Yielding(c[1])
  PROVE  /\ s = "have-local-offer" /\ e = Responder /\ ~m
         /\ Orderly(e, Tail(c), "stable", m, p, w)
         /\ HasTaking(Tail(c)) /\ HasTaking(c)
         /\ ~HasSettling(Tail(c)) /\ ~HasSettling(c)
         /\ ~HasCreating(Tail(c)) /\ ~HasCreating(c)
<1> DEFINE d == Tail(c)
<1>1. Rest(e, c, s, w, d)
  BY Dropped
<1> HIDE DEF d
<1>2. ~Creating(c[1]) /\ ~Adding(c[1]) /\ ~Settling(c[1]) /\ ~Taking(c[1])
      /\ ~Replying(c[1]) /\ ~Reviving(c[1])
  BY KindsApart
<1>3. s = "have-local-offer" /\ e = Responder /\ HasTaking(c)
  BY <1>1, <1>2 DEF Orderly, YieldingFits, Rest, HasTaking
<1>4. ~m /\ \A i \in DOMAIN c : ~Creating(c[i])
  BY <1>2, <1>3 DEF Orderly, CreatingFirst
<1>5. \A i \in DOMAIN c : ~Finishing(c[i]) /\ ~Replying(c[i])
  BY <1>3 DEF Orderly, SettlingFits, ReplyingAlone
<1>6. \A i \in DOMAIN d : ~Settling(d[i]) /\ ~Yielding(d[i]) /\ ~Replying(d[i])
                          /\ ~Finishing(d[i]) /\ ~Creating(d[i])
  BY <1>1, <1>2, <1>5 DEF Rest
<1>7. ~p
  <2>1. \A i \in DOMAIN c : ~Settling(c[i])
    BY <1>1, <1>2, <1>6 DEF Rest
  <2> QED  BY <2>1, <1>5 DEF Orderly, PendingFits
<1>8. CreatingFirst(d, "stable", m) /\ ReplyingAlone(d, "stable")
      /\ SettlingFits(d, "stable") /\ PendingFits(d, p) /\ YieldingFits(e, d, "stable")
  BY <1>4, <1>6, <1>7
     DEF CreatingFirst, ReplyingAlone, SettlingFits, PendingFits, YieldingFits
<1>9. TakingFits(d, "stable")
  <2>1. d # <<>> => 1 \in DOMAIN d
    BY Shorter DEF d
  <2>2. \A i \in DOMAIN d : ~Creating(d[1])
    <3> SUFFICES ASSUME NEW i \in DOMAIN d PROVE ~Creating(d[1])
      OBVIOUS
    <3>1. d \in Seq(Operations)
      BY Shorter DEF d
    <3>2. 1 \in DOMAIN d
      BY <3>1
    <3> QED  BY <3>2, <1>6
  <2> QED  BY <1>1, <2>2 DEF TakingFits, Rest
<1>10. HasTaking(d) /\ ~HasSettling(d) /\ ~HasSettling(c) /\ ~HasCreating(d)
       /\ ~HasCreating(c) /\ Kinds(d, w)
  BY <1>1, <1>2, <1>3, <1>4, <1>6 DEF Rest, HasSettling, HasCreating
<1> QED
  BY <1>3, <1>4, <1>8, <1>9, <1>10 DEF Orderly, d

\* The browser takes the other end's offer: an answer is to be made, or is to
\* be when a candidate that waited is added.
LEMMA TakingDone ==
  ASSUME NEW e, NEW c \in Seq(Operations), c # <<>>, NEW s, NEW m, NEW p,
         NEW w, Orderly(e, c, s, m, p, w), Taking(c[1]),
         NEW x \in Operations, Replying(x)
  PROVE  /\ s = "stable" /\ ~m /\ HasTaking(c)
         /\ Orderly(e, Append(Tail(c), x), "have-remote-offer", m, p, w)
         /\ ~HasTaking(Append(Tail(c), x))
         /\ ~HasSettling(Append(Tail(c), x)) /\ ~HasSettling(c)
         /\ ~HasCreating(Append(Tail(c), x)) /\ ~HasCreating(c)
<1> DEFINE t == Tail(c)
           d == Append(t, x)
<1>1. Rest(e, c, s, w, t)
  BY Dropped
<1>2. /\ t \in Seq(Operations) /\ Len(t) \in Nat /\ DOMAIN t = 1..Len(t)
      /\ DOMAIN d = 1..(Len(t) + 1)
      /\ \A i \in 1..Len(t) : d[i] = t[i]
      /\ d[Len(t) + 1] = x
  BY Shorter, Longer
<1> HIDE DEF t, d
<1>3. ~Creating(c[1]) /\ ~Adding(c[1]) /\ ~Settling(c[1]) /\ ~Yielding(c[1])
      /\ ~Replying(c[1]) /\ ~Reviving(c[1])
  BY KindsApart
<1>4. ~Creating(x) /\ ~Settling(x) /\ ~Yielding(x) /\ ~Reviving(x) /\ ~Taking(x)
      /\ ~Finishing(x)
  BY KindsApart
<1>5. s = "stable" /\ HasTaking(c)
  BY <1>1 DEF Orderly, TakingFits, Rest, HasTaking
<1>6. ~m /\ \A i \in DOMAIN c : ~Creating(c[i])
  BY <1>3 DEF Orderly, CreatingFirst
<1>7. \A i \in DOMAIN t : /\ ~Creating(t[i]) /\ ~Settling(t[i]) /\ ~Yielding(t[i])
                          /\ ~Replying(t[i]) /\ ~Taking(t[i])
  BY <1>1, <1>3, <1>5 DEF Rest, HasTaking
<1>8. \A i \in DOMAIN d : i = Len(t) + 1 \/ (i \in DOMAIN t /\ d[i] = t[i])
  BY <1>2
<1>9. /\ CreatingFirst(d, "have-remote-offer", m)
      /\ YieldingFits(e, d, "have-remote-offer")
      /\ TakingFits(d, "have-remote-offer")
  BY <1>2, <1>4, <1>6, <1>7, <1>8 DEF CreatingFirst, YieldingFits, TakingFits
<1>10. SettlingFits(d, "have-remote-offer")
  <2>1. ~Creating(d[1])
    BY <1>2, <1>4, <1>7, <1>8
  <2>2. \A i \in DOMAIN d : ~Settling(d[i])
    BY <1>2, <1>4, <1>7, <1>8
  <2> QED  BY <2>1, <2>2 DEF SettlingFits
<1>12. ReplyingAlone(d, "have-remote-offer")
  <2>1. \A i \in DOMAIN t : Adding(t[i])
    <3> SUFFICES ASSUME NEW i \in DOMAIN t PROVE Adding(t[i])
      OBVIOUS
    <3> QED  BY <1>1, <1>7 DEF Rest, Kinds
  <2> QED  BY <1>2, <1>4, <1>7, <1>8, <2>1 DEF ReplyingAlone
<1>13. Kinds(d, w)
  BY <1>1, <1>2, <1>4, <1>8 DEF Rest, Kinds
<1>14. PendingFits(d, p)
  <2>1. \A i \in DOMAIN d : ~Settling(d[i])
    BY <1>2, <1>4, <1>7, <1>8
  <2>2. ASSUME p PROVE \E i \in DOMAIN d : Finishing(d[i])
    <3>1. PICK i \in DOMAIN c : Settling(c[i]) \/ Finishing(c[i])
      BY <2>2 DEF Orderly, PendingFits
    <3>2. i # 1 /\ i - 1 \in DOMAIN t /\ t[i - 1] = c[i]
      BY <1>1, <1>3, <3>1, KindsApart DEF Rest
    <3>3. Finishing(d[i - 1]) /\ i - 1 \in DOMAIN d
      BY <1>2, <1>7, <3>1, <3>2
    <3> QED  BY <3>3
  <2> QED  BY <2>1, <2>2 DEF PendingFits
<1>15. ~HasTaking(d) /\ ~HasSettling(d) /\ ~HasCreating(d) /\ ~HasSettling(c)
       /\ ~HasCreating(c)
  BY <1>1, <1>2, <1>3, <1>4, <1>6, <1>7, <1>8 DEF HasTaking, HasSettling, HasCreating, Rest
<1> QED
  BY <1>5, <1>6, <1>9, <1>10, <1>12, <1>13, <1>14, <1>15 DEF Orderly, d, t

\* The browser takes the answer: the offer is settled.
LEMMA SettlingDone ==
  ASSUME NEW e, NEW c \in Seq(Operations), c # <<>>, NEW s, NEW m, NEW p,
         NEW w, Orderly(e, c, s, m, p, w), Settling(c[1])
  PROVE  /\ s = "have-local-offer" /\ ~m
         /\ \A q : ~q => Orderly(e, Tail(c), "stable", m, q, w)
         /\ HasTaking(Tail(c)) <=> HasTaking(c)
         /\ ~HasSettling(Tail(c)) /\ HasSettling(c)
         /\ ~HasCreating(Tail(c)) /\ ~HasCreating(c)
<1> DEFINE d == Tail(c)
<1>1. Rest(e, c, s, w, d)
  BY Dropped
<1>2. d \in Seq(Operations)
  BY Shorter
<1> HIDE DEF d
<1>3. ~Creating(c[1]) /\ ~Adding(c[1]) /\ ~Taking(c[1]) /\ ~Yielding(c[1])
      /\ ~Replying(c[1]) /\ ~Reviving(c[1])
  BY KindsApart
<1>4. s = "have-local-offer" /\ HasSettling(c)
  BY <1>1 DEF Orderly, SettlingFits, Rest, HasSettling
<1>5. ~m /\ \A i \in DOMAIN c : ~Creating(c[i])
  BY <1>3, <1>4 DEF Orderly, CreatingFirst
<1>6. \A i \in DOMAIN c : ~Finishing(c[i]) /\ ~Replying(c[i])
  BY <1>4 DEF Orderly, SettlingFits, ReplyingAlone
<1>7. \A i \in DOMAIN d : ~Settling(d[i]) /\ ~Yielding(d[i]) /\ ~Replying(d[i])
                          /\ ~Finishing(d[i]) /\ ~Creating(d[i])
  BY <1>1, <1>3, <1>6 DEF Rest
<1>8. \A i \in DOMAIN d : ~Creating(d[1])
  <2> SUFFICES ASSUME NEW i \in DOMAIN d PROVE ~Creating(d[1])
    OBVIOUS
  <2>1. 1 \in DOMAIN d
    BY <1>2
  <2> QED  BY <2>1, <1>7
<1>9. CreatingFirst(d, "stable", m) /\ ReplyingAlone(d, "stable")
      /\ SettlingFits(d, "stable") /\ YieldingFits(e, d, "stable")
      /\ \A q : ~q => PendingFits(d, q)
  BY <1>5, <1>7
     DEF CreatingFirst, ReplyingAlone, SettlingFits, PendingFits, YieldingFits
<1>10. TakingFits(d, "stable") /\ Kinds(d, w)
  BY <1>1, <1>8 DEF TakingFits, Rest
<1>11. (HasTaking(d) <=> HasTaking(c)) /\ ~HasSettling(d) /\ ~HasCreating(d)
       /\ ~HasCreating(c)
  BY <1>1, <1>3, <1>5 DEF Rest, HasCreating
<1> QED
  BY <1>4, <1>5, <1>9, <1>10, <1>11 DEF Orderly, d

\* The browser makes the answer.
LEMMA ReplyDone ==
  ASSUME NEW e, NEW c \in Seq(Operations), c # <<>>, NEW s, NEW m, NEW p,
         NEW w, Orderly(e, c, s, m, p, w), c[1] = Local("offer")
  PROVE  /\ s = "have-remote-offer" /\ ~m
         /\ Orderly(e, Tail(c), "stable", m, p, w)
         /\ ~HasTaking(Tail(c)) /\ ~HasTaking(c)
         /\ ~HasSettling(Tail(c)) /\ ~HasSettling(c)
         /\ ~HasCreating(Tail(c)) /\ ~HasCreating(c)
<1> DEFINE d == Tail(c)
<1>1. Rest(e, c, s, w, d)
  BY Dropped
<1> HIDE DEF d
<1>2. Replying(c[1])
  BY DEF Replying
<1>3. ~Creating(c[1]) /\ ~Taking(c[1]) /\ ~Yielding(c[1]) /\ ~Settling(c[1])
      /\ ~Reviving(c[1]) /\ ~Finishing(c[1])
  BY <1>2, KindsApart
<1>4. s = "have-remote-offer"
      /\ \A i \in DOMAIN c : i # 1 => Adding(c[i]) /\ ~Replying(c[i])
  BY <1>1, <1>2 DEF Orderly, ReplyingAlone, Rest
<1>5. ~m /\ \A i \in DOMAIN c : ~Creating(c[i])
  BY <1>3 DEF Orderly, CreatingFirst
<1>6. \A i \in DOMAIN d : Adding(d[i]) /\ ~Replying(d[i])
  BY <1>1, <1>4 DEF Rest
<1>7. \A i \in DOMAIN d : ~Settling(d[i]) /\ ~Yielding(d[i]) /\ ~Taking(d[i])
                          /\ ~Creating(d[i])
  BY <1>6, KindsApart
<1>8. \A i \in DOMAIN d : ~Creating(d[1])
  <2> SUFFICES ASSUME NEW i \in DOMAIN d PROVE ~Creating(d[1])
    OBVIOUS
  <2>0. d \in Seq(Operations)
    BY Shorter DEF d
  <2>1. 1 \in DOMAIN d
    BY <2>0
  <2> QED  BY <2>1, <1>7
<1>9. CreatingFirst(d, "stable", m) /\ ReplyingAlone(d, "stable")
      /\ SettlingFits(d, "stable") /\ YieldingFits(e, d, "stable")
      /\ TakingFits(d, "stable") /\ Kinds(d, w)
  BY <1>1, <1>5, <1>6, <1>7, <1>8
     DEF CreatingFirst, ReplyingAlone, SettlingFits, YieldingFits, TakingFits, Rest
<1>10. PendingFits(d, p)
  <2>1. ASSUME p PROVE \E i \in DOMAIN d : Finishing(d[i])
    <3>1. PICK i \in DOMAIN c : Settling(c[i]) \/ Finishing(c[i])
      BY <2>1 DEF Orderly, PendingFits
    <3>2. i # 1 /\ i - 1 \in DOMAIN d /\ d[i - 1] = c[i]
      BY <1>1, <1>3, <3>1 DEF Rest
    <3> QED  BY <3>1, <3>2, <1>7
  <2> QED  BY <2>1, <1>7 DEF PendingFits
<1>11. ~HasTaking(d) /\ ~HasTaking(c) /\ ~HasSettling(d) /\ ~HasSettling(c)
       /\ ~HasCreating(d) /\ ~HasCreating(c)
  BY <1>1, <1>3, <1>5, <1>7 DEF HasTaking, HasCreating, HasSettling, Rest
<1> QED
  BY <1>4, <1>5, <1>9, <1>10, <1>11 DEF Orderly, d

\* A candidate is added that no answer waits for, or the one after which the
\* answer is settled.
LEMMA AddingDone ==
  ASSUME NEW e, NEW c \in Seq(Operations), c # <<>>, NEW s, NEW m, NEW p,
         NEW w, Orderly(e, c, s, m, p, w), Adding(c[1]), ~Replying(c[1]),
         NEW q, IF Finishing(c[1]) THEN ~q ELSE q = p
  PROVE  /\ Orderly(e, Tail(c), s, m, q, w)
         /\ HasTaking(Tail(c)) <=> HasTaking(c)
         /\ HasSettling(Tail(c)) <=> HasSettling(c)
         /\ ~HasCreating(Tail(c)) /\ ~HasCreating(c)
<1> DEFINE d == Tail(c)
<1>1. Rest(e, c, s, w, d)
  BY Dropped
<1> HIDE DEF d
<1>3. ~Creating(c[1]) /\ ~Taking(c[1]) /\ ~Yielding(c[1]) /\ ~Settling(c[1])
      /\ ~Reviving(c[1])
  BY KindsApart
<1>5. ~m /\ \A i \in DOMAIN c : ~Creating(c[i])
  BY <1>3 DEF Orderly, CreatingFirst
<1>8. \A i \in DOMAIN d : ~Creating(d[1])
  <2> SUFFICES ASSUME NEW i \in DOMAIN d PROVE ~Creating(d[1])
    OBVIOUS
  <2>0. d \in Seq(Operations)
    BY Shorter DEF d
  <2>1. 1 \in DOMAIN d
    BY <2>0
  <2> QED  BY <2>1, <1>1 DEF Rest
<1>9. CreatingFirst(d, s, m) /\ ReplyingAlone(d, s) /\ Kinds(d, w)
  BY <1>1, <1>5 DEF CreatingFirst, ReplyingAlone, Rest
<1>10. YieldingFits(e, d, s)
  BY <1>1, <1>3 DEF YieldingFits, Rest
<1>11. TakingFits(d, s)
  BY <1>1, <1>3, <1>8 DEF TakingFits, Rest
<1>12. SettlingFits(d, s)
  BY <1>1, <1>8 DEF Orderly, SettlingFits, Rest
<1>13. PendingFits(d, q)
  <2>1. ASSUME q PROVE \E i \in DOMAIN d : Settling(d[i]) \/ Finishing(d[i])
    <3>1. PICK i \in DOMAIN c : Settling(c[i]) \/ Finishing(c[i])
      BY <2>1 DEF Orderly, PendingFits
    <3>2. i # 1 /\ i - 1 \in DOMAIN d /\ d[i - 1] = c[i]
      BY <1>1, <1>3, <2>1, <3>1 DEF Rest
    <3> QED  BY <3>1, <3>2
  <2>2. ASSUME NEW i \in DOMAIN d, Settling(d[i]) PROVE q
    <3>1. s = "have-local-offer" /\ i + 1 \in DOMAIN c /\ Settling(c[i + 1])
      BY <1>1, <2>2 DEF Rest
    <3>2. ~Finishing(c[1])
      BY <1>1, <3>1 DEF Orderly, SettlingFits, Rest
    <3> QED  BY <3>1, <3>2 DEF Orderly, PendingFits
  <2> QED  BY <2>1, <2>2 DEF PendingFits
<1>14. (HasTaking(d) <=> HasTaking(c)) /\ (HasSettling(d) <=> HasSettling(c))
       /\ ~HasCreating(d) /\ ~HasCreating(c)
  BY <1>1, <1>3, <1>5 DEF HasCreating, Rest
<1> QED
  BY <1>9, <1>10, <1>11, <1>12, <1>13, <1>14 DEF Orderly, d

\* The candidate is added that the answer waits for.
LEMMA ReplyNext ==
  ASSUME NEW e, NEW c \in Seq(Operations), c # <<>>, NEW s, NEW m, NEW p,
         NEW w, Orderly(e, c, s, m, p, w), Adding(c[1]), Replying(c[1]),
         NEW x \in Operations, x = Local("offer")
  PROVE  /\ s = "have-remote-offer"
         /\ Orderly(e, Append(Tail(c), x), s, m, p, w)
         /\ ~HasTaking(Append(Tail(c), x)) /\ ~HasTaking(c)
         /\ ~HasSettling(Append(Tail(c), x)) /\ ~HasSettling(c)
         /\ ~HasCreating(Append(Tail(c), x)) /\ ~HasCreating(c)
<1> DEFINE t == Tail(c)
           d == Append(t, x)
<1>1. Rest(e, c, s, w, t)
  BY Dropped
<1>2. /\ t \in Seq(Operations) /\ Len(t) \in Nat /\ DOMAIN t = 1..Len(t)
      /\ DOMAIN d = 1..(Len(t) + 1)
      /\ \A i \in 1..Len(t) : d[i] = t[i]
      /\ d[Len(t) + 1] = x
  BY Shorter, Longer
<1> HIDE DEF t, d
<1>3. ~Creating(c[1]) /\ ~Taking(c[1]) /\ ~Settling(c[1]) /\ ~Yielding(c[1])
      /\ ~Reviving(c[1]) /\ ~Finishing(c[1])
  BY KindsApart
<1>4. Replying(x)
  BY DEF Replying
<1>5. ~Creating(x) /\ ~Settling(x) /\ ~Yielding(x) /\ ~Reviving(x) /\ ~Taking(x)
      /\ ~Finishing(x)
  BY <1>4, KindsApart
<1>6. s = "have-remote-offer"
      /\ \A i \in DOMAIN c : i # 1 => Adding(c[i]) /\ ~Replying(c[i])
  BY <1>1 DEF Orderly, ReplyingAlone, Rest
<1>7. \A i \in DOMAIN t : Adding(t[i]) /\ ~Replying(t[i])
  BY <1>1, <1>6 DEF Rest
<1>8. \A i \in DOMAIN t : /\ ~Creating(t[i]) /\ ~Settling(t[i]) /\ ~Yielding(t[i])
                          /\ ~Taking(t[i]) /\ ~Reviving(t[i])
  BY <1>7, KindsApart
<1>9. \A i \in DOMAIN d : i = Len(t) + 1 \/ (i \in DOMAIN t /\ d[i] = t[i])
  BY <1>2
<1>10. ~m /\ \A i \in DOMAIN c : ~Creating(c[i]) /\ ~Settling(c[i]) /\ ~Taking(c[i])
  BY <1>3, <1>6, KindsApart DEF Orderly, CreatingFirst
<1>11. /\ CreatingFirst(d, s, m) /\ YieldingFits(e, d, s) /\ TakingFits(d, s)
  BY <1>2, <1>5, <1>8, <1>9, <1>10 DEF CreatingFirst, YieldingFits, TakingFits
<1>12. SettlingFits(d, s)
  <2>1. ~Creating(d[1])
    BY <1>2, <1>5, <1>8, <1>9
  <2> QED  BY <1>2, <1>5, <1>6, <1>8, <1>9, <2>1 DEF SettlingFits
<1>13. ReplyingAlone(d, s)
  BY <1>2, <1>6, <1>7, <1>9 DEF ReplyingAlone
<1>14. Kinds(d, w)
  BY <1>2, <1>4, <1>7, <1>9 DEF Kinds
<1>15. PendingFits(d, p)
  <2>1. \A i \in DOMAIN d : ~Settling(d[i])
    BY <1>2, <1>5, <1>8, <1>9
  <2>2. ASSUME p PROVE \E i \in DOMAIN d : Finishing(d[i])
    <3>1. PICK i \in DOMAIN c : Settling(c[i]) \/ Finishing(c[i])
      BY <2>2 DEF Orderly, PendingFits
    <3>2. i # 1 /\ i - 1 \in DOMAIN t /\ t[i - 1] = c[i]
      BY <1>1, <1>3, <3>1, KindsApart DEF Rest
    <3>3. Finishing(d[i - 1]) /\ i - 1 \in DOMAIN d
      BY <1>2, <1>8, <3>1, <3>2
    <3> QED  BY <3>3
  <2> QED  BY <2>1, <2>2 DEF PendingFits
<1>16. ~HasTaking(d) /\ ~HasSettling(d) /\ ~HasCreating(d) /\ ~HasSettling(c)
       /\ ~HasCreating(c) /\ ~HasTaking(c)
  BY <1>2, <1>5, <1>8, <1>9, <1>10 DEF HasTaking, HasSettling, HasCreating
<1> QED
  BY <1>6, <1>11, <1>12, <1>13, <1>14, <1>15, <1>16 DEF Orderly, d, t

-----------------------------------------------------------------------------
\* And it stays orderly as operations join it: a candidate;
LEMMA AddingJoins ==
  ASSUME NEW e, NEW c \in Seq(Operations), NEW s, NEW m, NEW p, NEW q, NEW w,
         Orderly(e, c, s, m, q, w), NEW x \in Operations, Adding(x), ~Replying(x),
         Finishing(x) => s # "have-local-offer" /\ ~HasCreating(c),
         Finishing(x) \/ (p = q), w \/ (c = <<>>)
  PROVE  /\ Orderly(e, Append(c, x), s, m, p, w)
         /\ HasTaking(Append(c, x)) <=> HasTaking(c)
         /\ HasSettling(Append(c, x)) <=> HasSettling(c)
         /\ HasCreating(Append(c, x)) <=> HasCreating(c)
<1> DEFINE d == Append(c, x)
<1>1. /\ Len(c) \in Nat /\ DOMAIN c = 1..Len(c)
      /\ DOMAIN d = 1..(Len(c) + 1)
      /\ \A i \in 1..Len(c) : d[i] = c[i]
      /\ d[Len(c) + 1] = x
  BY Longer
<1> HIDE DEF d
<1>2. ~Creating(x) /\ ~Settling(x) /\ ~Yielding(x) /\ ~Reviving(x) /\ ~Taking(x)
  BY KindsApart
<1>3. \A i \in DOMAIN d : i = Len(c) + 1 \/ (i \in DOMAIN c /\ d[i] = c[i])
  BY <1>1
<1>4. \A i \in DOMAIN c : i \in DOMAIN d /\ d[i] = c[i] /\ d[1] = c[1]
                          /\ \A j \in 1..i - 1 : j \in DOMAIN c /\ d[j] = c[j]
  BY <1>1
<1>5. Kinds(d, w)
  <2>1. ASSUME NEW i \in DOMAIN c PROVE ~Reviving(c[i])
    <3>1. w \/ DOMAIN c = {}
      BY <1>1
    <3> QED  BY <3>1, KindsApart DEF Orderly, Kinds
  <2> QED  BY <1>1, <1>3, <2>1 DEF Orderly, Kinds
<1>6. CreatingFirst(d, s, m)
  <2>1. c # <<>> => 1 \in DOMAIN c /\ d # <<>>
    BY <1>1
  <2> QED  BY <1>1, <1>2, <1>3, <1>4, <2>1 DEF Orderly, CreatingFirst
<1>7. ReplyingAlone(d, s)
  BY <1>1, <1>3 DEF Orderly, ReplyingAlone
<1>8. YieldingFits(e, d, s)
  <2> SUFFICES ASSUME NEW i \in DOMAIN d, Yielding(d[i])
               PROVE  /\ e = Responder
                      /\ i + 1 \in DOMAIN d /\ Taking(d[i + 1])
                      /\ s = "have-local-offer" \/ Creating(d[1])
                      /\ \A j \in 1..i - 1 : Adding(d[j]) \/ Creating(d[j])
    BY DEF YieldingFits
  <2>1. i \in DOMAIN c /\ Yielding(c[i])
    BY <1>1, <1>2, <1>3
  <2>2. /\ e = Responder
        /\ i + 1 \in DOMAIN c /\ Taking(c[i + 1])
        /\ s = "have-local-offer" \/ Creating(c[1])
        /\ \A j \in 1..i - 1 : Adding(c[j]) \/ Creating(c[j])
    BY <2>1 DEF Orderly, YieldingFits
  <2> QED  BY <1>4, <2>1, <2>2
<1>9. SettlingFits(d, s)
  <2>1. ASSUME NEW i \in DOMAIN d, Settling(d[i])
        PROVE  s = "have-local-offer" /\ \A j \in 1..i - 1 : Adding(d[j])
    <3>1. i \in DOMAIN c /\ Settling(c[i])
      BY <1>1, <1>2, <1>3, <2>1
    <3>2. s = "have-local-offer" /\ \A j \in 1..i - 1 : Adding(c[j])
      BY <3>1 DEF Orderly, SettlingFits
    <3> QED  BY <1>4, <3>1, <3>2
  <2>2. ASSUME NEW i \in DOMAIN d, Finishing(d[i])
        PROVE  s # "have-local-offer" /\ ~Creating(d[1])
    <3>1. CASE i \in DOMAIN c
      BY <1>4, <2>2, <3>1 DEF Orderly, SettlingFits
    <3>2. CASE i = Len(c) + 1
      BY <1>1, <1>2, <1>3, <2>2, <3>2 DEF HasCreating
    <3> QED  BY <1>3, <3>1, <3>2
  <2> QED  BY <2>1, <2>2 DEF SettlingFits
<1>10. TakingFits(d, s)
  <2>1. \A i, j \in DOMAIN d : Taking(d[i]) /\ Taking(d[j]) => i = j
    BY <1>1, <1>2, <1>3 DEF Orderly, TakingFits
  <2>2. ASSUME NEW i \in DOMAIN d, Taking(d[i])
        PROVE  \/ s = "stable" /\ ~Creating(d[1])
               \/ \E j \in 1..i - 1 : Settling(d[j]) \/ Yielding(d[j])
    <3>1. i \in DOMAIN c /\ Taking(c[i])
      BY <1>1, <1>2, <1>3, <2>2
    <3>2. \/ s = "stable" /\ ~Creating(c[1])
          \/ \E j \in 1..i - 1 : Settling(c[j]) \/ Yielding(c[j])
      BY <3>1 DEF Orderly, TakingFits
    <3> QED  BY <1>4, <3>1, <3>2
  <2> QED  BY <2>1, <2>2 DEF TakingFits
<1>11. PendingFits(d, p)
  <2>1. ASSUME p PROVE \E i \in DOMAIN d : Settling(d[i]) \/ Finishing(d[i])
    <3>1. CASE Finishing(x)
      BY <1>1, <3>1
    <3>2. CASE q
      BY <1>4, <3>2 DEF Orderly, PendingFits
    <3> QED  BY <2>1, <3>1, <3>2
  <2>2. ASSUME NEW i \in DOMAIN d, Settling(d[i]) PROVE p
    <3>1. i \in DOMAIN c /\ Settling(c[i])
      BY <1>1, <1>2, <1>3, <2>2
    <3>2. q /\ s = "have-local-offer"
      BY <3>1 DEF Orderly, PendingFits, SettlingFits
    <3> QED  BY <3>2
  <2> QED  BY <2>1, <2>2 DEF PendingFits
<1>12. /\ HasTaking(d) <=> HasTaking(c)
       /\ HasSettling(d) <=> HasSettling(c)
       /\ HasCreating(d) <=> HasCreating(c)
  BY <1>1, <1>2, <1>3, <1>4 DEF HasTaking, HasSettling, HasCreating
<1> QED
  BY <1>5, <1>6, <1>7, <1>8, <1>9, <1>10, <1>11, <1>12 DEF Orderly, d

\* the answer to an offer;
LEMMA SettlingJoins ==
  ASSUME NEW e, NEW c \in Seq(Operations), NEW s, NEW m, NEW p, NEW w,
         Orderly(e, c, s, m, p, w), NEW x \in Operations, Settling(x), w \/ (c = <<>>),
         s = "have-local-offer", ~HasTaking(c), ~HasSettling(c)
  PROVE  /\ Orderly(e, Append(c, x), s, m, TRUE, w)
         /\ ~HasTaking(Append(c, x)) /\ HasSettling(Append(c, x))
         /\ ~HasCreating(Append(c, x)) /\ ~HasCreating(c)
<1> DEFINE d == Append(c, x)
<1>1. /\ Len(c) \in Nat /\ DOMAIN c = 1..Len(c)
      /\ DOMAIN d = 1..(Len(c) + 1)
      /\ \A i \in 1..Len(c) : d[i] = c[i]
      /\ d[Len(c) + 1] = x
  BY Longer
<1> HIDE DEF d
<1>2. ~Creating(x) /\ ~Adding(x) /\ ~Yielding(x) /\ ~Reviving(x) /\ ~Taking(x)
      /\ ~Replying(x) /\ ~Finishing(x)
  BY KindsApart
<1>3. \A i \in DOMAIN c : /\ ~Creating(c[i]) /\ ~Replying(c[i]) /\ ~Finishing(c[i])
                          /\ ~Taking(c[i]) /\ ~Settling(c[i])
  BY DEF Orderly, CreatingFirst, ReplyingAlone, SettlingFits, HasTaking, HasSettling
<1>4. \A i \in DOMAIN c : ~Yielding(c[i]) /\ ~Reviving(c[i])
  BY <1>3, KindsApart DEF Orderly, YieldingFits, Kinds
<1>5. \A i \in DOMAIN c : Adding(c[i])
  BY <1>3, <1>4 DEF Orderly, Kinds
<1>6. \A i \in DOMAIN d : i = Len(c) + 1 \/ (i \in DOMAIN c /\ d[i] = c[i])
  BY <1>1
<1>7. m => c # <<>> /\ 1 \in DOMAIN c
  BY <1>1 DEF Orderly, CreatingFirst
<1>8. ~m
  <2>1. m => c # <<>> /\ 1 \in DOMAIN c /\ (Creating(c[1]) \/ Reviving(c[1]))
    BY <1>7 DEF Orderly, CreatingFirst
  <2> QED  BY <2>1, <1>3, <1>4
<1>9. /\ CreatingFirst(d, s, m) /\ ReplyingAlone(d, s) /\ YieldingFits(e, d, s)
      /\ TakingFits(d, s) /\ Kinds(d, w)
  BY <1>1, <1>2, <1>3, <1>4, <1>5, <1>6, <1>8
     DEF CreatingFirst, ReplyingAlone, YieldingFits, TakingFits, Kinds
<1>10. SettlingFits(d, s)
  <2>1. \A i \in DOMAIN d : \A j \in 1..i - 1 : j \in DOMAIN c /\ d[j] = c[j]
    BY <1>1
  <2> QED  BY <1>2, <1>1, <1>3, <1>5, <1>6, <2>1 DEF SettlingFits
<1>11. PendingFits(d, TRUE) /\ HasSettling(d)
  BY <1>1 DEF PendingFits, HasSettling
<1>12. ~HasTaking(d) /\ ~HasCreating(d) /\ ~HasCreating(c)
  BY <1>1, <1>2, <1>3, <1>6 DEF HasTaking, HasCreating
<1> QED
  BY <1>9, <1>10, <1>11, <1>12 DEF Orderly, d

\* an offer that crosses none;
LEMMA TakingJoins ==
  ASSUME NEW e, NEW c \in Seq(Operations), NEW s, NEW m, NEW p, NEW w,
         Orderly(e, c, s, m, p, w), NEW x \in Operations, Taking(x), w \/ (c = <<>>), ~m,
         s = "stable" \/ (s = "have-local-offer" /\ p), ~HasTaking(c)
  PROVE  /\ Orderly(e, Append(c, x), s, m, p, w)
         /\ HasTaking(Append(c, x))
         /\ HasSettling(Append(c, x)) <=> HasSettling(c)
         /\ s = "have-local-offer" => HasSettling(c)
         /\ ~HasCreating(Append(c, x)) /\ ~HasCreating(c)
<1> DEFINE d == Append(c, x)
<1>1. /\ Len(c) \in Nat /\ DOMAIN c = 1..Len(c)
      /\ DOMAIN d = 1..(Len(c) + 1)
      /\ \A i \in 1..Len(c) : d[i] = c[i]
      /\ d[Len(c) + 1] = x
  BY Longer
<1> HIDE DEF d
<1>2. ~Creating(x) /\ ~Adding(x) /\ ~Yielding(x) /\ ~Reviving(x) /\ ~Settling(x)
      /\ ~Replying(x) /\ ~Finishing(x)
  BY KindsApart
<1>3. \A i \in DOMAIN c : ~Creating(c[i]) /\ ~Replying(c[i]) /\ ~Taking(c[i])
  BY DEF Orderly, CreatingFirst, ReplyingAlone, HasTaking
<1>4. \A i \in DOMAIN c : ~Yielding(c[i]) /\ ~Reviving(c[i])
  BY <1>3, KindsApart DEF Orderly, YieldingFits, Kinds
<1>6. \A i \in DOMAIN d : i = Len(c) + 1 \/ (i \in DOMAIN c /\ d[i] = c[i])
  BY <1>1
<1>7. \A i \in DOMAIN c : i \in DOMAIN d /\ d[i] = c[i] /\ i # Len(c) + 1
  BY <1>1
<1>8. ~Creating(d[1]) /\ 1 \in DOMAIN d
  BY <1>1, <1>2, <1>3
<1>9. /\ CreatingFirst(d, s, m) /\ ReplyingAlone(d, s) /\ YieldingFits(e, d, s)
      /\ Kinds(d, w)
  BY <1>1, <1>2, <1>3, <1>4, <1>6
     DEF Orderly, CreatingFirst, ReplyingAlone, YieldingFits, Kinds
<1>10. SettlingFits(d, s)
  <2>1. ASSUME NEW i \in DOMAIN d, Settling(d[i])
        PROVE  s = "have-local-offer" /\ \A j \in 1..i - 1 : Adding(d[j])
    <3>1. i \in DOMAIN c /\ Settling(c[i])
      BY <1>1, <1>2, <1>6, <2>1
    <3>2. s = "have-local-offer" /\ \A j \in 1..i - 1 : Adding(c[j])
      BY <3>1 DEF Orderly, SettlingFits
    <3>3. \A j \in 1..i - 1 : d[j] = c[j]
      BY <1>1, <3>1
    <3> QED  BY <3>2, <3>3
  <2>2. ASSUME NEW i \in DOMAIN d, Finishing(d[i])
        PROVE  s # "have-local-offer" /\ ~Creating(d[1])
    <3>1. i \in DOMAIN c /\ Finishing(c[i])
      BY <1>1, <1>2, <1>6, <2>2
    <3> QED  BY <1>8, <3>1 DEF Orderly, SettlingFits
  <2> QED  BY <2>1, <2>2 DEF SettlingFits
<1>11. ASSUME s = "have-local-offer" PROVE \E i \in DOMAIN c : Settling(c[i])
  <2>1. PICK i \in DOMAIN c : Settling(c[i]) \/ Finishing(c[i])
    BY <1>11 DEF Orderly, PendingFits
  <2> QED  BY <1>11, <2>1 DEF Orderly, SettlingFits
<1>12. TakingFits(d, s)
  <2>1. \A i, j \in DOMAIN d : Taking(d[i]) /\ Taking(d[j]) => i = j
    BY <1>1, <1>3, <1>6
  <2>2. ASSUME NEW i \in DOMAIN d, Taking(d[i]), s # "stable"
        PROVE  \E j \in 1..i - 1 : Settling(d[j])
    <3>1. i = Len(c) + 1
      BY <1>1, <1>3, <1>6, <2>2
    <3>2. PICK j \in DOMAIN c : Settling(c[j])
      BY <1>11, <2>2
    <3> QED  BY <1>1, <3>1, <3>2
  <2> QED  BY <1>8, <2>1, <2>2 DEF TakingFits
<1>13. PendingFits(d, p)
  BY <1>1, <1>2, <1>6, <1>7 DEF Orderly, PendingFits
<1>14. /\ HasTaking(d) /\ ~HasCreating(d) /\ ~HasCreating(c)
       /\ HasSettling(d) <=> HasSettling(c)
  BY <1>1, <1>2, <1>3, <1>6, <1>7 DEF HasTaking, HasCreating, HasSettling
<1> QED
  BY <1>9, <1>10, <1>11, <1>12, <1>13, <1>14 DEF Orderly, d, HasSettling

\* an offer that crosses one that is given up for it.
LEMMA YieldingJoins ==
  ASSUME NEW c \in Seq(Operations), NEW s, NEW m, NEW p, NEW w,
         Orderly(Responder, c, s, m, p, w), w \/ (c = <<>>),
         m \/ (s = "have-local-offer" /\ ~p), ~HasTaking(c),
         NEW x \in Operations, Taking(x), NEW y \in Operations, Yielding(y)
  PROVE  /\ Orderly(Responder, Append(Append(c, y), x), s, m, p, w)
         /\ HasTaking(Append(Append(c, y), x))
         /\ ~HasSettling(Append(Append(c, y), x)) /\ ~HasSettling(c)
         /\ HasCreating(Append(Append(c, y), x)) <=> HasCreating(c)
<1> DEFINE b == Append(c, y)
           d == Append(b, x)
<1>1. /\ Len(c) \in Nat /\ DOMAIN c = 1..Len(c)
      /\ b \in Seq(Operations)
      /\ Len(b) = Len(c) + 1
      /\ \A i \in 1..Len(c) : b[i] = c[i]
      /\ b[Len(c) + 1] = y
  BY Longer
<1>2. /\ DOMAIN d = 1..(Len(b) + 1)
      /\ \A i \in 1..Len(b) : d[i] = b[i]
      /\ d[Len(b) + 1] = x
  BY <1>1, Longer
<1> HIDE DEF b, d
<1>3. /\ DOMAIN d = 1..(Len(c) + 2)
      /\ \A i \in 1..Len(c) : d[i] = c[i]
      /\ d[Len(c) + 1] = y
      /\ d[Len(c) + 2] = x
      /\ d # <<>>
  BY <1>1, <1>2
<1>4. \A i \in DOMAIN d : \/ i = Len(c) + 2 \/ i = Len(c) + 1
                          \/ (i \in DOMAIN c /\ d[i] = c[i])
  BY <1>1, <1>3
<1>5. /\ ~Creating(x) /\ ~Adding(x) /\ ~Yielding(x) /\ ~Reviving(x) /\ ~Settling(x)
      /\ ~Replying(x) /\ ~Finishing(x)
      /\ ~Creating(y) /\ ~Adding(y) /\ ~Taking(y) /\ ~Reviving(y) /\ ~Settling(y)
      /\ ~Replying(y) /\ ~Finishing(y)
  BY KindsApart
<1>6. \A i \in DOMAIN c : ~Taking(c[i])
  BY DEF HasTaking
<1>7. \A i \in DOMAIN c : ~Yielding(c[i]) /\ ~Reviving(c[i])
  BY <1>6, KindsApart DEF Orderly, YieldingFits, Kinds
<1>8. m => 1 \in DOMAIN c /\ Creating(c[1]) /\ d[1] = c[1]
  <2> SUFFICES ASSUME m PROVE 1 \in DOMAIN c /\ Creating(c[1])
    BY <1>1, <1>3
  <2>1. c # <<>> /\ (Creating(c[1]) \/ Reviving(c[1]))
    BY DEF Orderly, CreatingFirst
  <2>2. 1 \in DOMAIN c
    BY <1>1, <2>1
  <2> QED  BY <1>7, <2>1, <2>2
<1>9. s = "stable" \/ s = "have-local-offer"
  BY <1>8 DEF Orderly, CreatingFirst
<1>10. m => s = "stable"
  BY <1>8 DEF Orderly, CreatingFirst
<1>11. \A i \in DOMAIN c : ~Settling(c[i]) /\ ~Replying(c[i]) /\ ~Finishing(c[i])
  <2>1. \A i \in DOMAIN c : ~Replying(c[i])
    BY <1>9 DEF Orderly, ReplyingAlone
  <2>2. CASE m
    BY <1>8, <1>10, <2>1, <2>2 DEF Orderly, SettlingFits
  <2>3. CASE s = "have-local-offer" /\ ~p
    BY <2>1, <2>3 DEF Orderly, SettlingFits, PendingFits
  <2> QED  BY <2>2, <2>3
<1>12. \A i \in DOMAIN c : Adding(c[i]) \/ Creating(c[i])
  BY <1>6, <1>7, <1>11 DEF Orderly, Kinds
<1>13. CreatingFirst(d, s, m)
  <2>1. \A i \in DOMAIN d : Creating(d[i]) => i \in DOMAIN c /\ Creating(c[i])
    BY <1>3, <1>4, <1>5
  <2> QED  BY <1>3, <1>8, <2>1 DEF Orderly, CreatingFirst
<1>14. \A i \in DOMAIN d : ~Settling(d[i]) /\ ~Replying(d[i]) /\ ~Finishing(d[i])
  BY <1>3, <1>4, <1>5, <1>11
<1>15. ReplyingAlone(d, s) /\ SettlingFits(d, s)
  BY <1>14 DEF ReplyingAlone, SettlingFits
<1>16. ~p
  <2>1. p => m
    OBVIOUS
  <2> QED  BY <1>11 DEF Orderly, PendingFits
<1>17. PendingFits(d, p)
  BY <1>14, <1>16 DEF PendingFits
<1>18. YieldingFits(Responder, d, s)
  <2> SUFFICES ASSUME NEW i \in DOMAIN d, Yielding(d[i])
               PROVE  /\ i + 1 \in DOMAIN d /\ Taking(d[i + 1])
                      /\ s = "have-local-offer" \/ Creating(d[1])
                      /\ \A j \in 1..i - 1 : Adding(d[j]) \/ Creating(d[j])
    BY DEF YieldingFits
  <2>1. i = Len(c) + 1
    BY <1>3, <1>4, <1>5, <1>7
  <2>2. i + 1 = Len(c) + 2 /\ 1..i - 1 = DOMAIN c
    BY <1>1, <2>1
  <2> QED  BY <1>1, <1>3, <1>8, <1>12, <2>1, <2>2
<1>19. TakingFits(d, s)
  <2>1. \A i \in DOMAIN d : Taking(d[i]) => i = Len(c) + 2
    BY <1>3, <1>4, <1>5, <1>6
  <2>2. Len(c) + 1 \in 1..(Len(c) + 2) - 1 /\ Yielding(d[Len(c) + 1])
    BY <1>1, <1>3
  <2> QED  BY <2>1, <2>2 DEF TakingFits
<1>20. Kinds(d, w)
  BY <1>3, <1>4, <1>7 DEF Orderly, Kinds
<1>21. /\ HasTaking(d) /\ ~HasSettling(d) /\ ~HasSettling(c)
       /\ HasCreating(d) <=> HasCreating(c)
  <2>1. Len(c) + 2 \in DOMAIN d
    BY <1>1, <1>3
  <2>2. \A i \in DOMAIN c : i \in DOMAIN d /\ d[i] = c[i]
    BY <1>1, <1>3
  <2>3. \A i \in DOMAIN d : Creating(d[i]) => i \in DOMAIN c /\ Creating(c[i])
    BY <1>3, <1>4, <1>5
  <2> QED
    BY <1>3, <1>11, <1>14, <2>1, <2>2, <2>3 DEF HasTaking, HasSettling, HasCreating
<1> QED
  BY <1>13, <1>15, <1>17, <1>18, <1>19, <1>20, <1>21 DEF Orderly, d, b

\* A chain without operations, and one with the operation that begins.
LEMMA Idle ==
  ASSUME NEW e, NEW s, NEW m, NEW p, NEW w
  PROVE  /\ Orderly(e, <<>>, s, m, p, w) <=> ~m /\ ~p
         /\ ~HasTaking(<<>>) /\ ~HasSettling(<<>>) /\ ~HasCreating(<<>>)
<1>1. DOMAIN <<>> = {}
  OBVIOUS
<1> QED
  BY <1>1 DEF Orderly, Kinds, CreatingFirst, ReplyingAlone, YieldingFits,
     SettlingFits, TakingFits, PendingFits, HasTaking, HasSettling, HasCreating

LEMMA Alone ==
  ASSUME NEW e, NEW s, NEW m, NEW p, NEW w, NEW x \in Operations, ~p,
         \/ Creating(x) /\ s = "stable" /\ m
         \/ Reviving(x) /\ ~w
  PROVE  /\ Orderly(e, <<x>>, s, m, p, w)
         /\ ~HasTaking(<<x>>) /\ ~HasSettling(<<x>>)
         /\ HasCreating(<<x>>) <=> Creating(x)
<1> DEFINE c == <<x>>
<1>1. DOMAIN c = {1} /\ c[1] = x /\ c # <<>>
  OBVIOUS
<1> HIDE DEF c
<1>2. ~Taking(x) /\ ~Settling(x) /\ ~Replying(x) /\ ~Finishing(x) /\ ~Yielding(x)
  BY KindsApart
<1>3. CreatingFirst(c, s, m)
  BY <1>1, KindsApart DEF CreatingFirst
<1>4. Kinds(c, w) /\ ReplyingAlone(c, s) /\ YieldingFits(e, c, s)
      /\ SettlingFits(c, s) /\ TakingFits(c, s) /\ PendingFits(c, p)
  BY <1>1, <1>2
     DEF Kinds, ReplyingAlone, YieldingFits, SettlingFits, TakingFits, PendingFits
<1>5. ~HasTaking(c) /\ ~HasSettling(c) /\ (HasCreating(c) <=> Creating(x))
  BY <1>1, <1>2 DEF HasTaking, HasSettling, HasCreating
<1> QED  BY <1>3, <1>4, <1>5 DEF Orderly, c

-----------------------------------------------------------------------------
(* What is on its way over the channel. *)
Messages == Signals \union Metas
IsOffer(x) == x \in Signals /\ x.type = "offer"
IsAnswer(x) == x \in Signals /\ x.type = "answer"
Describes(x) == IsOffer(x) \/ IsAnswer(x)
HasOffer(w) == \E i \in DOMAIN w : IsOffer(w[i])
HasAnswer(w) == \E i \in DOMAIN w : IsAnswer(w[i])

(* To the responder: an answer to it has been sent before the next offer is, *)
(* and there is one of each at most. *)
Ordered(w) ==
  /\ \A i, j \in DOMAIN w : IsOffer(w[i]) /\ IsAnswer(w[j]) => j < i
  /\ \A i, j \in DOMAIN w : IsOffer(w[i]) /\ IsOffer(w[j]) => i = j

OneAnswer(w) ==
  \A i, j \in DOMAIN w : IsAnswer(w[i]) /\ IsAnswer(w[j]) => i = j

(* To the initiator: an offer of the responder is alive, and then nothing is *)
(* sent after it; or the initiator still waits with an offer of its own,     *)
(* which the responder has got, or has answered later. *)
Crossed(w, alive, waits, got) ==
  \A i \in DOMAIN w : IsOffer(w[i]) =>
    \/ alive /\ \A j \in DOMAIN w : j > i => ~Describes(w[j])
    \/ waits /\ (got \/ \E j \in DOMAIN w : j > i /\ IsAnswer(w[j]))

LEMMA MetasApart ==
  ASSUME NEW x \in Metas
  PROVE  x \notin Signals /\ ~IsOffer(x) /\ ~IsAnswer(x)
<1>1. DOMAIN x = {"room", "track"}
  BY DEF Metas
<1>2. ASSUME x \in Signals PROVE DOMAIN x = {"type", "generation", "tracks", "sections"}
  BY <1>2 DEF Signals
<1> QED  BY <1>1, <1>2 DEF IsOffer, IsAnswer

\* The first message is read.
LEMMA WireRead ==
  ASSUME NEW w \in Seq(Messages), w # <<>>
  PROVE  /\ Tail(w) \in Seq(Messages) /\ Head(w) \in Messages
         /\ Head(w) = w[1]
         /\ HasOffer(w) <=> HasOffer(Tail(w)) \/ IsOffer(Head(w))
         /\ HasAnswer(w) <=> HasAnswer(Tail(w)) \/ IsAnswer(Head(w))
         /\ Ordered(w) => /\ Ordered(Tail(w))
                          /\ IsOffer(Head(w)) => ~HasOffer(Tail(w)) /\ ~HasAnswer(w)
         /\ OneAnswer(w) => /\ OneAnswer(Tail(w))
                            /\ IsAnswer(Head(w)) => ~HasAnswer(Tail(w))
<1> DEFINE v == Tail(w)
<1>1. /\ Len(w) \in Nat /\ Len(w) >= 1 /\ DOMAIN w = 1..Len(w)
      /\ DOMAIN v = 1..(Len(w) - 1) /\ v \in Seq(Messages)
      /\ \A i \in 1..(Len(w) - 1) : v[i] = w[i + 1]
      /\ Head(w) = w[1] /\ w[1] \in Messages
  BY Shorter
<1> HIDE DEF v
<1>2. /\ \A i \in DOMAIN v : i + 1 \in DOMAIN w /\ v[i] = w[i + 1] /\ i + 1 # 1
      /\ \A i \in DOMAIN w : i = 1 \/ (i - 1 \in DOMAIN v /\ v[i - 1] = w[i])
  BY <1>1
<1>3. /\ HasOffer(w) <=> HasOffer(v) \/ IsOffer(w[1])
      /\ HasAnswer(w) <=> HasAnswer(v) \/ IsAnswer(w[1])
  BY <1>1, <1>2 DEF HasOffer, HasAnswer
<1>4. ASSUME Ordered(w) PROVE Ordered(v)
  <2>1. ASSUME NEW i \in DOMAIN v, NEW j \in DOMAIN v, IsOffer(v[i]), IsAnswer(v[j])
        PROVE  j < i
    <3>1. i + 1 \in DOMAIN w /\ j + 1 \in DOMAIN w /\ IsOffer(w[i + 1])
          /\ IsAnswer(w[j + 1])
      BY <1>2, <2>1
    <3>2. j + 1 < i + 1
      BY <3>1, <1>4 DEF Ordered
    <3> QED  BY <1>1, <3>2
  <2>2. ASSUME NEW i \in DOMAIN v, NEW j \in DOMAIN v, IsOffer(v[i]), IsOffer(v[j])
        PROVE  j = i
    <3>1. i + 1 \in DOMAIN w /\ j + 1 \in DOMAIN w /\ IsOffer(w[i + 1])
          /\ IsOffer(w[j + 1])
      BY <1>2, <2>2
    <3>2. j + 1 = i + 1
      BY <3>1, <1>4 DEF Ordered
    <3> QED  BY <1>1, <3>2
  <2> QED  BY <2>1, <2>2 DEF Ordered
<1>5. Ordered(w) /\ IsOffer(w[1]) => ~HasOffer(v) /\ ~HasAnswer(w)
  BY <1>1, <1>2 DEF Ordered, HasOffer, HasAnswer
<1>6. OneAnswer(w) => /\ OneAnswer(v)
                      /\ IsAnswer(w[1]) => ~HasAnswer(v)
  BY <1>1, <1>2 DEF OneAnswer, HasAnswer
<1> QED  BY <1>1, <1>3, <1>4, <1>5, <1>6 DEF v

\* A message is sent.
LEMMA WireSent ==
  ASSUME NEW w \in Seq(Messages), NEW x \in Messages
  PROVE  /\ Append(w, x) \in Seq(Messages)
         /\ HasOffer(Append(w, x)) <=> HasOffer(w) \/ IsOffer(x)
         /\ HasAnswer(Append(w, x)) <=> HasAnswer(w) \/ IsAnswer(x)
         /\ Ordered(w) /\ (IsOffer(x) => ~HasOffer(w))
                       /\ (IsAnswer(x) => ~HasOffer(w)) => Ordered(Append(w, x))
         /\ OneAnswer(w) /\ (IsAnswer(x) => ~HasAnswer(w))
              => OneAnswer(Append(w, x))
<1> DEFINE v == Append(w, x)
<1>1. /\ Len(w) \in Nat /\ DOMAIN w = 1..Len(w) /\ v \in Seq(Messages)
      /\ DOMAIN v = 1..(Len(w) + 1)
      /\ \A i \in 1..Len(w) : v[i] = w[i]
      /\ v[Len(w) + 1] = x
  BY Longer
<1> HIDE DEF v
<1>2. /\ \A i \in DOMAIN w : i \in DOMAIN v /\ v[i] = w[i] /\ i < Len(w) + 1
      /\ \A i \in DOMAIN v : i = Len(w) + 1 \/ (i \in DOMAIN w /\ v[i] = w[i])
      /\ Len(w) + 1 \in DOMAIN v
  BY <1>1
<1>3. /\ HasOffer(v) <=> HasOffer(w) \/ IsOffer(x)
      /\ HasAnswer(v) <=> HasAnswer(w) \/ IsAnswer(x)
  BY <1>1, <1>2 DEF HasOffer, HasAnswer
<1>4. ~(IsOffer(x) /\ IsAnswer(x))
  BY DEF IsOffer, IsAnswer
<1>5. ASSUME Ordered(w), IsOffer(x) => ~HasOffer(w), IsAnswer(x) => ~HasOffer(w)
      PROVE  Ordered(v)
  BY <1>1, <1>2, <1>4, <1>5 DEF Ordered, HasOffer
<1>6. ASSUME OneAnswer(w), IsAnswer(x) => ~HasAnswer(w)
      PROVE  OneAnswer(v)
  BY <1>1, <1>2, <1>6 DEF OneAnswer, HasAnswer
<1> QED  BY <1>1, <1>3, <1>5, <1>6 DEF v

\* Offers that cross: nothing is sent, but the ends go on;
LEMMA CrossedKept ==
  ASSUME NEW w, NEW a, NEW b, NEW g, Crossed(w, a, b, g), NEW a2, NEW b2, NEW g2,
         a => a2 \/ (b2 /\ g2), b /\ g => b2 /\ g2, b /\ HasAnswer(w) => b2
  PROVE  Crossed(w, a2, b2, g2)
  BY DEF Crossed, HasAnswer

\* a message is read;
LEMMA CrossedRead ==
  ASSUME NEW w \in Seq(Messages), w # <<>>, NEW a, NEW b, NEW g, Crossed(w, a, b, g)
  PROVE  /\ Crossed(Tail(w), a, b, g)
         /\ IsOffer(Head(w)) => \/ a /\ ~HasOffer(Tail(w)) /\ ~HasAnswer(Tail(w))
                                \/ b /\ (g \/ HasAnswer(w))
<1> DEFINE v == Tail(w)
<1>1. /\ Len(w) \in Nat /\ Len(w) >= 1 /\ DOMAIN w = 1..Len(w)
      /\ DOMAIN v = 1..(Len(w) - 1)
      /\ \A i \in 1..(Len(w) - 1) : v[i] = w[i + 1]
      /\ Head(w) = w[1]
  BY Shorter
<1> HIDE DEF v
<1>2. ASSUME NEW i \in DOMAIN v, IsOffer(v[i])
      PROVE  \/ a /\ \A j \in DOMAIN v : j > i => ~Describes(v[j])
             \/ b /\ (g \/ \E j \in DOMAIN v : j > i /\ IsAnswer(v[j]))
  <2>1. i + 1 \in DOMAIN w /\ IsOffer(w[i + 1])
    BY <1>1, <1>2
  <2>2. CASE a /\ \A j \in DOMAIN w : j > i + 1 => ~Describes(w[j])
    BY <1>1, <2>2
  <2>3. CASE b /\ g
    BY <2>3
  <2>4. ASSUME b, NEW j \in DOMAIN w, j > i + 1, IsAnswer(w[j])
        PROVE  \E k \in DOMAIN v : k > i /\ IsAnswer(v[k])
    <3>1. j - 1 \in DOMAIN v /\ v[j - 1] = w[j] /\ j - 1 > i
      BY <1>1, <2>4
    <3> QED  BY <3>1, <2>4
  <2> QED  BY <2>1, <2>2, <2>3, <2>4 DEF Crossed
<1>3. ASSUME IsOffer(w[1])
      PROVE  \/ a /\ ~HasOffer(v) /\ ~HasAnswer(v)
             \/ b /\ (g \/ HasAnswer(w))
  <2>1. 1 \in DOMAIN w
    BY <1>1
  <2>2. CASE a /\ \A j \in DOMAIN w : j > 1 => ~Describes(w[j])
    <3>1. ASSUME NEW j \in DOMAIN v PROVE ~Describes(v[j])
      <4>1. j + 1 \in DOMAIN w /\ j + 1 > 1 /\ v[j] = w[j + 1]
        BY <1>1
      <4> QED  BY <4>1, <2>2
    <3> QED  BY <2>2, <3>1 DEF HasOffer, HasAnswer, Describes
  <2> QED  BY <1>3, <2>1, <2>2 DEF Crossed, HasAnswer
<1> QED  BY <1>1, <1>2, <1>3 DEF Crossed, v

\* something else is sent; an offer is, when none was alive; an answer is.
LEMMA CrossedSent ==
  ASSUME NEW w \in Seq(Messages), NEW a \in BOOLEAN, NEW b \in BOOLEAN,
         NEW g \in BOOLEAN, Crossed(w, a, b, g),
         NEW x \in Messages, NEW a2 \in BOOLEAN, NEW g2 \in BOOLEAN,
         \/ ~Describes(x) /\ (a <=> a2) /\ (g => g2)
         \/ IsOffer(x) /\ ~a /\ a2 /\ (g => g2)
         \/ IsAnswer(x) /\ b
  PROVE  Crossed(Append(w, x), a2, b, g2)
<1> DEFINE v == Append(w, x)
<1>1. /\ Len(w) \in Nat /\ DOMAIN w = 1..Len(w)
      /\ DOMAIN v = 1..(Len(w) + 1)
      /\ \A i \in 1..Len(w) : v[i] = w[i]
      /\ v[Len(w) + 1] = x
  BY Longer
<1> HIDE DEF v
<1>2. /\ \A i \in DOMAIN w : i \in DOMAIN v /\ v[i] = w[i] /\ i < Len(w) + 1
      /\ \A i \in DOMAIN v : i = Len(w) + 1 \/ (i \in DOMAIN w /\ v[i] = w[i])
      /\ Len(w) + 1 \in DOMAIN v
      /\ \A j \in DOMAIN v : ~(j > Len(w) + 1)
  BY <1>1
<1>3. ~(IsOffer(x) /\ IsAnswer(x))
  BY DEF IsOffer, IsAnswer
<1>4. CASE ~Describes(x) /\ (a <=> a2) /\ (g => g2)
  BY <1>1, <1>2, <1>4 DEF Crossed, Describes
<1>5. CASE IsOffer(x) /\ ~a /\ a2 /\ (g => g2)
  BY <1>1, <1>2, <1>3, <1>5 DEF Crossed
<1>6. CASE IsAnswer(x) /\ b
  BY <1>1, <1>2, <1>3, <1>6 DEF Crossed
<1> QED  BY <1>4, <1>5, <1>6 DEF v

-----------------------------------------------------------------------------
(* Types, those of chains and messages on their way included. *)
Typed ==
  /\ plan \in Plans
  /\ pc \in [Ends -> Connections]
  /\ chain \in [Ends -> Seq(Operations)]
  /\ peer \in [Ends -> PeerHandles]
  /\ relays \subseteq Ends \X Signals
  /\ wire \in [Ends -> Seq(Messages)]
  /\ owned \in [Ends -> [Rooms -> Tracks]]

Chained(e) ==
  Orderly(e, chain[e], pc[e].state, peer[e].makingOffer,
          peer[e].isSettingRemoteAnswerPending, peer[e].wanted)

OfferRelayed == \E m \in relays : m[1] = Responder /\ IsOffer(m[2])
AnswerRelayed == \E m \in relays : m[1] = Initiator /\ IsAnswer(m[2])

One(b) == IF b THEN 1 ELSE 0

Offering(e) == pc[e].state = "have-local-offer"
Answering(e) == pc[e].state = "have-remote-offer"

(* An offer of the initiator that waits for its answer, or that answer, is in *)
(* one place; an offer of the responder is, unless it crosses one. *)
Turns ==
  /\ One(OfferRelayed) + One(HasOffer(wire[Responder]))
       + One(HasTaking(chain[Responder])) + One(Answering(Responder))
       + One(AnswerRelayed) + One(HasAnswer(wire[Initiator]))
       + One(HasSettling(chain[Initiator]))
       = One(peer[Initiator].wanted /\ Offering(Initiator))
  /\ One(HasTaking(chain[Initiator])) + One(Answering(Initiator))
       + One(HasAnswer(wire[Responder])) + One(HasSettling(chain[Responder]))
       <= One(Offering(Responder))
  /\ HasTaking(chain[Responder]) => ~HasAnswer(wire[Responder])

Alive ==
  /\ Offering(Responder)
  /\ ~HasTaking(chain[Initiator]) /\ ~Answering(Initiator)
  /\ ~HasAnswer(wire[Responder]) /\ ~HasSettling(chain[Responder])
Got == HasTaking(chain[Responder]) \/ Answering(Responder)

Crossing ==
  /\ Crossed(wire[Initiator], Alive, Offering(Initiator), Got)
  /\ Ordered(wire[Responder])
  /\ \A e \in Ends : OneAnswer(wire[e])

(* Over relays goes the first offer, and its answer. *)
Relayed ==
  /\ \A m \in relays : IsOffer(m[2]) => m[1] = Responder
  /\ \A m \in relays : IsAnswer(m[2]) => m[1] = Initiator
  /\ OfferRelayed => ~peer[Responder].wanted
  /\ OfferRelayed \/ AnswerRelayed => pc[Initiator].remote = NoGeneration
  /\ \A m, n \in relays : Describes(m[2]) /\ Describes(n[2]) => m = n

(* The initiator in the pool, and the responder before it has the offer. *)
Pooled ==
  /\ ~peer[Initiator].wanted =>
       /\ relays = {} /\ ~peer[Responder].wanted
       /\ \A e \in Ends : wire[e] = <<>> /\ pc[e].remote = NoGeneration
       /\ ~Answering(Initiator)
       /\ chain[Initiator] # <<>> => \E x \in Operations :
            /\ chain[Initiator] = <<x>>
            /\ \/ Creating(x) /\ pc[Initiator].generation <= MaxRenewals + 1
               \/ Reviving(x) /\ pc[Initiator].generation <= MaxRenewals
            /\ x = Rollback("restart") => Offering(Initiator)
            /\ x = Local("restart") => ~Offering(Initiator)
  /\ ~peer[Responder].wanted =>
       /\ chain[Responder] = <<>> /\ pc[Responder].state = "stable"
       /\ pc[Responder].remote = NoGeneration
  /\ peer[Initiator].wanted /\ pc[Initiator].remote = NoGeneration
       => Offering(Initiator)

Both == peer[Initiator].open /\ peer[Responder].open

(* Until both ends are open only the first offer is made, without media; from *)
(* then on there is none without. *)
Opening ==
  /\ \A e, f \in Ends : peer[e].open => pc[f].remote # NoGeneration
  /\ ~Both =>
       /\ \A e \in Ends : /\ pc[e].added = 0
                          /\ ~HasOffer(wire[e]) /\ ~HasAnswer(wire[e])
       /\ Offering(Initiator) => pc[Initiator].remote = NoGeneration
       /\ HasCreating(chain[Initiator]) => ~peer[Initiator].wanted
       /\ ~Offering(Responder) /\ ~HasCreating(chain[Responder])
  /\ Both => \A e \in Ends :
       /\ HasCreating(chain[e]) => pc[e].added > 0
       /\ Answering(e) => pc[e].sections > 0
       /\ \A o \in ToSet(chain[e]) : Taking(o) => o.signal.sections > 0
       /\ \A x \in ToSet(wire[e]) : Describes(x) => x.sections > 0

(* Descriptions and candidates are of the generation the other end has. *)
Current ==
  /\ pc[Responder].generation = 1
  /\ \A e \in Ends :
       /\ pc[e].remote \in {NoGeneration, pc[Other(e)].generation}
       /\ \A o \in ToSet(chain[e]) :
            /\ o.do = "remote" => o.signal.generation = pc[Other(e)].generation
            /\ o.do = "candidate" => o.signal.generation = pc[e].remote
       /\ \A x \in ToSet(wire[e]) :
            Describes(x) => x.generation = pc[Other(e)].generation
       /\ \A m \in relays : m[1] = e /\ Describes(m[2]) =>
            m[2].generation = pc[Other(e)].generation

PeerInv ==
  /\ Typed
  /\ \A e \in Ends : Chained(e)
  /\ Turns /\ Crossing /\ Relayed /\ Pooled /\ Opening /\ Current
  /\ NeverRejected

-----------------------------------------------------------------------------
LEMMA TwoEnds ==
  /\ Other(Initiator) = Responder /\ Other(Responder) = Initiator
  /\ Initiator # Responder /\ Ends = {Initiator, Responder}
  /\ \A e \in Ends : Other(e) \in Ends /\ Other(e) # e /\ Other(Other(e)) = e
  /\ \A e, f \in Ends : f # e => f = Other(e)
<1>1. Initiator # Responder /\ Ends = {Initiator, Responder}
  BY DEF Ends, Initiator, Responder
<1>2. Other(Initiator) = Responder
  BY <1>1 DEF Other
<1>3. Other(Responder) = Initiator
  BY <1>1 DEF Other
<1> QED  BY <1>1, <1>2, <1>3

\* What operations and signals there are.
LEMMA OperationTypes ==
  /\ Local("create") \in Operations /\ Local("restart") \in Operations
  /\ Local("offer") \in Operations
  /\ Rollback("offer") \in Operations /\ Rollback("restart") \in Operations
  /\ \A g \in Generations : Candidate(g) \in Signals
  /\ \A s \in Signals :
       /\ Op("remote", s, "offer") \in Operations
       /\ Op("remote", s, "answer") \in Operations
       /\ \A f \in {"none", "offer", "answer"} : Op("candidate", s, f) \in Operations
<1>1. 1 \in Generations /\ 0 \in Tracks
  BY BoundsAssumption DEF Generations, Tracks
<1>2. \A g \in Generations : Candidate(g) \in Signals
  BY <1>1 DEF Candidate, Signal, Signals
<1>3. \A s \in Signals :
        \A do \in {"local", "rollback", "remote", "candidate"},
           f \in {"offer", "answer", "create", "restart", "none"} :
             Op(do, s, f) \in Operations
  BY DEF Op, Operations
<1> QED  BY <1>1, <1>2, <1>3 DEF Local, Rollback

\* There is nothing in an empty sequence.
LEMMA Silence ==
  /\ ToSet(<<>>) = {} /\ ~HasOffer(<<>>) /\ ~HasAnswer(<<>>)
  /\ \A a, b, g : Crossed(<<>>, a, b, g)
  /\ Ordered(<<>>) /\ OneAnswer(<<>>)
<1>1. DOMAIN <<>> = {}
  OBVIOUS
<1> QED  BY <1>1 DEF ToSet, HasOffer, HasAnswer, Crossed, Ordered, OneAnswer

\* The connection begins so.
LEMMA PeerInvStarts ==
  ASSUME MediaInit
  PROVE  PeerInv
<1>1. 1 \in Generations /\ 0 \in Tracks
  BY BoundsAssumption DEF Generations, Tracks
<1>2. Typed
  BY <1>1 DEF MediaInit, Init, Typed, Connections, PeerHandles, Messages
<1>3. \A e \in Ends : /\ chain[e] = <<>> /\ wire[e] = <<>>
                      /\ ToSet(chain[e]) = {} /\ ToSet(wire[e]) = {}
                      /\ ~HasOffer(wire[e]) /\ ~HasAnswer(wire[e])
                      /\ ~HasTaking(chain[e]) /\ ~HasSettling(chain[e])
                      /\ ~HasCreating(chain[e])
  <2>1. \A e \in Ends : chain[e] = <<>> /\ wire[e] = <<>>
    BY DEF MediaInit, Init
  <2> QED  BY <2>1, Idle, Silence
<1>4. \A e \in Ends : /\ pc[e].state = "stable" /\ pc[e].remote = NoGeneration
                      /\ pc[e].added = 0 /\ pc[e].generation = 1
                      /\ ~peer[e].makingOffer /\ ~peer[e].wanted /\ ~peer[e].open
                      /\ ~peer[e].isSettingRemoteAnswerPending /\ ~peer[e].failed
  BY DEF MediaInit, Init
<1>5. relays = {} /\ ~OfferRelayed /\ ~AnswerRelayed
  BY DEF MediaInit, Init, OfferRelayed, AnswerRelayed
<1>6. \A e \in Ends : Chained(e)
  BY <1>3, <1>4, Idle DEF Chained
<1>7. ~Offering(Initiator) /\ ~Offering(Responder) /\ ~Answering(Initiator)
      /\ ~Answering(Responder)
  BY <1>4, TwoEnds DEF Offering, Answering
<1>8. Turns
  BY <1>3, <1>4, <1>5, <1>7, TwoEnds DEF Turns, One
<1>9. Crossing
  BY <1>3, Silence, TwoEnds DEF Crossing
<1>10. Relayed /\ Pooled /\ Current /\ NeverRejected
  BY <1>3, <1>4, <1>5, <1>7, TwoEnds DEF Relayed, Pooled, Current, NeverRejected
<1>11. Opening
  BY <1>3, <1>4, <1>7, TwoEnds DEF Opening, Both
<1> QED
  BY <1>2, <1>6, <1>8, <1>9, <1>10, <1>11 DEF PeerInv

(* What follows from the invariant about end f, for use below. *)
Facts(f) ==
  /\ pc[f] \in Connections /\ peer[f] \in PeerHandles
  /\ chain[f] \in Seq(Operations) /\ wire[f] \in Seq(Messages)
  /\ peer[f].wanted \in BOOLEAN /\ peer[f].makingOffer \in BOOLEAN
  /\ peer[f].isSettingRemoteAnswerPending \in BOOLEAN
  /\ pc[f].state \in {"stable", "have-local-offer", "have-remote-offer"}
  /\ pc[f].added \in Nat /\ pc[f].sending \in Nat /\ pc[f].sections \in Nat
  /\ pc[f].generation \in Generations /\ pc[f].generation \in Nat
  /\ pc[f].remote # NoGeneration => pc[f].remote \in Generations
  /\ peer[f].open => /\ peer[f].wanted
                     /\ pc[Initiator].remote # NoGeneration
                     /\ pc[Responder].remote # NoGeneration
  /\ peer[f].wanted => peer[Initiator].wanted
  /\ \A i \in DOMAIN chain[f] :
       Taking(chain[f][i]) \/ Settling(chain[f][i]) \/ Yielding(chain[f][i])
         \/ Adding(chain[f][i]) \/ Replying(chain[f][i]) => peer[f].wanted
  /\ HasTaking(chain[f]) \/ HasSettling(chain[f]) \/ Answering(f) => peer[f].wanted

LEMMA PeerFacts ==
  ASSUME PeerInv
  PROVE  \A f \in Ends : Facts(f)
<1> TAKE f \in Ends
<1>1. /\ pc[f] \in Connections /\ peer[f] \in PeerHandles
      /\ chain[f] \in Seq(Operations) /\ wire[f] \in Seq(Messages)
  BY DEF PeerInv, Typed
<1>2. /\ peer[f].wanted \in BOOLEAN /\ peer[f].makingOffer \in BOOLEAN
      /\ peer[f].isSettingRemoteAnswerPending \in BOOLEAN
      /\ pc[f].state \in {"stable", "have-local-offer", "have-remote-offer"}
      /\ pc[f].added \in Nat /\ pc[f].sending \in Nat /\ pc[f].sections \in Nat
      /\ pc[f].generation \in Generations /\ pc[f].generation \in Nat
      /\ pc[f].remote # NoGeneration => pc[f].remote \in Generations
  BY <1>1, BoundsAssumption DEF Connections, PeerHandles, Tracks, Generations
<1>3. peer[f].open => /\ peer[f].wanted
                      /\ pc[Initiator].remote # NoGeneration
                      /\ pc[Responder].remote # NoGeneration
  BY TwoEnds DEF PeerInv, Opening, Pooled
<1>4. peer[f].wanted => peer[Initiator].wanted
  BY TwoEnds DEF PeerInv, Pooled
<1>5. ASSUME NEW i \in DOMAIN chain[f],
             Taking(chain[f][i]) \/ Settling(chain[f][i]) \/ Yielding(chain[f][i])
               \/ Adding(chain[f][i]) \/ Replying(chain[f][i]),
             ~peer[f].wanted
      PROVE  FALSE
  <2>1. chain[f] # <<>>
    OBVIOUS
  <2>2. f = Initiator
    BY <1>5, <2>1, TwoEnds DEF PeerInv, Pooled
  <2>3. PICK x \in Operations : chain[f] = <<x>> /\ (Creating(x) \/ Reviving(x))
    BY <1>5, <2>1, <2>2 DEF PeerInv, Pooled
  <2>4. chain[f][i] = x
    BY <2>3
  <2> QED  BY <1>5, <2>3, <2>4, KindsApart
<1>6. HasTaking(chain[f]) \/ HasSettling(chain[f]) \/ Answering(f) => peer[f].wanted
  <2>1. Answering(f) => peer[f].wanted
    BY TwoEnds DEF PeerInv, Pooled, Answering
  <2> QED  BY <1>5, <2>1 DEF HasTaking, HasSettling
<1> QED  BY <1>1, <1>2, <1>3, <1>4, <1>5, <1>6 DEF Facts

(* What an offer that waits for its answer leaves out. *)
TurnFacts ==
  /\ HasTaking(chain[Initiator]) /\ Offering(Initiator)
       => HasSettling(chain[Initiator])
  /\ HasTaking(chain[Initiator]) \/ Answering(Initiator)
       \/ HasAnswer(wire[Responder]) \/ HasSettling(chain[Responder])
       => Offering(Responder) /\ Both
  /\ OfferRelayed \/ HasOffer(wire[Responder]) \/ HasTaking(chain[Responder])
       \/ Answering(Responder) \/ AnswerRelayed \/ HasAnswer(wire[Initiator])
       \/ HasSettling(chain[Initiator])
       => Offering(Initiator) /\ peer[Initiator].wanted
  /\ HasTaking(chain[Responder]) \/ Answering(Responder)
       => ~HasAnswer(wire[Responder])

LEMMA TurnsTaken ==
  ASSUME PeerInv
  PROVE  TurnFacts
<1>1. ASSUME HasTaking(chain[Initiator]), Offering(Initiator)
      PROVE  HasSettling(chain[Initiator])
  <2>1. Orderly(Initiator, chain[Initiator], "have-local-offer",
                peer[Initiator].makingOffer,
                peer[Initiator].isSettingRemoteAnswerPending,
                peer[Initiator].wanted)
    BY <1>1, TwoEnds DEF PeerInv, Chained, Offering
  <2>2. PICK i \in DOMAIN chain[Initiator] : Taking(chain[Initiator][i])
    BY <1>1 DEF HasTaking
  <2>3. PICK j \in 1..i - 1 :
          Settling(chain[Initiator][j]) \/ Yielding(chain[Initiator][j])
    BY <2>1, <2>2 DEF Orderly, TakingFits
  <2>4. j \in DOMAIN chain[Initiator]
    BY TwoEnds DEF PeerInv, Typed
  <2>5. ~Yielding(chain[Initiator][j])
    BY <2>1, <2>4, TwoEnds DEF Orderly, YieldingFits
  <2> QED  BY <2>3, <2>4, <2>5 DEF HasSettling
<1>2. /\ HasTaking(chain[Initiator]) \/ Answering(Initiator)
           \/ HasAnswer(wire[Responder]) \/ HasSettling(chain[Responder])
           => Offering(Responder)
      /\ OfferRelayed \/ HasOffer(wire[Responder]) \/ HasTaking(chain[Responder])
           \/ Answering(Responder) \/ AnswerRelayed \/ HasAnswer(wire[Initiator])
           \/ HasSettling(chain[Initiator])
           => Offering(Initiator) /\ peer[Initiator].wanted
  BY DEF PeerInv, Turns, One
<1>3. Offering(Responder) => Both
  BY DEF PeerInv, Opening
<1>4. HasTaking(chain[Responder]) \/ Answering(Responder)
        => ~HasAnswer(wire[Responder])
  <2>1. Answering(Responder) => ~Offering(Responder)
    BY DEF Answering, Offering
  <2> QED  BY <1>2, <2>1 DEF PeerInv, Turns
<1> QED  BY <1>1, <1>2, <1>3, <1>4 DEF TurnFacts

\* createOffer: a chain begins.
LEMMA createOfferKeeps ==
  ASSUME PeerInv, NEW e \in Ends, createOffer(e), UNCHANGED <<plan, owned>>
  PROVE  PeerInv'
<1>1. /\ \A f \in Ends : /\ pc'[f].state = pc[f].state
                         /\ pc'[f].generation = pc[f].generation
                         /\ pc'[f].remote = pc[f].remote
                         /\ pc'[f].added = pc[f].added
                         /\ pc'[f].sections = pc[f].sections
      /\ pc' \in [Ends -> Connections]
  BY DEF createOffer, PeerInv, Typed, Connections
<1>2. /\ \A f \in Ends : /\ peer'[f].wanted = peer[f].wanted
                         /\ peer'[f].open = peer[f].open
                         /\ peer'[f].failed = peer[f].failed
                         /\ peer'[f].isSettingRemoteAnswerPending
                              = peer[f].isSettingRemoteAnswerPending
      /\ peer'[e].makingOffer = TRUE
      /\ \A f \in Ends : f # e => peer'[f] = peer[f]
      /\ peer' \in [Ends -> PeerHandles]
  BY DEF createOffer, PeerInv, Typed, PeerHandles
<1>3. /\ chain[e] = <<>> /\ chain'[e] = <<Local("create")>>
      /\ \A f \in Ends : f # e => chain'[f] = chain[f]
      /\ chain' \in [Ends -> Seq(Operations)]
      /\ relays' = relays /\ wire' = wire
  BY OperationTypes DEF createOffer, PeerInv, Typed
<1>4. pc[e].state = "stable" /\ NeedsNegotiation(e) /\ Facts(e)
  BY PeerFacts DEF createOffer
<1>5. Typed' /\ NeverRejected'
  BY <1>1, <1>2, <1>3 DEF Typed, PeerInv, NeverRejected
<1>6. Orderly(e, chain[e], pc[e].state, peer[e].makingOffer,
              peer[e].isSettingRemoteAnswerPending, peer[e].wanted)
  BY DEF PeerInv, Chained
<1>7. ~peer[e].isSettingRemoteAnswerPending
  BY <1>3, <1>6, Idle
<1>8. Creating(Local("create"))
  BY DEF Creating
<1>9. /\ ~HasTaking(chain'[e]) /\ ~HasTaking(chain[e])
      /\ ~HasSettling(chain'[e]) /\ ~HasSettling(chain[e])
      /\ HasCreating(chain'[e])
      /\ Orderly(e, chain'[e], pc[e].state, TRUE,
                 peer[e].isSettingRemoteAnswerPending, peer[e].wanted)
  BY <1>3, <1>4, <1>7, <1>8, Idle, Alone, OperationTypes
<1>10. ASSUME NEW f \in Ends PROVE Chained(f)'
  <2>1. CASE f = e
    BY <1>1, <1>2, <1>9, <2>1 DEF Chained
  <2>2. CASE f # e
    BY <1>1, <1>2, <1>3, <2>2 DEF Chained, PeerInv
  <2> QED  BY <2>1, <2>2
<1>11. \A f \in Ends : /\ HasTaking(chain'[f]) <=> HasTaking(chain[f])
                       /\ HasSettling(chain'[f]) <=> HasSettling(chain[f])
                       /\ f # e => (HasCreating(chain'[f]) <=> HasCreating(chain[f]))
                       /\ Offering(f)' <=> Offering(f)
                       /\ Answering(f)' <=> Answering(f)
  BY <1>1, <1>3, <1>9 DEF Offering, Answering
<1>12. (OfferRelayed' <=> OfferRelayed) /\ (AnswerRelayed' <=> AnswerRelayed)
  BY <1>3 DEF OfferRelayed, AnswerRelayed
<1>13. Turns'
  BY <1>2, <1>3, <1>11, <1>12, TwoEnds DEF PeerInv, Turns, One
<1>14. (Alive' <=> Alive) /\ (Got' <=> Got)
  BY <1>3, <1>11, TwoEnds DEF Alive, Got
<1>15. Crossing'
  <2>1. Crossed(wire[Initiator], Alive', Offering(Initiator)', Got')
    BY <1>11, <1>14, TwoEnds, CrossedKept DEF PeerInv, Crossing
  <2> QED  BY <1>3, <2>1 DEF PeerInv, Crossing
<1>16. Relayed'
  BY <1>1, <1>2, <1>3, <1>12, TwoEnds DEF PeerInv, Relayed
<1>17. /\ e = Responder => Both /\ pc[e].added > 0
       /\ Both => pc[e].added > 0
       /\ ~Both => ~peer[Initiator].wanted
       /\ ~peer[e].wanted => e = Initiator
  BY <1>4, TwoEnds DEF PeerInv, Pooled, Opening, NeedsNegotiation, Both, Facts, Offering
<1>18. Pooled'
  <2>1. ~peer'[Initiator].wanted /\ chain'[Initiator] # <<>> =>
          \E x \in Operations :
            /\ chain'[Initiator] = <<x>>
            /\ \/ Creating(x) /\ pc'[Initiator].generation <= MaxRenewals + 1
               \/ Reviving(x) /\ pc'[Initiator].generation <= MaxRenewals
            /\ x = Rollback("restart") => Offering(Initiator)'
            /\ x = Local("restart") => ~Offering(Initiator)'
    <3>1. CASE e = Initiator
      <4>1. /\ Local("create") # Rollback("restart")
            /\ Local("create") # Local("restart")
        BY DEF Local, Rollback, Op
      <4>2. pc'[Initiator].generation <= MaxRenewals + 1
        BY <1>1, <1>4, <3>1 DEF Facts, Generations
      <4> QED  BY <1>3, <1>8, <3>1, <4>1, <4>2, OperationTypes
    <3>2. CASE e # Initiator
      BY <1>1, <1>2, <1>3, <1>11, <3>2, TwoEnds DEF PeerInv, Pooled
    <3> QED  BY <3>1, <3>2
  <2>2. ~peer'[Responder].wanted => chain'[Responder] = <<>>
    BY <1>2, <1>3, <1>17, TwoEnds DEF PeerInv, Pooled
  <2> QED  BY <1>1, <1>2, <1>3, <1>11, <2>1, <2>2, TwoEnds DEF PeerInv, Pooled
<1>19. Both' <=> Both
  BY <1>2, TwoEnds DEF Both
<1>20. \A f \in Ends : \A o \in ToSet(chain'[f]) :
         o \in ToSet(chain[f]) \/ (o = Local("create") /\ f = e)
  <2>1. ToSet(<<Local("create")>>) = {Local("create")}
    BY DEF ToSet
  <2> QED  BY <1>3, <2>1
<1>21. ~Taking(Local("create")) /\ Local("create").do = "local"
  BY <1>8, KindsApart DEF Local, Op
<1>22. Opening'
  BY <1>1, <1>2, <1>3, <1>11, <1>17, <1>19, <1>20, <1>21, TwoEnds DEF PeerInv, Opening
<1>23. Current'
  BY <1>1, <1>3, <1>20, <1>21, TwoEnds DEF PeerInv, Current
<1> QED
  BY <1>5, <1>10, <1>13, <1>15, <1>16, <1>18, <1>22, <1>23 DEF PeerInv

\* renewOffer: the offer of a peer in the pool is to be made anew.
LEMMA renewOfferKeeps ==
  ASSUME PeerInv, NEW e \in Ends, renewOffer(e), UNCHANGED <<plan, owned>>
  PROVE  PeerInv'
<1>1. pc' = pc /\ relays' = relays /\ wire' = wire
  BY DEF renewOffer
<1>2. /\ \A f \in Ends : /\ peer'[f].wanted = peer[f].wanted
                         /\ peer'[f].open = peer[f].open
                         /\ peer'[f].failed = peer[f].failed
                         /\ peer'[f].isSettingRemoteAnswerPending
                              = peer[f].isSettingRemoteAnswerPending
      /\ \A f \in Ends : f # e => peer'[f] = peer[f]
      /\ peer' \in [Ends -> PeerHandles]
      /\ ~peer[e].wanted
  <2>1. peer \in [Ends -> PeerHandles]
    BY DEF PeerInv, Typed
  <2> QED  BY <2>1 DEF renewOffer, PeerHandles
<1>3. /\ chain[e] = <<>> /\ chain'[e] = <<Rollback("restart")>>
      /\ \A f \in Ends : f # e => chain'[f] = chain[f]
      /\ chain' \in [Ends -> Seq(Operations)]
  BY OperationTypes DEF renewOffer, PeerInv, Typed
<1>4. Offering(e) /\ pc[e].generation <= plan.renewals /\ Facts(e)
  BY PeerFacts DEF renewOffer, Offering
<1>5. Typed' /\ NeverRejected'
  BY <1>1, <1>2, <1>3 DEF Typed, PeerInv, NeverRejected
<1>6. Orderly(e, chain[e], pc[e].state, peer[e].makingOffer,
              peer[e].isSettingRemoteAnswerPending, peer[e].wanted)
  BY DEF PeerInv, Chained
<1>7. ~peer[e].isSettingRemoteAnswerPending
  BY <1>3, <1>6, Idle
<1>8. Reviving(Rollback("restart")) /\ ~Creating(Rollback("restart"))
  BY KindsApart DEF Reviving
<1>9. /\ ~HasTaking(chain'[e]) /\ ~HasTaking(chain[e])
      /\ ~HasSettling(chain'[e]) /\ ~HasSettling(chain[e])
      /\ ~HasCreating(chain'[e]) /\ ~HasCreating(chain[e])
      /\ Orderly(e, chain'[e], pc[e].state, peer'[e].makingOffer,
                 peer[e].isSettingRemoteAnswerPending, peer[e].wanted)
  BY <1>2, <1>3, <1>7, <1>8, Idle, Alone, OperationTypes
<1>10. ASSUME NEW f \in Ends PROVE Chained(f)'
  <2>1. CASE f = e
    BY <1>1, <1>2, <1>9, <2>1 DEF Chained
  <2>2. CASE f # e
    BY <1>1, <1>2, <1>3, <2>2 DEF Chained, PeerInv
  <2> QED  BY <2>1, <2>2
<1>11. \A f \in Ends : /\ HasTaking(chain'[f]) <=> HasTaking(chain[f])
                       /\ HasSettling(chain'[f]) <=> HasSettling(chain[f])
                       /\ HasCreating(chain'[f]) <=> HasCreating(chain[f])
                       /\ Offering(f)' <=> Offering(f)
                       /\ Answering(f)' <=> Answering(f)
  BY <1>1, <1>3, <1>9 DEF Offering, Answering
<1>12. (OfferRelayed' <=> OfferRelayed) /\ (AnswerRelayed' <=> AnswerRelayed)
       /\ (Both' <=> Both)
  BY <1>1, <1>2, TwoEnds DEF OfferRelayed, AnswerRelayed, Both
<1>13. Turns'
  BY <1>1, <1>2, <1>11, <1>12, TwoEnds DEF PeerInv, Turns, One
<1>14. (Alive' <=> Alive) /\ (Got' <=> Got)
  BY <1>1, <1>11, TwoEnds DEF Alive, Got
<1>15. Crossing'
  <2>1. Crossed(wire[Initiator], Alive', Offering(Initiator)', Got')
    BY <1>11, <1>14, TwoEnds, CrossedKept DEF PeerInv, Crossing
  <2> QED  BY <1>1, <2>1 DEF PeerInv, Crossing
<1>16. Relayed'
  BY <1>1, <1>2, <1>12, TwoEnds DEF PeerInv, Relayed
<1>17. e = Initiator /\ pc[e].generation <= MaxRenewals
  <2>1. e = Initiator
    BY <1>2, <1>4, TwoEnds DEF PeerInv, Pooled, Offering
  <2>2. plan.renewals \in 0..MaxRenewals
    BY RenewalsAssumption DEF PeerInv, Typed
  <2> QED  BY <1>4, <2>1, <2>2, BoundsAssumption DEF Facts
<1>18. Pooled'
  <2>1. /\ chain'[Initiator] = <<Rollback("restart")>>
        /\ Rollback("restart") # Local("restart")
        /\ chain'[Responder] = chain[Responder]
    BY <1>3, <1>17, TwoEnds DEF Local, Rollback, Op
  <2> QED
    BY <1>1, <1>2, <1>4, <1>8, <1>11, <1>17, <2>1, TwoEnds, OperationTypes
       DEF PeerInv, Pooled
<1>19. \A f \in Ends : \A o \in ToSet(chain'[f]) :
         o \in ToSet(chain[f]) \/ o = Rollback("restart")
  <2>1. ToSet(<<Rollback("restart")>>) = {Rollback("restart")}
    BY DEF ToSet
  <2> QED  BY <1>3, <2>1
<1>20. ~Taking(Rollback("restart")) /\ Rollback("restart").do = "rollback"
  BY <1>8, KindsApart DEF Rollback, Op
<1>21. Opening'
  BY <1>1, <1>2, <1>11, <1>12, <1>19, <1>20, TwoEnds DEF PeerInv, Opening
<1>22. Current'
  BY <1>1, <1>19, <1>20, TwoEnds DEF PeerInv, Current
<1> QED
  BY <1>5, <1>10, <1>13, <1>15, <1>16, <1>18, <1>21, <1>22 DEF PeerInv

\* sendOffer: the first offer is on its way.
LEMMA sendOfferKeeps ==
  ASSUME PeerInv, NEW e \in Ends, sendOffer(e), UNCHANGED <<plan, owned>>
  PROVE  PeerInv'
<1> DEFINE offer == Signal("offer", pc[e].generation, 0, 0)
<1>1. pc' = pc /\ chain' = chain /\ wire' = wire
  BY DEF sendOffer
<1>2. /\ \A f \in Ends : /\ peer'[f].makingOffer = peer[f].makingOffer
                         /\ peer'[f].open = peer[f].open
                         /\ peer'[f].failed = peer[f].failed
                         /\ peer'[f].isSettingRemoteAnswerPending
                              = peer[f].isSettingRemoteAnswerPending
      /\ \A f \in Ends : f # e => peer'[f] = peer[f]
      /\ peer' \in [Ends -> PeerHandles]
      /\ ~peer[e].wanted /\ peer'[e].wanted /\ chain[e] = <<>>
  <2>1. peer \in [Ends -> PeerHandles]
    BY DEF PeerInv, Typed
  <2> QED  BY <2>1 DEF sendOffer, PeerHandles
<1>3. Offering(e) /\ Facts(e) /\ peer[e] \in PeerHandles
  BY PeerFacts DEF sendOffer, Offering, Facts
<1>4. e = Initiator /\ ~peer[Responder].wanted
  BY <1>2, <1>3, TwoEnds DEF PeerInv, Pooled, Offering
<1>5. /\ relays = {} /\ \A f \in Ends : pc[f].remote = NoGeneration
      /\ ~peer[Responder].wanted
  BY <1>2, <1>4, TwoEnds DEF PeerInv, Pooled
<1>6. offer \in Signals /\ IsOffer(offer) /\ ~IsAnswer(offer) /\ Describes(offer)
      /\ offer.generation = pc[e].generation
  BY <1>3, BoundsAssumption
     DEF Signal, Signals, Tracks, IsOffer, IsAnswer, Describes, Facts
<1> HIDE DEF offer
<1>7. \A g \in Generations : Candidate(g) \in Signals /\ ~Describes(Candidate(g))
  BY OperationTypes DEF Candidate, Signal, Describes, IsOffer, IsAnswer
<1>8. /\ \A m \in relays' : /\ m[1] = Responder /\ m[2] \in Signals
                            /\ m = <<Responder, offer>> \/ ~Describes(m[2])
      /\ <<Responder, offer>> \in relays'
      /\ relays' \subseteq Ends \X Signals
  <2>1. peer[e].gathered \subseteq Generations
    BY <1>3 DEF PeerHandles
  <2>2. PICK described \in SUBSET peer[e].gathered :
           relays' = {<<Responder, offer>>}
                       \union {<<Responder, Candidate(g)>> : g \in described}
    BY <1>4, <1>5, TwoEnds DEF sendOffer, offer
  <2> QED  BY <1>6, <1>7, <2>1, <2>2, TwoEnds
<1>9. Typed' /\ NeverRejected'
  BY <1>1, <1>2, <1>8 DEF Typed, PeerInv, NeverRejected
<1>10. ASSUME NEW f \in Ends PROVE Chained(f)'
  <2>1. CASE f = e
    <3>1. Orderly(e, <<>>, pc[e].state, peer[e].makingOffer,
                  peer[e].isSettingRemoteAnswerPending, peer[e].wanted)
      BY <1>2 DEF PeerInv, Chained
    <3>2. Orderly(e, <<>>, pc[e].state, peer[e].makingOffer,
                  peer[e].isSettingRemoteAnswerPending, peer'[e].wanted)
      BY <3>1, Idle
    <3> QED  BY <1>1, <1>2, <2>1, <3>2 DEF Chained
  <2>2. CASE f # e
    BY <1>1, <1>2, <2>2 DEF Chained, PeerInv
  <2> QED  BY <2>1, <2>2
<1>11. \A f \in Ends : (Offering(f)' <=> Offering(f)) /\ (Answering(f)' <=> Answering(f))
  BY <1>1 DEF Offering, Answering
<1>12. /\ ~OfferRelayed /\ ~AnswerRelayed /\ OfferRelayed' /\ ~AnswerRelayed'
       /\ (Both' <=> Both)
  BY <1>2, <1>5, <1>6, <1>8, TwoEnds DEF OfferRelayed, AnswerRelayed, Both
<1>13. Turns'
  BY <1>1, <1>2, <1>3, <1>4, <1>11, <1>12, TwoEnds DEF PeerInv, Turns, One
<1>14. (Alive' <=> Alive) /\ (Got' <=> Got)
  BY <1>1, <1>11, TwoEnds DEF Alive, Got
<1>15. Crossing'
  <2>1. Crossed(wire[Initiator], Alive', Offering(Initiator)', Got')
    BY <1>11, <1>14, TwoEnds, CrossedKept DEF PeerInv, Crossing
  <2> QED  BY <1>1, <2>1 DEF PeerInv, Crossing
<1>16. Relayed'
  <2>1. ~peer'[Responder].wanted
    BY <1>2, <1>4, TwoEnds
  <2> QED  BY <1>1, <1>5, <1>6, <1>8, <1>12, <2>1, TwoEnds DEF Relayed, Describes
<1>17. Pooled'
  <2>1. ~peer'[Responder].wanted /\ peer'[Initiator].wanted
    BY <1>2, <1>4, TwoEnds
  <2> QED  BY <1>1, <1>3, <1>4, <1>5, <1>11, <2>1, TwoEnds DEF PeerInv, Pooled
<1>18. Opening'
  <2>1. ~HasCreating(chain[Initiator])
    BY <1>2, <1>4, Idle
  <2> QED  BY <1>1, <1>2, <1>11, <1>12, <2>1, TwoEnds DEF PeerInv, Opening
<1>19. Current'
  BY <1>1, <1>4, <1>6, <1>8, TwoEnds DEF PeerInv, Current
<1> QED
  BY <1>9, <1>10, <1>13, <1>15, <1>16, <1>17, <1>18, <1>19 DEF PeerInv

\* What the first operation of a chain is.
LEMMA FirstKind ==
  ASSUME PeerInv, NEW e \in Ends, chain[e] # <<>>
  PROVE  /\ chain[e] \in Seq(Operations) /\ 1 \in DOMAIN chain[e]
         /\ Head(chain[e]) = chain[e][1] /\ chain[e][1] \in Operations
         /\ chain[e][1] \in ToSet(chain[e])
         /\ Tail(chain[e]) \in Seq(Operations)
         /\ ToSet(Tail(chain[e])) \subseteq ToSet(chain[e])
         /\ Orderly(e, chain[e], pc[e].state, peer[e].makingOffer,
                    peer[e].isSettingRemoteAnswerPending, peer[e].wanted)
         /\ chain[e][1].do = "local" => \/ Creating(chain[e][1])
                                        \/ chain[e][1] = Local("restart")
                                        \/ chain[e][1] = Local("offer")
         /\ chain[e][1].do = "rollback" => \/ Yielding(chain[e][1])
                                           \/ chain[e][1] = Rollback("restart")
         /\ chain[e][1].do = "remote" => \/ Taking(chain[e][1])
                                         \/ Settling(chain[e][1])
         /\ chain[e][1].do = "candidate" => Adding(chain[e][1])
         /\ Reviving(chain[e][1]) => e = Initiator /\ ~peer[e].wanted
<1>1. /\ chain[e] \in Seq(Operations) /\ 1 \in DOMAIN chain[e]
      /\ Head(chain[e]) = chain[e][1] /\ chain[e][1] \in Operations
      /\ chain[e][1] \in ToSet(chain[e]) /\ Tail(chain[e]) \in Seq(Operations)
      /\ ToSet(Tail(chain[e])) \subseteq ToSet(chain[e])
  <2>1. chain[e] \in Seq(Operations)
    BY DEF PeerInv, Typed
  <2> QED  BY <2>1, Shorter
<1>2. Orderly(e, chain[e], pc[e].state, peer[e].makingOffer,
              peer[e].isSettingRemoteAnswerPending, peer[e].wanted)
  BY DEF PeerInv, Chained
<1> DEFINE o == chain[e][1]
<1>3. \/ Creating(o) \/ Yielding(o) \/ Taking(o) \/ Settling(o)
      \/ Adding(o) \/ Replying(o)
      \/ (Reviving(o) /\ ~peer[e].wanted)
  BY <1>1, <1>2 DEF Orderly, Kinds
<1>4. /\ Creating(o) => o.do = "local" /\ ~Reviving(o)
      /\ Yielding(o) => o.do = "rollback" /\ ~Reviving(o)
      /\ Taking(o) => o.do = "remote" /\ ~Reviving(o)
      /\ Settling(o) => o.do = "remote" /\ ~Reviving(o)
      /\ Adding(o) => o.do = "candidate" /\ ~Reviving(o)
      /\ Replying(o) => ((o = Local("offer") /\ o.do = "local") \/ Adding(o))
                        /\ ~Reviving(o)
      /\ Reviving(o) => \/ o = Local("restart") /\ o.do = "local"
                        \/ o = Rollback("restart") /\ o.do = "rollback"
  BY KindsApart
     DEF Creating, Yielding, Taking, Settling, Adding, Replying, Reviving,
         Local, Rollback, Op
<1>5. Reviving(o) => e = Initiator /\ ~peer[e].wanted
  <2>1. ~peer[Responder].wanted => chain[Responder] = <<>>
    BY DEF PeerInv, Pooled
  <2> QED  BY <1>3, <1>4, <2>1, TwoEnds
<1> QED
  BY <1>1, <1>2, <1>3, <1>4, <1>5

\* What Add returns, of candidates of which one generation fits.
LEMMA Added ==
  ASSUME NEW e, NEW candidates
  PROVE  /\ Add(e, candidates)[1] =
              IF pc[e].remote \in candidates
                THEN <<Op("candidate", Candidate(pc[e].remote), "none")>>
                ELSE <<>>
         /\ Add(e, candidates)[2] = candidates \ {pc[e].remote}
<1> DEFINE now == {g \in candidates : canApplyRemoteCandidate(e, g)}
           ops == {Op("candidate", Candidate(g), "none") : g \in now}
<1>1. now = IF pc[e].remote \in candidates THEN {pc[e].remote} ELSE {}
  BY DEF canApplyRemoteCandidate
<1>2. ops = IF pc[e].remote \in candidates
              THEN {Op("candidate", Candidate(pc[e].remote), "none")} ELSE {}
  BY <1>1
<1>3. candidates \ now = candidates \ {pc[e].remote}
  BY <1>1
<1>4. SetToSeq(ops) = IF pc[e].remote \in candidates
                        THEN <<Op("candidate", Candidate(pc[e].remote), "none")>>
                        ELSE <<>>
  BY <1>2, Few
<1>5. Add(e, candidates) = <<SetToSeq(ops), candidates \ now>>
  BY DEF Add
<1> QED  BY <1>3, <1>4, <1>5

\* setLocalDescription, of an offer that is wanted: it is sent, or kept in the
\* pool.
LEMMA creatingKeeps ==
  ASSUME PeerInv, NEW e \in Ends, chain[e] # <<>>, setLocalDescription(e),
         Creating(chain[e][1]), UNCHANGED <<plan, owned>>
  PROVE  PeerInv'
<1> DEFINE x == Signal("offer", pc[e].generation, pc[e].added,
                       Larger(pc[e].sections, pc[e].added))
<1>1. Facts(e) /\ (\A f \in Ends : Facts(f)) /\ TurnFacts
  BY PeerFacts, TurnsTaken
<1>2. /\ pc[e].state = "stable"
      /\ Orderly(e, Tail(chain[e]), "have-local-offer", FALSE,
                 peer[e].isSettingRemoteAnswerPending, peer[e].wanted)
      /\ HasTaking(Tail(chain[e])) <=> HasTaking(chain[e])
      /\ ~HasSettling(Tail(chain[e])) /\ ~HasSettling(chain[e])
      /\ ~HasCreating(Tail(chain[e]))
  BY FirstKind, CreatingDone
<1>3. /\ Head(chain[e]) = chain[e][1] /\ chain[e][1].for = "create"
      /\ Tail(chain[e]) \in Seq(Operations)
      /\ HasCreating(chain[e])
      /\ ToSet(Tail(chain[e])) \subseteq ToSet(chain[e])
  BY FirstKind DEF Creating, Local, Op, HasCreating
<1>4. Add(e, {})[1] = <<>> /\ Add(e, {})[2] = {}
  <2>1. /\ Add(e, {})[1] =
             IF pc[e].remote \in {}
               THEN <<Op("candidate", Candidate(pc[e].remote), "none")>>
               ELSE <<>>
        /\ Add(e, {})[2] = {} \ {pc[e].remote}
    BY Added
  <2> QED  BY <2>1
<1>5. /\ pc' = [pc EXCEPT ![e] = [pc[e] EXCEPT !.state = "have-local-offer",
                                              !.generation = pc[e].generation + 0,
                                              !.offering = pc[e].added]]
      /\ emitSignal(e, Signal("offer", pc[e].generation + 0, pc[e].added,
                              Larger(pc[e].sections, pc[e].added)))
      /\ peer' = [peer EXCEPT ![e].makingOffer = FALSE,
                              ![e].buffered = @ \ {},
                              ![e].held = @ \union {}]
      /\ chain' = [chain EXCEPT ![e] = Tail(@) \o <<>>]
  BY <1>2, <1>3, <1>4 DEF setLocalDescription
<1>6. /\ pc' \in [Ends -> Connections]
      /\ pc'[e].state = "have-local-offer"
      /\ \A f \in Ends : f # e => pc'[f] = pc[f]
      /\ \A f \in Ends : /\ pc'[f].generation = pc[f].generation
                         /\ pc'[f].remote = pc[f].remote
                         /\ pc'[f].added = pc[f].added
                         /\ pc'[f].sections = pc[f].sections
  <2>1. pc \in [Ends -> Connections] /\ pc[e].generation + 0 = pc[e].generation
    BY <1>1 DEF PeerInv, Typed, Facts
  <2> QED  BY <1>5, <2>1 DEF Connections
<1>7. /\ \A f \in Ends : /\ peer'[f].wanted = peer[f].wanted
                         /\ peer'[f].open = peer[f].open
                         /\ peer'[f].failed = peer[f].failed
                         /\ peer'[f].isSettingRemoteAnswerPending
                              = peer[f].isSettingRemoteAnswerPending
      /\ \A f \in Ends : f # e => peer'[f] = peer[f]
      /\ peer' \in [Ends -> PeerHandles]
      /\ peer'[e].makingOffer = FALSE
  <2>1. peer \in [Ends -> PeerHandles]
        /\ peer[e].buffered \ {} = peer[e].buffered
        /\ peer[e].held \union {} = peer[e].held
    BY DEF PeerInv, Typed
  <2>2. peer' = [peer EXCEPT ![e] = [peer[e] EXCEPT !.makingOffer = FALSE,
                                       !.buffered = peer[e].buffered,
                                       !.held = peer[e].held]]
    BY <1>5, <2>1
  <2> QED  BY <2>1, <2>2 DEF PeerHandles
<1>8. /\ chain'[e] = Tail(chain[e])
      /\ \A f \in Ends : f # e => chain'[f] = chain[f]
      /\ chain' \in [Ends -> Seq(Operations)]
  <2>1. chain \in [Ends -> Seq(Operations)] /\ Tail(chain[e]) \o <<>> = Tail(chain[e])
    BY <1>3 DEF PeerInv, Typed
  <2> QED  BY <1>3, <1>5, <2>1
<1>9. /\ x \in Signals /\ IsOffer(x) /\ Describes(x) /\ ~IsAnswer(x)
      /\ x.generation = pc[e].generation
      /\ Both => x.sections > 0
  <2>1. Both => pc[e].added > 0
    BY <1>3 DEF PeerInv, Opening
  <2>2. pc[e].added \in Tracks /\ pc[e].sections \in Tracks
    BY <1>1 DEF Facts, Connections
  <2>3. /\ Larger(pc[e].sections, pc[e].added) \in Tracks
        /\ pc[e].added > 0 => Larger(pc[e].sections, pc[e].added) > 0
    BY <2>2, BoundsAssumption DEF Larger, Tracks
  <2> QED
    BY <1>1, <2>1, <2>2, <2>3
       DEF Signal, Signals, IsOffer, IsAnswer, Describes, Facts
<1>10. emitSignal(e, x)
  <2>1. pc[e].generation + 0 = pc[e].generation
    BY <1>1 DEF Facts
  <2> QED  BY <1>5, <2>1
<1> HIDE DEF x
<1>11. ~Both => e = Initiator /\ ~peer[Initiator].wanted
  BY <1>3, TwoEnds DEF PeerInv, Opening
<1>12. /\ Both => peer[e].open /\ peer[Initiator].wanted
       /\ ~Both => ~peer[e].open
  BY <1>1, <1>11, TwoEnds DEF Both, Facts
<1>13. /\ relays' = relays /\ wire' \in [Ends -> Seq(Messages)]
       /\ wire'[e] = wire[e]
       /\ wire'[Other(e)] = IF Both THEN Append(wire[Other(e)], x)
                                    ELSE wire[Other(e)]
  <2>1. wire \in [Ends -> Seq(Messages)] /\ x \in Messages
    BY <1>9 DEF PeerInv, Typed, Messages
  <2>2. Append(wire[Other(e)], x) \in Seq(Messages)
    BY <2>1, TwoEnds, WireSent
  <2> QED  BY <1>10, <1>11, <1>12, <2>1, <2>2, TwoEnds DEF emitSignal
<1>14. Typed' /\ NeverRejected'
  BY <1>6, <1>7, <1>8, <1>13 DEF Typed, PeerInv, NeverRejected
<1>15. ASSUME NEW f \in Ends PROVE Chained(f)'
  <2>1. CASE f = e
    BY <1>2, <1>6, <1>7, <1>8, <2>1 DEF Chained
  <2>2. CASE f # e
    BY <1>6, <1>7, <1>8, <2>2 DEF Chained, PeerInv
  <2> QED  BY <2>1, <2>2
<1>16. /\ \A f \in Ends : /\ HasTaking(chain'[f]) <=> HasTaking(chain[f])
                          /\ HasSettling(chain'[f]) <=> HasSettling(chain[f])
                          /\ HasCreating(chain'[f]) => HasCreating(chain[f])
                          /\ Answering(f)' <=> Answering(f)
                          /\ Offering(f)' <=> Offering(f) \/ f = e
       /\ ~HasCreating(chain'[e]) /\ ~Offering(e) /\ ~Answering(e)
  BY <1>2, <1>6, <1>8 DEF Offering, Answering
<1>17. (OfferRelayed' <=> OfferRelayed) /\ (AnswerRelayed' <=> AnswerRelayed)
       /\ (Both' <=> Both)
  BY <1>7, <1>13, TwoEnds DEF OfferRelayed, AnswerRelayed, Both
<1>18. /\ \A f \in Ends : HasAnswer(wire'[f]) <=> HasAnswer(wire[f])
       /\ HasOffer(wire'[Responder])
            <=> HasOffer(wire[Responder]) \/ (e = Initiator /\ Both)
  <2>1. Both => /\ HasAnswer(wire'[Other(e)]) <=> HasAnswer(wire[Other(e)])
                /\ HasOffer(wire'[Other(e)])
    <3>1. wire[Other(e)] \in Seq(Messages) /\ x \in Messages
      BY <1>9, TwoEnds DEF PeerInv, Typed, Messages
    <3> QED  BY <1>9, <1>13, <3>1, WireSent
  <2> QED  BY <1>13, <2>1, TwoEnds
<1>19. Turns'
  BY <1>7, <1>11, <1>12, <1>16, <1>17, <1>18, TwoEnds DEF PeerInv, Turns, One
<1>20. Crossing'
  <2>1. CASE e = Initiator
    <3>1. (Alive' <=> Alive) /\ (Got' <=> Got) /\ wire'[Initiator] = wire[Initiator]
      BY <1>13, <1>16, <1>18, <2>1, TwoEnds DEF Alive, Got
    <3>2. Crossed(wire[Initiator], Alive', Offering(Initiator)', Got')
      <4>1. Crossed(wire[Initiator], Alive, Offering(Initiator), Got)
        BY DEF PeerInv, Crossing
      <4>2. (Alive => Alive') /\ ~Offering(Initiator)
        BY <1>16, <2>1, <3>1
      <4> QED  BY <4>1, <4>2, CrossedKept
    <3>3. Ordered(wire'[Responder]) /\ OneAnswer(wire'[Responder])
      <4>1. ~HasOffer(wire[Responder])
        BY <1>1, <1>16, <2>1 DEF TurnFacts
      <4>2. wire[Responder] \in Seq(Messages) /\ x \in Messages
        BY <1>9, TwoEnds DEF PeerInv, Typed, Messages
      <4> QED  BY <1>9, <1>13, <2>1, <4>1, <4>2, TwoEnds, WireSent DEF PeerInv, Crossing
    <3> QED  BY <3>1, <3>2, <3>3, TwoEnds DEF PeerInv, Crossing
  <2>2. CASE e = Responder
    <3>1. Both /\ wire'[Initiator] = Append(wire[Initiator], x)
          /\ wire'[Responder] = wire[Responder]
      BY <1>11, <1>13, <2>2, TwoEnds
    <3>2. ~Alive /\ Alive' /\ (Got' <=> Got)
      BY <1>1, <1>16, <1>18, <2>2, TwoEnds DEF Alive, Got, TurnFacts
    <3>3. wire[Initiator] \in Seq(Messages) /\ x \in Messages
      BY <1>9, TwoEnds DEF PeerInv, Typed, Messages
    <3>4. Crossed(wire'[Initiator], Alive', Offering(Initiator), Got')
      <4>1. Crossed(wire[Initiator], Alive, Offering(Initiator), Got)
        BY DEF PeerInv, Crossing
      <4>2. IsOffer(x) /\ ~Alive /\ Alive' /\ (Got => Got')
        BY <1>9, <3>2
      <4>3. Crossed(Append(wire[Initiator], x), Alive', Offering(Initiator), Got')
        <5>1. /\ Alive \in BOOLEAN /\ Alive' \in BOOLEAN
              /\ Offering(Initiator) \in BOOLEAN
              /\ Got \in BOOLEAN /\ Got' \in BOOLEAN
          BY DEF Alive, Got, Offering
        <5> QED  BY <3>3, <4>1, <4>2, <5>1, CrossedSent
      <4> QED  BY <3>1, <4>3
    <3>5. Offering(Initiator)' <=> Offering(Initiator)
      BY <1>16, <2>2, TwoEnds
    <3>6. OneAnswer(wire'[Initiator])
      BY <1>9, <3>1, <3>3, TwoEnds, WireSent DEF PeerInv, Crossing
    <3>7. Crossed(wire'[Initiator], Alive', Offering(Initiator)', Got')
      BY <3>4, <3>5, CrossedKept
    <3> QED  BY <3>1, <3>6, <3>7, TwoEnds DEF PeerInv, Crossing
  <2> QED  BY <2>1, <2>2, TwoEnds
<1>21. Relayed'
  BY <1>6, <1>7, <1>13, <1>17, TwoEnds DEF PeerInv, Relayed
<1>22. Pooled'
  <2>1. e = Responder => peer[Responder].wanted
    BY <1>1, <1>11, <1>12, TwoEnds DEF Facts
  <2>2. ~peer[Initiator].wanted => ~Both
    BY <1>12
  <2>3. ~peer[Initiator].wanted => chain'[Initiator] = <<>>
    <3> SUFFICES ASSUME ~peer[Initiator].wanted PROVE chain'[Initiator] = <<>>
      OBVIOUS
    <3>1. e = Initiator
      BY <2>1, TwoEnds DEF PeerInv, Pooled
    <3>2. PICK z \in Operations : chain[Initiator] = <<z>>
      BY <3>1 DEF PeerInv, Pooled
    <3> QED  BY <1>8, <3>1, <3>2
  <2> QED
    BY <1>6, <1>7, <1>8, <1>13, <1>16, <2>1, <2>2, <2>3, TwoEnds
       DEF PeerInv, Pooled
<1>23. \A f \in Ends : ToSet(chain'[f]) \subseteq ToSet(chain[f])
  BY <1>3, <1>8
<1>24. \A f \in Ends : \A y \in ToSet(wire'[f]) :
         y \in ToSet(wire[f]) \/ (y = x /\ f = Other(e) /\ Both)
  <2>1. ToSet(Append(wire[Other(e)], x)) = ToSet(wire[Other(e)]) \union {x}
    <3>1. wire[Other(e)] \in Seq(Messages) /\ x \in Messages
      BY <1>9, TwoEnds DEF PeerInv, Typed, Messages
    <3> QED  BY <3>1, Longer
  <2> QED  BY <1>13, <2>1, TwoEnds
<1>25. Opening'
  <2>1. ~Both => /\ wire'[Initiator] = wire[Initiator]
                 /\ wire'[Responder] = wire[Responder]
                 /\ pc[Initiator].remote = NoGeneration
    BY <1>11, <1>13, TwoEnds DEF PeerInv, Pooled
  <2>2. ~Both => ~Offering(Responder)' /\ ~HasCreating(chain'[Responder])
                 /\ ~HasCreating(chain'[Initiator])
    BY <1>11, <1>16, TwoEnds DEF PeerInv, Opening
  <2> QED
    BY <1>6, <1>7, <1>9, <1>16, <1>17, <1>23, <1>24, <2>1, <2>2, TwoEnds
       DEF PeerInv, Opening
<1>26. Current'
  BY <1>6, <1>9, <1>13, <1>23, <1>24, TwoEnds DEF PeerInv, Current
<1> QED
  BY <1>14, <1>15, <1>19, <1>20, <1>21, <1>22, <1>25, <1>26 DEF PeerInv

\* setLocalDescription, of an offer in the pool that is made anew.
LEMMA revivingKeeps ==
  ASSUME PeerInv, NEW e \in Ends, chain[e] # <<>>, setLocalDescription(e),
         chain[e][1] = Local("restart"), UNCHANGED <<plan, owned>>
  PROVE  PeerInv'
<1>1. (\A f \in Ends : Facts(f)) /\ TurnFacts
  BY PeerFacts, TurnsTaken
<1>2. /\ e = Initiator /\ ~peer[Initiator].wanted
      /\ Head(chain[e]) = Local("restart") /\ Local("restart").for = "restart"
      /\ Orderly(e, chain[e], pc[e].state, peer[e].makingOffer,
                 peer[e].isSettingRemoteAnswerPending, peer[e].wanted)
  BY FirstKind DEF Reviving, Local, Op
<1>3. /\ relays = {} /\ ~peer[Responder].wanted
      /\ \A f \in Ends : wire[f] = <<>> /\ pc[f].remote = NoGeneration
      /\ chain[Responder] = <<>>
  BY <1>2 DEF PeerInv, Pooled
<1>4. /\ chain[e] = <<Local("restart")>> /\ pc[e].generation <= MaxRenewals
      /\ pc[e].state = "stable"
  <2>1. PICK x \in Operations :
          /\ chain[Initiator] = <<x>>
          /\ \/ Creating(x) /\ pc[Initiator].generation <= MaxRenewals + 1
             \/ Reviving(x) /\ pc[Initiator].generation <= MaxRenewals
          /\ x = Local("restart") => ~Offering(Initiator)
    BY <1>2 DEF PeerInv, Pooled
  <2>2. x = Local("restart")
    BY <1>2, <2>1
  <2>3. ~Creating(x)
    BY <2>2 DEF Creating, Local, Op
  <2>4. ~Answering(Initiator)
    BY <1>2 DEF PeerInv, Pooled
  <2> QED  BY <1>1, <1>2, <2>1, <2>2, <2>3, <2>4 DEF Offering, Answering, Facts
<1>5. Add(e, {})[1] = <<>> /\ Add(e, {})[2] = {}
  <2>1. /\ Add(e, {})[1] =
             IF pc[e].remote \in {}
               THEN <<Op("candidate", Candidate(pc[e].remote), "none")>>
               ELSE <<>>
        /\ Add(e, {})[2] = {} \ {pc[e].remote}
    BY Added
  <2> QED  BY <2>1
<1>6. /\ ~peer[e].open /\ peer[e] \in PeerHandles /\ pc[e] \in Connections
      /\ pc[e].generation \in Nat
  BY <1>1, <1>2 DEF Facts
<1>7. /\ relays' = relays /\ wire' = wire
  BY <1>2, <1>6 DEF setLocalDescription, emitSignal
<1>8. /\ pc' = [pc EXCEPT ![e] = [pc[e] EXCEPT !.state = "have-local-offer",
                                              !.generation = pc[e].generation + 1,
                                              !.offering = pc[e].added]]
      /\ peer' = [peer EXCEPT ![e].makingOffer = FALSE,
                              ![e].buffered = @ \ {},
                              ![e].held = @ \union {}]
      /\ chain' = [chain EXCEPT ![e] = Tail(@) \o <<>>]
  BY <1>2, <1>4, <1>5 DEF setLocalDescription
<1>9. /\ pc' \in [Ends -> Connections]
      /\ pc'[e].state = "have-local-offer"
      /\ pc'[e].generation \in Nat
      /\ \A f \in Ends : f # e => pc'[f] = pc[f]
      /\ \A f \in Ends : /\ pc'[f].remote = pc[f].remote
                         /\ pc'[f].added = pc[f].added
                         /\ pc'[f].sections = pc[f].sections
  <2>1. /\ pc \in [Ends -> Connections] /\ pc[e].generation + 1 \in Generations
        /\ pc[e].generation + 1 \in Nat
    BY <1>4, <1>6, BoundsAssumption DEF PeerInv, Typed, Generations, Connections
  <2> QED  BY <1>6, <1>8, <2>1 DEF Connections
<1>10. /\ \A f \in Ends : /\ peer'[f].wanted = peer[f].wanted
                          /\ peer'[f].open = peer[f].open
                          /\ peer'[f].failed = peer[f].failed
                          /\ peer'[f].isSettingRemoteAnswerPending
                               = peer[f].isSettingRemoteAnswerPending
       /\ \A f \in Ends : f # e => peer'[f] = peer[f]
       /\ peer' \in [Ends -> PeerHandles]
       /\ peer'[e].makingOffer = FALSE
  <2>1. peer \in [Ends -> PeerHandles]
        /\ peer[e].buffered \ {} = peer[e].buffered
        /\ peer[e].held \union {} = peer[e].held
    BY DEF PeerInv, Typed
  <2>2. peer' = [peer EXCEPT ![e] = [peer[e] EXCEPT !.makingOffer = FALSE,
                                       !.buffered = peer[e].buffered,
                                       !.held = peer[e].held]]
    BY <1>8, <2>1
  <2> QED  BY <2>1, <2>2 DEF PeerHandles
<1>11. /\ chain'[e] = <<>>
       /\ \A f \in Ends : f # e => chain'[f] = chain[f]
       /\ chain' \in [Ends -> Seq(Operations)]
  <2>1. chain \in [Ends -> Seq(Operations)] /\ Tail(chain[e]) \o <<>> = <<>>
    BY <1>4 DEF PeerInv, Typed
  <2> QED  BY <1>8, <2>1
<1>12. Typed' /\ NeverRejected'
  BY <1>7, <1>9, <1>10, <1>11 DEF Typed, PeerInv, NeverRejected
<1>13. ~peer[e].isSettingRemoteAnswerPending
  <2>1. \A i \in DOMAIN chain[e] : ~Settling(chain[e][i]) /\ ~Finishing(chain[e][i])
    <3>1. \A i \in DOMAIN chain[e] : Reviving(chain[e][i])
      BY <1>4 DEF Reviving
    <3> QED  BY <3>1, KindsApart
  <2> QED  BY <1>2, <2>1 DEF Orderly, PendingFits
<1>14. ASSUME NEW f \in Ends PROVE Chained(f)'
  <2>1. CASE f = e
    <3>1. Orderly(e, <<>>, "have-local-offer", FALSE,
                  peer[e].isSettingRemoteAnswerPending, peer[e].wanted)
      BY <1>13, Idle
    <3> QED  BY <1>9, <1>10, <1>11, <2>1, <3>1 DEF Chained
  <2>2. CASE f # e
    BY <1>9, <1>10, <1>11, <2>2 DEF Chained, PeerInv
  <2> QED  BY <2>1, <2>2
<1>15. /\ \A f \in Ends : /\ ~HasTaking(chain'[f]) /\ ~HasSettling(chain'[f])
                          /\ ~HasCreating(chain'[f]) /\ chain'[f] = <<>>
                          /\ ~Answering(f)'
       /\ ~Offering(Responder)'
  <2>1. chain'[Responder] = <<>> /\ chain'[Initiator] = <<>>
    BY <1>2, <1>3, <1>11, TwoEnds
  <2>2. pc'[Responder].state = "stable"
    BY <1>2, <1>3, <1>9, TwoEnds DEF PeerInv, Pooled
  <2> QED  BY <1>2, <1>9, <2>1, <2>2, TwoEnds, Idle DEF Answering, Offering
<1>16. ~OfferRelayed' /\ ~AnswerRelayed' /\ ~Both'
  BY <1>2, <1>3, <1>6, <1>7, <1>10, TwoEnds DEF OfferRelayed, AnswerRelayed, Both
<1>17. \A f \in Ends : /\ wire'[f] = <<>> /\ ToSet(wire'[f]) = {}
                       /\ ToSet(chain'[f]) = {}
                       /\ ~HasOffer(wire'[f]) /\ ~HasAnswer(wire'[f])
  BY <1>3, <1>7, <1>15, Silence
<1>18. Turns'
  BY <1>2, <1>10, <1>15, <1>16, <1>17, TwoEnds DEF Turns, One
<1>19. Crossing'
  BY <1>17, Silence, TwoEnds DEF Crossing
<1>20. Relayed' /\ Current'
  BY <1>2, <1>3, <1>7, <1>9, <1>16, <1>17, TwoEnds DEF PeerInv, Relayed, Current
<1>21. Pooled'
  BY <1>2, <1>3, <1>7, <1>9, <1>10, <1>15, <1>17, TwoEnds DEF PeerInv, Pooled
<1>22. Opening'
  <2>1. \A f \in Ends : ~peer'[f].open /\ pc'[f].added = 0
    BY <1>1, <1>3, <1>9, <1>10, TwoEnds DEF PeerInv, Opening, Facts, Both
  <2> QED  BY <1>3, <1>9, <1>15, <1>16, <1>17, <2>1, TwoEnds DEF Opening
<1> QED
  BY <1>12, <1>14, <1>18, <1>19, <1>20, <1>21, <1>22 DEF PeerInv

\* rollback, of an offer in the pool.
LEMMA withdrawingKeeps ==
  ASSUME PeerInv, NEW e \in Ends, chain[e] # <<>>, rollback(e),
         chain[e][1] = Rollback("restart"), UNCHANGED <<plan, owned>>
  PROVE  PeerInv'
<1>1. \A f \in Ends : Facts(f)
  BY PeerFacts
<1>2. /\ e = Initiator /\ ~peer[Initiator].wanted
      /\ Head(chain[e]) = Rollback("restart") /\ Rollback("restart").for = "restart"
      /\ Orderly(e, chain[e], pc[e].state, peer[e].makingOffer,
                 peer[e].isSettingRemoteAnswerPending, peer[e].wanted)
  BY FirstKind DEF Reviving, Rollback, Op
<1>3. /\ relays = {} /\ ~peer[Responder].wanted
      /\ \A f \in Ends : wire[f] = <<>> /\ pc[f].remote = NoGeneration
      /\ chain[Responder] = <<>>
  BY <1>2 DEF PeerInv, Pooled
<1>4. /\ chain[e] = <<Rollback("restart")>> /\ pc[e].generation <= MaxRenewals
      /\ Offering(e)
  <2>1. PICK x \in Operations :
          /\ chain[Initiator] = <<x>>
          /\ \/ Creating(x) /\ pc[Initiator].generation <= MaxRenewals + 1
             \/ Reviving(x) /\ pc[Initiator].generation <= MaxRenewals
          /\ x = Rollback("restart") => Offering(Initiator)
    BY <1>2 DEF PeerInv, Pooled
  <2>2. x = Rollback("restart")
    BY <1>2, <2>1
  <2>3. ~Creating(x)
    BY <2>2 DEF Creating, Local, Rollback, Op
  <2> QED  BY <1>2, <2>1, <2>2, <2>3
<1>5. /\ pc' = [pc EXCEPT ![e].state = "stable", ![e].needed = FALSE]
      /\ chain' = [chain EXCEPT ![e] = Tail(@) \o <<Local("restart")>>]
      /\ peer' = peer /\ relays' = relays /\ wire' = wire
  BY <1>2, <1>4 DEF rollback, Offering
<1>6. /\ pc' \in [Ends -> Connections]
      /\ pc'[e].state = "stable"
      /\ \A f \in Ends : f # e => pc'[f] = pc[f]
      /\ \A f \in Ends : /\ pc'[f].remote = pc[f].remote
                         /\ pc'[f].added = pc[f].added
                         /\ pc'[f].generation = pc[f].generation
                         /\ pc'[f].sections = pc[f].sections
  <2>1. pc \in [Ends -> Connections]
    BY DEF PeerInv, Typed
  <2> QED  BY <1>5, <2>1 DEF Connections
<1>7. /\ chain'[e] = <<Local("restart")>>
      /\ \A f \in Ends : f # e => chain'[f] = chain[f]
      /\ chain' \in [Ends -> Seq(Operations)]
  <2>1. /\ chain \in [Ends -> Seq(Operations)]
        /\ Tail(chain[e]) \o <<Local("restart")>> = <<Local("restart")>>
    BY <1>4 DEF PeerInv, Typed
  <2> QED  BY <1>5, <2>1, OperationTypes
<1>8. Typed' /\ NeverRejected'
  BY <1>5, <1>6, <1>7 DEF Typed, PeerInv, NeverRejected
<1>9. ~peer[e].isSettingRemoteAnswerPending
  <2>1. \A i \in DOMAIN chain[e] : ~Settling(chain[e][i]) /\ ~Finishing(chain[e][i])
    <3>1. \A i \in DOMAIN chain[e] : Reviving(chain[e][i])
      BY <1>4 DEF Reviving
    <3> QED  BY <3>1, KindsApart
  <2> QED  BY <1>2, <2>1 DEF Orderly, PendingFits
<1>10. Reviving(Local("restart")) /\ ~Creating(Local("restart"))
  BY KindsApart DEF Reviving
<1>11. /\ Orderly(e, chain'[e], "stable", peer[e].makingOffer,
                  peer[e].isSettingRemoteAnswerPending, peer[e].wanted)
       /\ ~HasTaking(chain'[e]) /\ ~HasSettling(chain'[e]) /\ ~HasCreating(chain'[e])
  BY <1>2, <1>7, <1>9, <1>10, Alone, OperationTypes
<1>12. ASSUME NEW f \in Ends PROVE Chained(f)'
  <2>1. CASE f = e
    BY <1>5, <1>6, <1>11, <2>1 DEF Chained
  <2>2. CASE f # e
    BY <1>5, <1>6, <1>7, <2>2 DEF Chained, PeerInv
  <2> QED  BY <2>1, <2>2
<1>13. /\ \A f \in Ends : /\ ~HasTaking(chain'[f]) /\ ~HasSettling(chain'[f])
                          /\ ~HasCreating(chain'[f])
                          /\ ~Answering(f)' /\ ~Offering(f)'
       /\ chain'[Responder] = <<>>
  <2>1. chain'[Responder] = <<>>
    BY <1>2, <1>3, <1>7, TwoEnds
  <2>2. pc'[Responder].state = "stable"
    BY <1>2, <1>3, <1>6, TwoEnds DEF PeerInv, Pooled
  <2> QED  BY <1>2, <1>6, <1>11, <2>1, <2>2, TwoEnds, Idle DEF Answering, Offering
<1>14. ~OfferRelayed' /\ ~AnswerRelayed' /\ ~Both'
  BY <1>1, <1>3, <1>5, TwoEnds DEF OfferRelayed, AnswerRelayed, Both, Facts
<1>15. \A f \in Ends : /\ wire'[f] = <<>> /\ ToSet(wire'[f]) = {}
                       /\ ToSet(chain'[f]) \subseteq {Local("restart")}
                       /\ ~HasOffer(wire'[f]) /\ ~HasAnswer(wire'[f])
  <2>1. ToSet(<<Local("restart")>>) = {Local("restart")}
    BY DEF ToSet
  <2> QED  BY <1>2, <1>3, <1>5, <1>7, <1>13, <2>1, Silence, TwoEnds
<1>16. Turns'
  BY <1>2, <1>5, <1>13, <1>14, <1>15, TwoEnds DEF Turns, One
<1>17. Crossing'
  BY <1>15, Silence, TwoEnds DEF Crossing
<1>18. Local("restart").do = "local"
  BY DEF Local, Op
<1>19. Relayed' /\ Current'
  <2>1. Relayed'
    BY <1>3, <1>5, <1>14 DEF Relayed
  <2>2. pc'[Responder].generation = 1 /\ \A f \in Ends : pc'[f].remote = NoGeneration
    BY <1>3, <1>6, TwoEnds DEF PeerInv, Current
  <2>3. \A f \in Ends : \A o \in ToSet(chain'[f]) : o.do = "local"
    BY <1>15, <1>18
  <2> QED  BY <1>3, <1>5, <1>15, <2>1, <2>2, <2>3 DEF Current
<1>20. Pooled'
  <2>1. Local("restart") # Rollback("restart")
    BY DEF Local, Rollback, Op
  <2> QED
    BY <1>2, <1>3, <1>4, <1>5, <1>6, <1>7, <1>10, <1>13, <1>15, <2>1,
       OperationTypes, TwoEnds DEF PeerInv, Pooled
<1>21. Opening'
  <2>1. \A f \in Ends : ~peer'[f].open /\ pc'[f].added = 0
    BY <1>1, <1>3, <1>5, <1>6, TwoEnds DEF PeerInv, Opening, Facts, Both
  <2> QED  BY <1>3, <1>6, <1>13, <1>14, <1>15, <2>1, TwoEnds DEF Opening
<1> QED
  BY <1>8, <1>12, <1>16, <1>17, <1>19, <1>20, <1>21 DEF PeerInv

\* The kinds of a candidate's operation.
LEMMA CandidateKinds ==
  ASSUME NEW g \in Generations, NEW f \in {"none", "offer", "answer"}
  PROVE  LET x == Op("candidate", Candidate(g), f)
         IN  /\ x \in Operations /\ Adding(x) /\ ~Taking(x) /\ ~Creating(x)
             /\ ~Settling(x) /\ ~Yielding(x) /\ ~Reviving(x)
             /\ Replying(x) <=> f = "offer"
             /\ Finishing(x) <=> f = "answer"
             /\ x.do = "candidate" /\ x.for = f /\ x.signal.generation = g
<1> DEFINE x == Op("candidate", Candidate(g), f)
<1>1. /\ x \in Operations /\ x.do = "candidate" /\ x.for = f
      /\ x.signal.generation = g
  BY OperationTypes DEF Op, Candidate, Signal
<1> HIDE DEF x
<1>2. Adding(x)
  BY <1>1 DEF Adding
<1>3. x # Local("offer")
  BY <1>1 DEF Local, Op
<1>4. (Replying(x) <=> f = "offer") /\ (Finishing(x) <=> f = "answer")
  BY <1>1, <1>2, <1>3 DEF Replying, Finishing
<1>5. ~Taking(x) /\ ~Creating(x) /\ ~Settling(x) /\ ~Yielding(x) /\ ~Reviving(x)
  BY <1>2, KindsApart
<1> QED  BY <1>1, <1>2, <1>4, <1>5 DEF x

\* One that nothing waits for joins a chain.
LEMMA CandidateJoins ==
  ASSUME NEW e, NEW c \in Seq(Operations), NEW s, NEW m, NEW p, NEW w,
         Orderly(e, c, s, m, p, w), w \/ (c = <<>>),
         NEW x \in Operations, Adding(x), ~Replying(x), ~Finishing(x)
  PROVE  /\ Orderly(e, Append(c, x), s, m, p, w)
         /\ HasTaking(Append(c, x)) <=> HasTaking(c)
         /\ HasSettling(Append(c, x)) <=> HasSettling(c)
         /\ HasCreating(Append(c, x)) <=> HasCreating(c)
  BY AddingJoins

\* One that a handler waits for to settle an answer does.
LEMMA FinishingJoins ==
  ASSUME NEW e, NEW c \in Seq(Operations), NEW s, NEW m, NEW p, NEW q, NEW w,
         Orderly(e, c, s, m, q, w), w \/ (c = <<>>), s # "have-local-offer",
         ~HasCreating(c), NEW x \in Operations, Finishing(x)
  PROVE  /\ Orderly(e, Append(c, x), s, m, p, w)
         /\ HasTaking(Append(c, x)) <=> HasTaking(c)
         /\ HasSettling(Append(c, x)) <=> HasSettling(c)
         /\ HasCreating(Append(c, x)) <=> HasCreating(c)
<1>1. Adding(x) /\ ~Replying(x)
  BY KindsApart
<1>2. /\ Orderly(e, Append(c, x), s, m, q, w)
      /\ HasTaking(Append(c, x)) <=> HasTaking(c)
      /\ HasSettling(Append(c, x)) <=> HasSettling(c)
      /\ HasCreating(Append(c, x)) <=> HasCreating(c)
  BY <1>1, AddingJoins
<1>3. \E i \in DOMAIN Append(c, x) : Finishing(Append(c, x)[i])
  <2>1. Append(c, x)[Len(c) + 1] = x /\ Len(c) + 1 \in DOMAIN Append(c, x)
    BY Longer
  <2> QED  BY <2>1
<1>4. \A i \in DOMAIN Append(c, x) : ~Settling(Append(c, x)[i])
  BY <1>2 DEF Orderly, SettlingFits
<1>5. PendingFits(Append(c, x), p)
  BY <1>3, <1>4 DEF PendingFits
<1> QED  BY <1>2, <1>5 DEF Orderly

\* Where there are no offers, none cross.
LEMMA NoneCrosses ==
  ASSUME NEW w, ~HasOffer(w), NEW a, NEW b, NEW g
  PROVE  Crossed(w, a, b, g)
  BY DEF HasOffer, Crossed

\* setLocalDescription, of an answer.
LEMMA replyingKeeps ==
  ASSUME PeerInv, NEW e \in Ends, chain[e] # <<>>, setLocalDescription(e),
         chain[e][1] = Local("offer"), UNCHANGED <<plan, owned>>
  PROVE  PeerInv'
<1> DEFINE x == Signal("answer", pc[e].generation,
                       Smaller(pc[e].added, pc[e].sections), pc[e].sections)
           y == Op("candidate", Candidate(pc[e].remote), "none")
           t == Tail(chain[e])
<1>1. Facts(e) /\ (\A f \in Ends : Facts(f)) /\ TurnFacts
  BY PeerFacts, TurnsTaken
<1>2. /\ pc[e].state = "have-remote-offer" /\ ~peer[e].makingOffer
      /\ Orderly(e, t, "stable", peer[e].makingOffer,
                 peer[e].isSettingRemoteAnswerPending, peer[e].wanted)
      /\ ~HasTaking(t) /\ ~HasTaking(chain[e])
      /\ ~HasSettling(t) /\ ~HasSettling(chain[e])
      /\ ~HasCreating(t) /\ ~HasCreating(chain[e])
  BY FirstKind, ReplyDone
<1>3. /\ Head(chain[e]) = Local("offer") /\ Local("offer").for = "offer"
      /\ t \in Seq(Operations) /\ ToSet(t) \subseteq ToSet(chain[e])
  BY FirstKind DEF Local, Op
<1>4. /\ Answering(e) /\ peer[e].wanted /\ peer[Initiator].wanted
      /\ ~Offering(e)
      /\ e = Initiator => Both /\ Offering(Responder)
      /\ e = Responder => Offering(Initiator)
  BY <1>1, <1>2, TwoEnds DEF Answering, Offering, Facts, TurnFacts
<1>5. peer[e].open <=> Both
  <2>1. ~Both => e = Responder /\ pc[Initiator].remote = NoGeneration
    BY <1>4, TwoEnds DEF PeerInv, Opening
  <2> QED  BY <1>1, <2>1, TwoEnds DEF Both, Facts
<1>6. /\ pc' = [pc EXCEPT ![e] = [pc[e] EXCEPT !.state = "stable",
                                  !.sending = Smaller(pc[e].added, pc[e].sections),
                                  !.needed = FALSE]]
      /\ emitSignal(e, Signal("answer", pc[e].generation + 0,
                              Smaller(pc[e].added, pc[e].sections), pc[e].sections))
      /\ peer' = [peer EXCEPT ![e].makingOffer = @ /\ TRUE,
                              ![e].buffered = @ \ peer[e].buffered,
                              ![e].held = @ \union Add(e, peer[e].buffered)[2]]
      /\ chain' = [chain EXCEPT ![e] = Tail(@) \o Add(e, peer[e].buffered)[1]]
  BY <1>2, <1>3 DEF setLocalDescription
<1>7. /\ pc' \in [Ends -> Connections]
      /\ pc'[e].state = "stable"
      /\ \A f \in Ends : f # e => pc'[f] = pc[f]
      /\ \A f \in Ends : /\ pc'[f].generation = pc[f].generation
                         /\ pc'[f].remote = pc[f].remote
                         /\ pc'[f].added = pc[f].added
                         /\ pc'[f].sections = pc[f].sections
  <2>1. pc \in [Ends -> Connections]
    BY DEF PeerInv, Typed
  <2>2. Smaller(pc[e].added, pc[e].sections) \in Tracks
    BY <2>1 DEF Smaller, Connections
  <2> QED  BY <1>6, <2>1, <2>2 DEF Connections
<1>8. /\ \A f \in Ends : /\ peer'[f].wanted = peer[f].wanted
                         /\ peer'[f].open = peer[f].open
                         /\ peer'[f].failed = peer[f].failed
                         /\ peer'[f].isSettingRemoteAnswerPending
                              = peer[f].isSettingRemoteAnswerPending
                         /\ peer'[f].makingOffer = peer[f].makingOffer
      /\ peer' \in [Ends -> PeerHandles]
  <2>1. peer \in [Ends -> PeerHandles] /\ peer[e] \in PeerHandles
    BY DEF PeerInv, Typed
  <2>2. (peer[e].makingOffer /\ TRUE) = peer[e].makingOffer
    BY <2>1 DEF PeerHandles
  <2>3. Add(e, peer[e].buffered)[2] \subseteq peer[e].buffered
    <3>1. Add(e, peer[e].buffered)[2] = peer[e].buffered \ {pc[e].remote}
      BY Added
    <3> QED  BY <3>1
  <2> DEFINE b == peer[e].buffered \ peer[e].buffered
             h == peer[e].held \union Add(e, peer[e].buffered)[2]
  <2>4. b \in SUBSET Generations /\ h \in SUBSET Generations
    BY <2>1, <2>3 DEF PeerHandles
  <2>5. peer' = [peer EXCEPT ![e] = [peer[e] EXCEPT !.makingOffer = peer[e].makingOffer,
                                                    !.buffered = b, !.held = h]]
    BY <1>6, <2>1, <2>2
  <2> HIDE DEF b, h
  <2> QED  BY <2>1, <2>4, <2>5 DEF PeerHandles
<1>9. /\ x \in Signals /\ IsAnswer(x) /\ Describes(x) /\ ~IsOffer(x)
      /\ x.generation = pc[e].generation
      /\ Both => x.sections > 0
  <2>1. Both => pc[e].sections > 0
    BY <1>4 DEF PeerInv, Opening
  <2>2. pc[e].added \in Tracks /\ pc[e].sections \in Tracks
    BY <1>1 DEF Facts, Connections
  <2>3. Smaller(pc[e].added, pc[e].sections) \in Tracks
    BY <2>2 DEF Smaller
  <2> QED
    BY <1>1, <2>1, <2>2, <2>3
       DEF Signal, Signals, IsOffer, IsAnswer, Describes, Facts
<1>10. emitSignal(e, x)
  <2>1. pc[e].generation + 0 = pc[e].generation
    BY <1>1 DEF Facts
  <2> QED  BY <1>6, <2>1
<1> HIDE DEF x
<1>11. /\ wire' \in [Ends -> Seq(Messages)]
       /\ wire'[e] = wire[e]
       /\ wire'[Other(e)] = IF Both THEN Append(wire[Other(e)], x)
                                    ELSE wire[Other(e)]
       /\ relays' = IF Both THEN relays ELSE relays \union {<<Other(e), x>>}
  <2>1. wire \in [Ends -> Seq(Messages)] /\ x \in Messages
    BY <1>9 DEF PeerInv, Typed, Messages
  <2>2. Append(wire[Other(e)], x) \in Seq(Messages)
    BY <2>1, TwoEnds, WireSent
  <2> QED  BY <1>4, <1>5, <1>10, <2>1, <2>2, TwoEnds DEF emitSignal
<1>12. pc[e].remote # NoGeneration => pc[e].remote \in Generations
  BY <1>1 DEF Facts
<1>13. \/ chain'[e] = t
       \/ /\ pc[e].remote \in peer[e].buffered
          /\ chain'[e] = Append(t, y)
  <2>1. chain \in [Ends -> Seq(Operations)] /\ t \o <<>> = t /\ t \o <<y>> = Append(t, y)
    BY <1>3 DEF PeerInv, Typed
  <2> HIDE DEF t
  <2>2. Add(e, peer[e].buffered)[1] = IF pc[e].remote \in peer[e].buffered
                                        THEN <<y>> ELSE <<>>
    BY Added
  <2>3. chain'[e] = t \o Add(e, peer[e].buffered)[1]
    BY <1>6, <2>1 DEF t
  <2> QED  BY <2>1, <2>2, <2>3
<1>14. /\ \A f \in Ends : f # e => chain'[f] = chain[f]
       /\ chain' \in [Ends -> Seq(Operations)]
       /\ Orderly(e, chain'[e], "stable", peer[e].makingOffer,
                  peer[e].isSettingRemoteAnswerPending, peer[e].wanted)
       /\ ~HasTaking(chain'[e]) /\ ~HasSettling(chain'[e]) /\ ~HasCreating(chain'[e])
       /\ \A o \in ToSet(chain'[e]) : o \in ToSet(chain[e]) \/ o = y
       /\ pc[e].remote \in peer[e].buffered => pc[e].remote \in Generations
  <2>1. chain \in [Ends -> Seq(Operations)] /\ peer[e] \in PeerHandles
    BY DEF PeerInv, Typed
  <2>2. pc[e].remote \in peer[e].buffered => pc[e].remote \in Generations
    BY <2>1 DEF PeerHandles
  <2>3. \A f \in Ends : f # e => chain'[f] = chain[f]
    BY <1>6, <2>1
  <2>4. CASE chain'[e] = t
    <3>1. chain' \in [Ends -> Seq(Operations)]
      BY <1>3, <1>6, <2>1, <2>4
    <3> QED  BY <1>2, <1>3, <2>2, <2>3, <2>4, <3>1
  <2>5. CASE pc[e].remote \in peer[e].buffered /\ chain'[e] = Append(t, y)
    <3>1. /\ y \in Operations /\ Adding(y) /\ ~Replying(y) /\ ~Finishing(y)
      BY <2>2, <2>5, CandidateKinds
    <3> HIDE DEF y, t
    <3>2. /\ Append(t, y) \in Seq(Operations)
          /\ ToSet(Append(t, y)) = ToSet(t) \union {y}
      BY <1>3, <3>1, Longer
    <3>3. chain' \in [Ends -> Seq(Operations)]
      BY <1>6, <2>1, <2>5, <3>2
    <3>4. /\ Orderly(e, Append(t, y), "stable", peer[e].makingOffer,
                     peer[e].isSettingRemoteAnswerPending, peer[e].wanted)
          /\ ~HasTaking(Append(t, y)) /\ ~HasSettling(Append(t, y))
          /\ ~HasCreating(Append(t, y))
      <4>1. /\ peer[e].isSettingRemoteAnswerPending \in BOOLEAN
            /\ peer[e].wanted
        BY <1>1, <1>4 DEF Facts
      <4>2. /\ Orderly(e, t, "stable", peer[e].makingOffer,
                       peer[e].isSettingRemoteAnswerPending, peer[e].wanted)
            /\ t \in Seq(Operations) /\ y \in Operations
            /\ Adding(y) /\ ~Replying(y) /\ ~Finishing(y)
        BY <1>2, <1>3, <3>1
      <4>3. /\ Orderly(e, Append(t, y), "stable", peer[e].makingOffer,
                       peer[e].isSettingRemoteAnswerPending, peer[e].wanted)
            /\ HasTaking(Append(t, y)) <=> HasTaking(t)
            /\ HasSettling(Append(t, y)) <=> HasSettling(t)
            /\ HasCreating(Append(t, y)) <=> HasCreating(t)
        BY <4>1, <4>2, CandidateJoins
      <4> QED  BY <1>2, <4>3
    <3> QED  BY <1>3, <2>2, <2>3, <2>5, <3>2, <3>3, <3>4
  <2> QED  BY <1>13, <2>4, <2>5
<1> HIDE DEF t
<1>15. Typed' /\ NeverRejected'
  <2>1. relays' \subseteq Ends \X Signals
    BY <1>9, <1>11, TwoEnds DEF PeerInv, Typed
  <2> QED  BY <1>7, <1>8, <1>11, <1>14, <2>1 DEF Typed, PeerInv, NeverRejected
<1>16. ASSUME NEW f \in Ends PROVE Chained(f)'
  <2>1. CASE f = e
    BY <1>7, <1>8, <1>14, <2>1 DEF Chained
  <2>2. CASE f # e
    BY <1>7, <1>8, <1>14, <2>2 DEF Chained, PeerInv
  <2> QED  BY <2>1, <2>2
<1>17. /\ \A f \in Ends : /\ HasTaking(chain'[f]) <=> HasTaking(chain[f])
                          /\ HasSettling(chain'[f]) <=> HasSettling(chain[f])
                          /\ HasCreating(chain'[f]) <=> HasCreating(chain[f])
                          /\ Answering(f)' <=> Answering(f) /\ f # e
                          /\ Offering(f)' <=> Offering(f)
       /\ ~HasTaking(chain[e]) /\ ~HasSettling(chain[e])
  BY <1>2, <1>4, <1>7, <1>14 DEF Offering, Answering
<1>18. /\ OfferRelayed' <=> OfferRelayed
       /\ AnswerRelayed' <=> AnswerRelayed \/ ~Both
       /\ Both' <=> Both
       /\ \A m \in relays' : m \in relays \/ (m = <<Other(e), x>> /\ ~Both)
  <2>1. \A m \in relays' : m \in relays \/ (m = <<Other(e), x>> /\ ~Both)
    BY <1>11
  <2>2. \A m \in relays : m \in relays'
    BY <1>11
  <2>3. OfferRelayed' <=> OfferRelayed
    BY <1>9, <2>1, <2>2, TwoEnds DEF OfferRelayed
  <2>4. ~Both => <<Initiator, x>> \in relays'
    BY <1>4, <1>11, TwoEnds
  <2>5. AnswerRelayed' <=> AnswerRelayed \/ ~Both
    BY <1>9, <2>1, <2>2, <2>4, TwoEnds DEF AnswerRelayed
  <2> QED  BY <1>8, <2>1, <2>3, <2>5, TwoEnds DEF Both
<1>19. /\ wire[Other(e)] \in Seq(Messages) /\ x \in Messages
       /\ ~HasAnswer(wire[Other(e)])
       /\ e = Initiator => ~HasOffer(wire[Responder]) /\ ~HasTaking(chain[Responder])
       /\ e = Responder => ~OfferRelayed /\ ~AnswerRelayed
  <2>1. e = Responder => ~HasAnswer(wire[Initiator]) /\ ~OfferRelayed /\ ~AnswerRelayed
    BY <1>4 DEF PeerInv, Turns, One
  <2>2. e = Initiator => ~HasAnswer(wire[Responder])
    BY <1>4 DEF PeerInv, Turns, One
  <2>3. e = Initiator => ~HasOffer(wire[Responder]) /\ ~HasTaking(chain[Responder])
    BY <1>1, <1>4 DEF TurnFacts
  <2> QED  BY <1>9, <2>1, <2>2, <2>3, TwoEnds DEF PeerInv, Typed, Messages
<1>20. /\ \A f \in Ends : HasOffer(wire'[f]) <=> HasOffer(wire[f])
       /\ HasAnswer(wire'[e]) <=> HasAnswer(wire[e])
       /\ HasAnswer(wire'[Other(e)]) <=> Both
  <2>1. /\ HasOffer(Append(wire[Other(e)], x)) <=> HasOffer(wire[Other(e)])
        /\ HasAnswer(Append(wire[Other(e)], x))
    BY <1>9, <1>19, WireSent
  <2> QED  BY <1>11, <1>19, <2>1, TwoEnds
<1>21. Turns'
  <2>1. CASE e = Initiator
    BY <1>4, <1>8, <1>17, <1>18, <1>19, <1>20, <2>1, TwoEnds DEF PeerInv, Turns, One
  <2>2. CASE e = Responder
    BY <1>4, <1>8, <1>17, <1>18, <1>19, <1>20, <2>2, TwoEnds DEF PeerInv, Turns, One
  <2> QED  BY <2>1, <2>2, TwoEnds
<1>22. Crossing'
  <2>1. \A f \in Ends : OneAnswer(wire'[f])
    <3>1. OneAnswer(Append(wire[Other(e)], x))
      BY <1>9, <1>19, TwoEnds, WireSent DEF PeerInv, Crossing
    <3> QED  BY <1>11, <3>1, TwoEnds DEF PeerInv, Crossing
  <2>2. Ordered(wire'[Responder])
    <3>1. CASE e = Initiator
      <4>1. Ordered(Append(wire[Responder], x))
        BY <1>9, <1>19, <3>1, TwoEnds, WireSent DEF PeerInv, Crossing
      <4> QED  BY <1>11, <3>1, <4>1, TwoEnds DEF PeerInv, Crossing
    <3>2. CASE e = Responder
      BY <1>11, <3>2, TwoEnds DEF PeerInv, Crossing
    <3> QED  BY <3>1, <3>2, TwoEnds
  <2>3. Crossed(wire[Initiator], Alive, Offering(Initiator), Got)
    BY DEF PeerInv, Crossing
  <2>4. Crossed(wire'[Initiator], Alive', Offering(Initiator)', Got')
    <3>1. CASE e = Initiator
      <4>1. ~Alive /\ ~Offering(Initiator) /\ wire'[Initiator] = wire[Initiator]
        BY <1>4, <1>11, <3>1, TwoEnds DEF Alive
      <4> QED  BY <2>3, <4>1, CrossedKept
    <3>2. CASE e = Responder /\ Both
      <4>1. wire'[Initiator] = Append(wire[Initiator], x)
        BY <1>11, <3>2, TwoEnds
      <4>2. Offering(Initiator) /\ Offering(Initiator)'
        BY <1>4, <1>17, <3>2, TwoEnds
      <4>3. /\ Alive \in BOOLEAN /\ Alive' \in BOOLEAN
            /\ Got \in BOOLEAN /\ Got' \in BOOLEAN
        BY DEF Alive, Got
      <4>4. wire[Initiator] \in Seq(Messages) /\ x \in Messages
        BY <1>19, <3>2, TwoEnds
      <4>5. Crossed(wire[Initiator], Alive, TRUE, Got)
        BY <2>3, <4>2, CrossedKept
      <4>6. Crossed(Append(wire[Initiator], x), Alive', TRUE, Got')
        BY <1>9, <4>3, <4>4, <4>5, CrossedSent
      <4>7. Crossed(wire'[Initiator], Alive', TRUE, Got')
        BY <4>1, <4>6
      <4> QED  BY <4>2, <4>7, CrossedKept
    <3>3. CASE ~Both
      <4>1. ~HasOffer(wire'[Initiator])
        BY <1>20, <3>3, TwoEnds DEF PeerInv, Opening
      <4> QED  BY <4>1, NoneCrosses
    <3> QED  BY <3>1, <3>2, <3>3, TwoEnds
  <2> QED  BY <2>1, <2>2, <2>4 DEF Crossing
<1>23. Relayed'
  <2>1. ~Both => e = Responder /\ pc[Initiator].remote = NoGeneration
    BY <1>4, TwoEnds DEF PeerInv, Opening
  <2>2. ~Both => \A m \in relays : ~Describes(m[2])
    <3> SUFFICES ASSUME ~Both, NEW m \in relays, Describes(m[2]) PROVE FALSE
      OBVIOUS
    <3>1. (IsOffer(m[2]) /\ m[1] = Responder) \/ (IsAnswer(m[2]) /\ m[1] = Initiator)
      BY DEF PeerInv, Relayed, Describes
    <3> QED  BY <1>19, <2>1, <3>1 DEF OfferRelayed, AnswerRelayed
  <2>3. \A m \in relays' : IsOffer(m[2]) => m[1] = Responder
    BY <1>9, <1>18 DEF PeerInv, Relayed
  <2>4. \A m \in relays' : IsAnswer(m[2]) => m[1] = Initiator
    BY <1>18, <2>1, TwoEnds DEF PeerInv, Relayed
  <2>5. \A m, n \in relays' : Describes(m[2]) /\ Describes(n[2]) => m = n
    BY <1>18, <2>2 DEF PeerInv, Relayed
  <2>6. /\ OfferRelayed' => ~peer'[Responder].wanted
        /\ OfferRelayed' \/ AnswerRelayed' => pc'[Initiator].remote = NoGeneration
    BY <1>7, <1>8, <1>18, <2>1, TwoEnds DEF PeerInv, Relayed
  <2> QED  BY <2>3, <2>4, <2>5, <2>6 DEF Relayed
<1>24. Pooled'
  <2>1. e = Initiator => pc[Initiator].remote # NoGeneration
    BY <1>1, <1>4, <1>5, TwoEnds DEF Facts
  <2>2. peer'[Initiator].wanted /\ (e = Responder => peer'[Responder].wanted)
    BY <1>4, <1>8, TwoEnds
  <2>3. ~peer'[Responder].wanted =>
          /\ chain'[Responder] = <<>> /\ pc'[Responder].state = "stable"
          /\ pc'[Responder].remote = NoGeneration
    BY <1>7, <1>8, <1>14, <2>2, TwoEnds DEF PeerInv, Pooled
  <2> QED  BY <1>7, <1>17, <2>1, <2>2, <2>3, TwoEnds DEF PeerInv, Pooled
<1>25. \A f \in Ends : \A z \in ToSet(wire'[f]) :
         z \in ToSet(wire[f]) \/ (z = x /\ f = Other(e) /\ Both)
  <2>1. ToSet(Append(wire[Other(e)], x)) = ToSet(wire[Other(e)]) \union {x}
    BY <1>19, Longer
  <2> QED  BY <1>11, <2>1, TwoEnds
<1>26. \A f \in Ends : \A o \in ToSet(chain'[f]) :
         o \in ToSet(chain[f]) \/
           (/\ f = e /\ ~Taking(o) /\ o.do = "candidate"
            /\ o.signal.generation = pc[e].remote)
  <2>1. pc[e].remote \in peer[e].buffered =>
          /\ ~Taking(y) /\ y.do = "candidate" /\ y.signal.generation = pc[e].remote
    BY <1>14, CandidateKinds
  <2>2. chain'[e] = t => ToSet(chain'[e]) \subseteq ToSet(chain[e])
    BY <1>3
  <2> QED  BY <1>13, <1>14, <2>1, <2>2
<1>27. Opening'
  <2>1. ~Both => ~HasAnswer(wire'[Initiator]) /\ ~HasAnswer(wire'[Responder])
    BY <1>20, TwoEnds DEF PeerInv, Opening
  <2> QED
    BY <1>7, <1>8, <1>9, <1>17, <1>18, <1>20, <1>25, <1>26, <2>1, TwoEnds
       DEF PeerInv, Opening
<1>28. Current'
  <2>1. \A f \in Ends : \A o \in ToSet(chain'[f]) :
          /\ o.do = "remote" => o.signal.generation = pc'[Other(f)].generation
          /\ o.do = "candidate" => o.signal.generation = pc'[f].remote
    BY <1>7, <1>26, TwoEnds DEF PeerInv, Current
  <2>2. \A f \in Ends : \A z \in ToSet(wire'[f]) :
          Describes(z) => z.generation = pc'[Other(f)].generation
    BY <1>7, <1>9, <1>25, TwoEnds DEF PeerInv, Current
  <2>3. \A f \in Ends : \A m \in relays' : m[1] = f /\ Describes(m[2]) =>
            m[2].generation = pc'[Other(f)].generation
    BY <1>7, <1>9, <1>18, TwoEnds DEF PeerInv, Current
  <2> QED  BY <1>7, <2>1, <2>2, <2>3, TwoEnds DEF PeerInv, Current
<1> QED
  BY <1>15, <1>16, <1>21, <1>22, <1>23, <1>24, <1>27, <1>28 DEF PeerInv

(* The browser of e goes on, and nothing is sent. *)
Works(e) ==
  /\ relays' = relays /\ wire' = wire /\ plan' = plan /\ owned' = owned
  /\ pc' \in [Ends -> Connections] /\ peer' \in [Ends -> PeerHandles]
  /\ chain' \in [Ends -> Seq(Operations)]
  /\ \A f \in Ends : f # e => /\ pc'[f] = pc[f] /\ peer'[f] = peer[f]
                              /\ chain'[f] = chain[f]
  /\ pc'[e].generation = pc[e].generation /\ pc'[e].added = pc[e].added
  /\ peer'[e].wanted = peer[e].wanted /\ peer'[e].open = peer[e].open
  /\ peer'[e].failed = peer[e].failed
  /\ peer[e].wanted
  /\ \/ pc'[e].remote = pc[e].remote
     \/ /\ pc'[e].remote = pc[Other(e)].generation
        /\ ~OfferRelayed /\ ~AnswerRelayed
  /\ Orderly(e, chain'[e], pc'[e].state, peer'[e].makingOffer,
             peer'[e].isSettingRemoteAnswerPending, peer'[e].wanted)
  /\ ~HasCreating(chain'[e])
  /\ \A o \in ToSet(chain'[e]) :
       \/ o \in ToSet(chain[e])
       \/ ~Taking(o) /\ o.do = "candidate" /\ o.signal.generation = pc'[e].remote
       \/ o = Local("offer")
  /\ Answering(e)' => \/ Answering(e) /\ pc'[e].sections = pc[e].sections
                      \/ Both => pc'[e].sections > 0
  /\ Offering(e)' => Offering(e) /\ pc'[e].remote = pc[e].remote
  /\ pc'[e].remote = NoGeneration => (Offering(e)' <=> Offering(e))

\* With the offers in their turns all is well.
LEMMA WorksKeeps ==
  ASSUME PeerInv, NEW e \in Ends, Works(e), Turns',
         Alive => Alive' \/ (Offering(Initiator)' /\ Got'),
         Offering(Initiator) /\ Got => Offering(Initiator)' /\ Got',
         Offering(Initiator) /\ HasAnswer(wire[Initiator]) => Offering(Initiator)'
  PROVE  PeerInv'
<1>1. (\A f \in Ends : Facts(f)) /\ TurnFacts
  BY PeerFacts, TurnsTaken
<1>2. peer[Initiator].wanted
  BY <1>1 DEF Works, Facts
<1>3. Typed'
  BY DEF Works, PeerInv, Typed
<1>4. NeverRejected'
  BY DEF Works, PeerInv, NeverRejected
<1>5. ASSUME NEW f \in Ends PROVE Chained(f)'
  <2>1. CASE f = e
    BY <2>1 DEF Works, Chained
  <2>2. CASE f # e
    BY <2>2 DEF Works, Chained, PeerInv
  <2> QED  BY <2>1, <2>2
<1>6. (OfferRelayed' <=> OfferRelayed) /\ (AnswerRelayed' <=> AnswerRelayed)
  BY DEF Works, OfferRelayed, AnswerRelayed
<1>7. \A f \in Ends : /\ peer'[f].wanted = peer[f].wanted
                      /\ peer'[f].open = peer[f].open
                      /\ pc'[f].generation = pc[f].generation
                      /\ pc'[f].added = pc[f].added
                      /\ HasCreating(chain'[f]) => HasCreating(chain[f])
  BY DEF Works
<1>8. Both' <=> Both
  BY <1>7, TwoEnds DEF Both
<1>9. Crossing'
  <2>1. Crossed(wire[Initiator], Alive, Offering(Initiator), Got)
    BY DEF PeerInv, Crossing
  <2>2. Crossed(wire[Initiator], Alive', Offering(Initiator)', Got')
    BY <2>1, CrossedKept
  <2> QED  BY <2>2 DEF Works, PeerInv, Crossing
<1>10. Relayed'
  <2>1. OfferRelayed \/ AnswerRelayed => pc'[Initiator].remote = NoGeneration
    BY TwoEnds DEF Works, PeerInv, Relayed
  <2> QED  BY <1>6, <1>7, <2>1, TwoEnds DEF Works, PeerInv, Relayed
<1>11. Pooled'
  <2>1. ~peer[Responder].wanted => e = Initiator
    BY TwoEnds DEF Works
  <2>2. pc'[Initiator].remote = NoGeneration => Offering(Initiator)'
    <3>1. CASE e = Initiator
      <4>1. pc'[Initiator].remote = NoGeneration => pc[Initiator].remote = NoGeneration
        BY <1>1, <3>1, TwoEnds DEF Works, Facts, Generations, NoGeneration
      <4>2. pc[Initiator].remote = NoGeneration => Offering(Initiator)
        BY <1>2 DEF PeerInv, Pooled
      <4> QED  BY <3>1, <4>1, <4>2, TwoEnds DEF Works
    <3>2. CASE e # Initiator
      BY <1>2, <3>2, TwoEnds DEF Works, PeerInv, Pooled, Offering
    <3> QED  BY <3>1, <3>2
  <2>3. ~peer[Responder].wanted =>
          /\ chain'[Responder] = <<>> /\ pc'[Responder].state = "stable"
          /\ pc'[Responder].remote = NoGeneration
    BY <2>1, TwoEnds DEF Works, PeerInv, Pooled
  <2> QED  BY <1>2, <1>7, <2>2, <2>3, TwoEnds DEF Pooled
<1>12. \A f \in Ends : pc[f].remote # NoGeneration => pc'[f].remote # NoGeneration
  <2>1. \A f \in Ends : pc[f].generation # NoGeneration
    BY <1>1 DEF Facts, Generations, NoGeneration
  <2> QED  BY <2>1, TwoEnds DEF Works
<1>13. Opening'
  <2>1. ASSUME NEW f \in Ends, NEW o \in ToSet(chain'[f]), Both, Taking(o)
        PROVE  o.signal.sections > 0
    <3>1. ~Taking(Local("offer"))
      BY DEF Taking, Local, Op
    <3>2. o \in ToSet(chain[f])
      BY <2>1, <3>1 DEF Works
    <3> QED  BY <2>1, <3>2 DEF PeerInv, Opening
  <2>2. ASSUME NEW f \in Ends, Both, Answering(f)' PROVE pc'[f].sections > 0
    <3>1. CASE f = e
      BY <2>2, <3>1 DEF Works, PeerInv, Opening
    <3>2. CASE f # e
      BY <2>2, <3>2 DEF Works, PeerInv, Opening, Answering
    <3> QED  BY <3>1, <3>2
  <2>3. ASSUME ~Both
        PROVE  /\ Offering(Initiator)' => pc'[Initiator].remote = NoGeneration
               /\ ~Offering(Responder)'
    <3>1. CASE e = Initiator
      BY <2>3, <3>1, TwoEnds DEF Works, PeerInv, Opening, Offering
    <3>2. CASE e = Responder
      BY <2>3, <3>2, TwoEnds DEF Works, PeerInv, Opening, Offering
    <3> QED  BY <3>1, <3>2, TwoEnds
  <2>4. wire' = wire
    BY DEF Works
  <2> QED
    BY <1>7, <1>8, <1>12, <2>1, <2>2, <2>3, <2>4, TwoEnds DEF PeerInv, Opening
<1>14. Current'
  <2>1. ASSUME NEW f \in Ends
        PROVE  pc'[f].remote \in {NoGeneration, pc'[Other(f)].generation}
    BY <1>7, TwoEnds DEF Works, PeerInv, Current
  <2>2. ASSUME NEW f \in Ends, NEW o \in ToSet(chain[f])
        PROVE  /\ o.do = "remote" => o.signal.generation = pc'[Other(f)].generation
               /\ o.do = "candidate" => o.signal.generation = pc'[f].remote
    <3>1. o \in Operations
      <4>1. chain[f] \in Seq(Operations)
        BY DEF PeerInv, Typed
      <4> QED  BY <4>1 DEF ToSet
    <3>2. o.do = "candidate" => o.signal.generation = pc'[f].remote
      <4> SUFFICES ASSUME o.do = "candidate"
                   PROVE  o.signal.generation = pc'[f].remote
        OBVIOUS
      <4>1. o.signal.generation = pc[f].remote /\ o.signal.generation \in Generations
        BY <3>1 DEF PeerInv, Current, Operations, Signals
      <4>2. pc[f].remote = pc[Other(f)].generation
        BY <4>1 DEF PeerInv, Current, Generations, NoGeneration
      <4> QED  BY <4>1, <4>2 DEF Works
    <3> QED  BY <1>7, <3>2, TwoEnds DEF PeerInv, Current
  <2>3. ASSUME NEW f \in Ends, NEW o \in ToSet(chain'[f])
        PROVE  /\ o.do = "remote" => o.signal.generation = pc'[Other(f)].generation
               /\ o.do = "candidate" => o.signal.generation = pc'[f].remote
    <3>1. Local("offer").do = "local"
      BY DEF Local, Op
    <3> QED  BY <2>2, <2>3, <3>1 DEF Works
  <2>4. relays' = relays /\ wire' = wire
    BY DEF Works
  <2> QED  BY <1>7, <2>1, <2>3, <2>4, TwoEnds DEF PeerInv, Current
<1> QED
  BY <1>3, <1>4, <1>5, <1>9, <1>10, <1>11, <1>13, <1>14 DEF PeerInv

\* rollback, of an offer that is given up.
LEMMA yieldingKeeps ==
  ASSUME PeerInv, NEW e \in Ends, chain[e] # <<>>, rollback(e),
         Yielding(chain[e][1]), UNCHANGED <<plan, owned>>
  PROVE  PeerInv'
<1>1. Facts(e) /\ (\A f \in Ends : Facts(f)) /\ TurnFacts
  BY PeerFacts, TurnsTaken
<1>2. /\ pc[e].state = "have-local-offer" /\ e = Responder /\ ~peer[e].makingOffer
      /\ Orderly(e, Tail(chain[e]), "stable", peer[e].makingOffer,
                 peer[e].isSettingRemoteAnswerPending, peer[e].wanted)
      /\ HasTaking(Tail(chain[e])) /\ HasTaking(chain[e])
      /\ ~HasSettling(Tail(chain[e])) /\ ~HasSettling(chain[e])
      /\ ~HasCreating(Tail(chain[e]))
  BY FirstKind, YieldingDone
<1>3. /\ Head(chain[e]) = chain[e][1] /\ chain[e][1].for = "offer"
      /\ Tail(chain[e]) \in Seq(Operations)
      /\ ToSet(Tail(chain[e])) \subseteq ToSet(chain[e])
  BY FirstKind DEF Yielding, Rollback, Op
<1>4. /\ pc' = [pc EXCEPT ![e].state = "stable", ![e].needed = FALSE]
      /\ chain' = [chain EXCEPT ![e] = Tail(@) \o <<>>]
      /\ peer' = peer /\ relays' = relays /\ wire' = wire
  BY <1>2, <1>3 DEF rollback
<1>5. /\ pc' \in [Ends -> Connections]
      /\ pc'[e].state = "stable" /\ pc'[e].generation = pc[e].generation
      /\ pc'[e].remote = pc[e].remote /\ pc'[e].added = pc[e].added
      /\ pc'[e].sections = pc[e].sections
      /\ \A f \in Ends : f # e => pc'[f] = pc[f]
  <2>1. pc \in [Ends -> Connections]
    BY DEF PeerInv, Typed
  <2> QED  BY <1>4, <2>1 DEF Connections
<1>6. /\ chain'[e] = Tail(chain[e])
      /\ \A f \in Ends : f # e => chain'[f] = chain[f]
      /\ chain' \in [Ends -> Seq(Operations)]
  <2>1. chain \in [Ends -> Seq(Operations)] /\ Tail(chain[e]) \o <<>> = Tail(chain[e])
    BY <1>3 DEF PeerInv, Typed
  <2> QED  BY <1>3, <1>4, <2>1
<1>7. /\ ~Offering(e)' /\ ~Answering(e)' /\ Offering(e) /\ ~Answering(e)
      /\ peer[e].wanted /\ peer' \in [Ends -> PeerHandles]
  <2>1. peer[e].wanted
    BY <1>1, <1>2 DEF Facts
  <2> QED  BY <1>2, <1>4, <1>5, <2>1 DEF Offering, Answering, PeerInv, Typed
<1>8. pc'[e].remote # NoGeneration
  <2>1. pc[Responder].remote # NoGeneration
    <3>1. Both
      BY <1>2, <1>7 DEF PeerInv, Opening
    <3> QED  BY <1>1, <1>2, <3>1, TwoEnds DEF Facts, Both
  <2> QED  BY <1>2, <1>5, <2>1
<1>9. Works(e)
  BY <1>2, <1>3, <1>4, <1>5, <1>6, <1>7, <1>8 DEF Works
<1>10. /\ Offering(Initiator) /\ ~HasTaking(chain[Initiator]) /\ ~Answering(Initiator)
       /\ ~HasAnswer(wire[Responder]) /\ ~HasSettling(chain[Responder])
  <2>1. Offering(Initiator) /\ ~HasSettling(chain[Initiator])
    BY <1>2 DEF PeerInv, Turns, One
  <2>2. ~HasTaking(chain[Initiator]) /\ ~HasAnswer(wire[Responder])
    BY <1>1, <1>2, <2>1 DEF TurnFacts
  <2> QED  BY <1>2, <2>1, <2>2 DEF Offering, Answering
<1>11. /\ pc'[Initiator] = pc[Initiator] /\ chain'[Initiator] = chain[Initiator]
       /\ (Offering(Initiator)' <=> Offering(Initiator))
       /\ (Answering(Initiator)' <=> Answering(Initiator))
  BY <1>2, <1>5, <1>6, TwoEnds DEF Offering, Answering
<1>12. (OfferRelayed' <=> OfferRelayed) /\ (AnswerRelayed' <=> AnswerRelayed)
  BY <1>4 DEF OfferRelayed, AnswerRelayed
<1>13. Turns'
  BY <1>2, <1>4, <1>6, <1>7, <1>10, <1>11, <1>12 DEF PeerInv, Turns, One
<1>14. Got /\ Got'
  BY <1>2, <1>6 DEF Got
<1> QED
  BY <1>9, <1>10, <1>11, <1>13, <1>14, WorksKeeps

(* What flushPendingRemoteCandidates leaves of a chain, when the description *)
(* is of generation g: a candidate, or nothing, or what follows. *)
Flushed(e, g, for) ==
  \/ /\ g \in Generations
     /\ chain'[e] = Append(Tail(chain[e]), Op("candidate", Candidate(g), for))
     /\ peer'[e].isSettingRemoteAnswerPending = peer[e].isSettingRemoteAnswerPending
  \/ /\ chain'[e] = Tail(chain[e]) \o Then(e, for)
     /\ peer'[e].isSettingRemoteAnswerPending =
          (peer[e].isSettingRemoteAnswerPending /\ for # "answer")

LEMMA FlushedSo ==
  ASSUME PeerInv, NEW e \in Ends, NEW g \in Generations,
         NEW for \in {"offer", "answer"}, chain[e] # <<>>,
         flushPendingRemoteCandidates(e, g, for)
  PROVE  /\ Flushed(e, g, for)
         /\ chain' \in [Ends -> Seq(Operations)] /\ peer' \in [Ends -> PeerHandles]
         /\ \A f \in Ends : f # e => chain'[f] = chain[f] /\ peer'[f] = peer[f]
         /\ peer'[e].wanted = peer[e].wanted /\ peer'[e].open = peer[e].open
         /\ peer'[e].failed = peer[e].failed
         /\ peer'[e].makingOffer = peer[e].makingOffer
<1>1. /\ chain \in [Ends -> Seq(Operations)] /\ peer \in [Ends -> PeerHandles]
      /\ peer[e] \in PeerHandles /\ Tail(chain[e]) \in Seq(Operations)
  BY FirstKind DEF PeerInv, Typed
<1>2. CASE g \in peer[e].held
  <2> DEFINE x == Op("candidate", Candidate(g), for)
  <2>1. /\ chain' = [chain EXCEPT ![e] = Append(Tail(@), x)]
        /\ peer' = [peer EXCEPT ![e].held = @ \ {g}]
    BY <1>2 DEF flushPendingRemoteCandidates
  <2>2. x \in Operations
    BY CandidateKinds
  <2>3. Append(Tail(chain[e]), x) \in Seq(Operations)
    BY <1>1, <2>2
  <2>4. peer[e].held \ {g} \in SUBSET Generations
    BY <1>1 DEF PeerHandles
  <2> HIDE DEF x
  <2>5. /\ chain' \in [Ends -> Seq(Operations)]
        /\ chain'[e] = Append(Tail(chain[e]), x)
        /\ \A f \in Ends : f # e => chain'[f] = chain[f]
    BY <1>1, <2>1, <2>3
  <2>6. /\ peer' \in [Ends -> PeerHandles]
        /\ \A f \in Ends : f # e => peer'[f] = peer[f]
        /\ peer'[e].wanted = peer[e].wanted /\ peer'[e].open = peer[e].open
        /\ peer'[e].failed = peer[e].failed
        /\ peer'[e].makingOffer = peer[e].makingOffer
        /\ peer'[e].isSettingRemoteAnswerPending
             = peer[e].isSettingRemoteAnswerPending
    BY <1>1, <2>1, <2>4 DEF PeerHandles
  <2> QED  BY <2>5, <2>6 DEF Flushed, x
<1>3. CASE g \notin peer[e].held
  <2>1. /\ chain' = [chain EXCEPT ![e] = Tail(@) \o Then(e, for)]
        /\ peer' = Settled(e, for)
    BY <1>3 DEF flushPendingRemoteCandidates
  <2>2. Then(e, for) \in Seq(Operations)
    BY OperationTypes DEF Then
  <2>3. Tail(chain[e]) \o Then(e, for) \in Seq(Operations)
    BY <1>1, <2>2
  <2>4. /\ chain' \in [Ends -> Seq(Operations)]
        /\ chain'[e] = Tail(chain[e]) \o Then(e, for)
        /\ \A f \in Ends : f # e => chain'[f] = chain[f]
    BY <1>1, <2>1, <2>3
  <2>5. /\ peer' \in [Ends -> PeerHandles]
        /\ \A f \in Ends : f # e => peer'[f] = peer[f]
        /\ peer'[e].wanted = peer[e].wanted /\ peer'[e].open = peer[e].open
        /\ peer'[e].failed = peer[e].failed
        /\ peer'[e].makingOffer = peer[e].makingOffer
        /\ peer'[e].isSettingRemoteAnswerPending =
             (peer[e].isSettingRemoteAnswerPending /\ for # "answer")
    <3>1. CASE for = "answer"
      <4>1. peer' = [peer EXCEPT ![e].isSettingRemoteAnswerPending = FALSE]
        BY <2>1, <3>1 DEF Settled
      <4> QED  BY <1>1, <3>1, <4>1 DEF PeerHandles
    <3>2. CASE for # "answer"
      <4>1. peer' = peer
        BY <2>1, <3>2 DEF Settled
      <4> QED  BY <1>1, <3>2, <4>1 DEF PeerHandles
    <3> QED  BY <3>1, <3>2
  <2> QED  BY <2>4, <2>5 DEF Flushed
<1> QED  BY <1>2, <1>3

(* What setRemoteDescription leaves of a connection. *)
Described(e, state) ==
  /\ pc' \in [Ends -> Connections]
  /\ pc'[e].state = state
  /\ pc'[e].remote = pc[Other(e)].generation /\ pc'[e].remote \in Generations
  /\ pc'[e].generation = pc[e].generation /\ pc'[e].added = pc[e].added
  /\ pc'[e].sections = Larger(pc[e].sections, chain[e][1].signal.sections)
  /\ pc'[e].sections \in Nat /\ pc'[e].sections >= chain[e][1].signal.sections
  /\ \A f \in Ends : f # e => pc'[f] = pc[f]

LEMMA DescribedSo ==
  ASSUME PeerInv, NEW e \in Ends, chain[e] # <<>>, setRemoteDescription(e),
         \/ Taking(chain[e][1])
         \/ Settling(chain[e][1]) /\ pc[e].state = "have-local-offer"
  PROVE  /\ Described(e, IF Taking(chain[e][1]) THEN "have-remote-offer"
                                                ELSE "stable")
         /\ flushPendingRemoteCandidates(e, pc'[e].remote, chain[e][1].for)
         /\ relays' = relays /\ wire' = wire
<1> DEFINE d == chain[e][1].signal
           g == pc[Other(e)].generation
           described == [pc[e] EXCEPT !.remote = d.generation,
                                      !.sections = Larger(@, d.sections),
                                      !.arrived = Larger(@, d.tracks)]
<1>1. /\ Head(chain[e]) = chain[e][1] /\ chain[e][1] \in ToSet(chain[e])
      /\ chain[e][1] \in Operations
  BY FirstKind
<1>2. /\ d \in Signals /\ chain[e][1].do = "remote"
      /\ Taking(chain[e][1]) <=> d.type = "offer"
      /\ d.type = "answer" => pc[e].state = "have-local-offer"
      /\ d.type \in {"offer", "answer"}
  BY <1>1 DEF Operations, Taking, Settling
<1>3. d.generation = g /\ g \in Generations
  <2>1. d.generation = g
    BY <1>1, <1>2 DEF PeerInv, Current
  <2> QED  BY <1>2, <2>1 DEF Signals
<1>4. /\ pc' = [pc EXCEPT ![e] =
           IF d.type = "offer"
             THEN [described EXCEPT !.state = "have-remote-offer"]
             ELSE [described EXCEPT !.state = "stable",
                                    !.sending = pc[e].offering,
                                    !.needed = FALSE]]
      /\ flushPendingRemoteCandidates(e, d.generation, chain[e][1].for)
      /\ relays' = relays /\ wire' = wire
  BY <1>1, <1>2 DEF setRemoteDescription
<1>5. /\ pc \in [Ends -> Connections] /\ pc[e] \in Connections
      /\ d.sections \in Tracks /\ d.tracks \in Tracks
      /\ pc[e].sections \in Tracks /\ pc[e].arrived \in Tracks
      /\ pc[e].offering \in Tracks
  BY <1>2 DEF PeerInv, Typed, Signals, Connections
<1> DEFINE l == Larger(pc[e].sections, d.sections)
           a == Larger(pc[e].arrived, d.tracks)
<1>6. l \in Tracks /\ a \in Tracks /\ l \in Nat /\ l >= d.sections
  BY <1>5, BoundsAssumption DEF Larger, Tracks
<1>7. pc' = [pc EXCEPT ![e] =
        IF d.type = "offer"
          THEN [pc[e] EXCEPT !.remote = d.generation, !.sections = l, !.arrived = a,
                             !.state = "have-remote-offer"]
          ELSE [pc[e] EXCEPT !.remote = d.generation, !.sections = l, !.arrived = a,
                             !.state = "stable", !.sending = pc[e].offering,
                             !.needed = FALSE]]
  BY <1>4
<1>8. l = Larger(pc[e].sections, chain[e][1].signal.sections)
  OBVIOUS
<1> HIDE DEF l, a, described
<1>9. CASE d.type = "offer"
  <2>1. pc' = [pc EXCEPT ![e] =
          [pc[e] EXCEPT !.remote = d.generation, !.sections = l, !.arrived = a,
                        !.state = "have-remote-offer"]]
    BY <1>7, <1>9
  <2>2. Described(e, "have-remote-offer")
    BY <1>3, <1>5, <1>6, <1>8, <2>1 DEF Described, Connections
  <2>3. pc'[e].remote = d.generation
    BY <1>3, <2>2 DEF Described
  <2> QED  BY <1>2, <1>4, <1>9, <2>2, <2>3
<1>10. CASE d.type = "answer"
  <2>1. pc' = [pc EXCEPT ![e] =
          [pc[e] EXCEPT !.remote = d.generation, !.sections = l, !.arrived = a,
                        !.state = "stable", !.sending = pc[e].offering,
                        !.needed = FALSE]]
    BY <1>7, <1>10
  <2>2. Described(e, "stable")
    BY <1>3, <1>5, <1>6, <1>8, <2>1 DEF Described, Connections
  <2>3. pc'[e].remote = d.generation
    BY <1>3, <2>2 DEF Described
  <2> QED  BY <1>2, <1>4, <1>10, <2>2, <2>3
<1> QED  BY <1>2, <1>9, <1>10

\* setRemoteDescription, of an answer.
LEMMA settlingKeeps ==
  ASSUME PeerInv, NEW e \in Ends, chain[e] # <<>>, setRemoteDescription(e),
         Settling(chain[e][1]), UNCHANGED <<plan, owned>>
  PROVE  PeerInv'
<1> DEFINE t == Tail(chain[e])
           x == Op("candidate", Candidate(pc'[e].remote), "answer")
<1>1. Facts(e) /\ (\A f \in Ends : Facts(f)) /\ TurnFacts
  BY PeerFacts, TurnsTaken
<1>2. /\ pc[e].state = "have-local-offer" /\ ~peer[e].makingOffer
      /\ \A q : ~q => Orderly(e, t, "stable", peer[e].makingOffer, q, peer[e].wanted)
      /\ HasTaking(t) <=> HasTaking(chain[e])
      /\ ~HasSettling(t) /\ HasSettling(chain[e]) /\ ~HasCreating(t)
  <2> DEFINE c == chain[e]
             s == pc[e].state
             m == peer[e].makingOffer
             p == peer[e].isSettingRemoteAnswerPending
             w == peer[e].wanted
  <2>1. /\ c \in Seq(Operations) /\ c # <<>> /\ Settling(c[1])
        /\ Orderly(e, c, s, m, p, w)
    BY FirstKind
  <2> HIDE DEF c, s, m, p, w
  <2>2. /\ s = "have-local-offer" /\ ~m
        /\ \A q : ~q => Orderly(e, Tail(c), "stable", m, q, w)
        /\ HasTaking(Tail(c)) <=> HasTaking(c)
        /\ ~HasSettling(Tail(c)) /\ HasSettling(c) /\ ~HasCreating(Tail(c))
    BY <2>1, SettlingDone
  <2> QED  BY <2>2 DEF c, s, m, p, w
<1>3. /\ t \in Seq(Operations) /\ ToSet(t) \subseteq ToSet(chain[e])
      /\ chain[e][1].for = "answer" /\ ~Taking(chain[e][1])
      /\ peer[e].wanted
  BY <1>1, <1>2, FirstKind, KindsApart DEF Settling, Facts
<1>4. /\ Described(e, "stable") /\ relays' = relays /\ wire' = wire
      /\ flushPendingRemoteCandidates(e, pc'[e].remote, "answer")
  BY <1>2, <1>3, DescribedSo
<1>5. pc'[e].remote \in Generations /\ pc'[e].remote # NoGeneration
  BY <1>4 DEF Described, Generations, NoGeneration
<1>6. /\ Flushed(e, pc'[e].remote, "answer")
      /\ chain' \in [Ends -> Seq(Operations)] /\ peer' \in [Ends -> PeerHandles]
      /\ \A f \in Ends : f # e => chain'[f] = chain[f] /\ peer'[f] = peer[f]
      /\ peer'[e].wanted = peer[e].wanted /\ peer'[e].open = peer[e].open
      /\ peer'[e].failed = peer[e].failed
      /\ peer'[e].makingOffer = peer[e].makingOffer
  BY <1>4, <1>5, FlushedSo
<1>7. /\ Orderly(e, chain'[e], "stable", peer'[e].makingOffer,
                 peer'[e].isSettingRemoteAnswerPending, peer'[e].wanted)
      /\ HasTaking(chain'[e]) <=> HasTaking(chain[e])
      /\ ~HasSettling(chain'[e]) /\ ~HasCreating(chain'[e])
      /\ \A o \in ToSet(chain'[e]) :
           \/ o \in ToSet(chain[e])
           \/ ~Taking(o) /\ o.do = "candidate" /\ o.signal.generation = pc'[e].remote
  <2>1. CASE chain'[e] = Append(t, x)
             /\ peer'[e].isSettingRemoteAnswerPending
                  = peer[e].isSettingRemoteAnswerPending
    <3>1. /\ x \in Operations /\ Adding(x) /\ ~Replying(x) /\ Finishing(x)
          /\ ~Taking(x) /\ x.do = "candidate" /\ x.signal.generation = pc'[e].remote
      BY <1>5, CandidateKinds
    <3> HIDE DEF x, t
    <3>2. /\ Orderly(e, Append(t, x), "stable", peer[e].makingOffer,
                     peer[e].isSettingRemoteAnswerPending, peer[e].wanted)
          /\ HasTaking(Append(t, x)) <=> HasTaking(t)
          /\ HasSettling(Append(t, x)) <=> HasSettling(t)
          /\ HasCreating(Append(t, x)) <=> HasCreating(t)
      <4>2. PICK q : ~q
        OBVIOUS
      <4>1. /\ Orderly(e, t, "stable", peer[e].makingOffer, q, peer[e].wanted)
            /\ ~HasCreating(t) /\ t \in Seq(Operations) /\ peer[e].wanted
            /\ "stable" # "have-local-offer"
        BY <1>2, <1>3, <4>2
      <4> QED  BY <3>1, <4>1, FinishingJoins
    <3>3. ToSet(Append(t, x)) = ToSet(t) \union {x}
      BY <1>3, <3>1, Longer
    <3> QED  BY <1>2, <1>3, <1>6, <2>1, <3>1, <3>2, <3>3
  <2>2. CASE chain'[e] = t \o Then(e, "answer")
             /\ peer'[e].isSettingRemoteAnswerPending =
                  (peer[e].isSettingRemoteAnswerPending /\ "answer" # "answer")
    <3>1. t \o Then(e, "answer") = t
      BY <1>3 DEF Then
    <3>2. ~peer'[e].isSettingRemoteAnswerPending
      BY <2>2
    <3> HIDE DEF t
    <3> QED  BY <1>2, <1>3, <1>6, <2>2, <3>1, <3>2
  <2> QED  BY <1>6, <2>1, <2>2 DEF Flushed
<1>8. /\ ~Offering(e)' /\ ~Answering(e)' /\ Offering(e) /\ ~Answering(e)
      /\ pc'[e].state = "stable"
  BY <1>2, <1>4 DEF Offering, Answering, Described
<1>9. ~OfferRelayed /\ ~AnswerRelayed
  <2>1. CASE e = Initiator
    BY <1>2, <2>1 DEF PeerInv, Turns, One
  <2>2. CASE e = Responder
    <3>1. Both
      BY <1>8, <2>2 DEF PeerInv, Opening
    <3>2. pc[Initiator].remote # NoGeneration
      BY <1>1, <3>1, TwoEnds DEF Both, Facts
    <3> QED  BY <3>2 DEF PeerInv, Relayed
  <2> QED  BY <2>1, <2>2, TwoEnds
<1>10. Works(e)
  BY <1>3, <1>4, <1>5, <1>6, <1>7, <1>8, <1>9 DEF Works, Described
<1>11. (OfferRelayed' <=> OfferRelayed) /\ (AnswerRelayed' <=> AnswerRelayed)
  BY <1>4 DEF OfferRelayed, AnswerRelayed
<1>12. /\ \A f \in Ends : f # e =>
            /\ Offering(f)' <=> Offering(f)
            /\ Answering(f)' <=> Answering(f)
            /\ chain'[f] = chain[f] /\ peer'[f].wanted = peer[f].wanted
       /\ peer'[e].wanted = peer[e].wanted
  BY <1>4, <1>6 DEF Described, Offering, Answering
<1>13. CASE e = Initiator
  <2>1. Turns'
    BY <1>2, <1>3, <1>4, <1>7, <1>8, <1>11, <1>12, <1>13, TwoEnds DEF PeerInv, Turns, One
  <2>2. (Alive' <=> Alive) /\ (Got' <=> Got)
    BY <1>2, <1>4, <1>7, <1>8, <1>12, <1>13, TwoEnds DEF Alive, Got
  <2>3. ~Got /\ ~HasAnswer(wire[Initiator])
    BY <1>2, <1>13 DEF PeerInv, Turns, One, Got
  <2> QED  BY <1>10, <2>1, <2>2, <2>3, WorksKeeps
<1>14. CASE e = Responder
  <2>1. Turns'
    BY <1>2, <1>4, <1>7, <1>8, <1>11, <1>12, <1>14, TwoEnds DEF PeerInv, Turns, One
  <2>2. ~Alive /\ (Got' <=> Got) /\ (Offering(Initiator)' <=> Offering(Initiator))
    BY <1>2, <1>4, <1>7, <1>8, <1>12, <1>14, TwoEnds DEF Alive, Got
  <2> QED  BY <1>10, <2>1, <2>2, WorksKeeps
<1> QED  BY <1>13, <1>14, TwoEnds

\* setRemoteDescription, of an offer.
LEMMA takingKeeps ==
  ASSUME PeerInv, NEW e \in Ends, chain[e] # <<>>, setRemoteDescription(e),
         Taking(chain[e][1]), UNCHANGED <<plan, owned>>
  PROVE  PeerInv'
<1> DEFINE t == Tail(chain[e])
<1>1. Facts(e) /\ (\A f \in Ends : Facts(f)) /\ TurnFacts
  BY PeerFacts, TurnsTaken
<1>2. /\ chain[e] \in Seq(Operations) /\ t \in Seq(Operations)
      /\ ToSet(t) \subseteq ToSet(chain[e])
      /\ chain[e][1] \in ToSet(chain[e]) /\ 1 \in DOMAIN chain[e]
      /\ chain[e][1].for = "offer"
      /\ peer[e].wanted /\ peer[Initiator].wanted
  <2>1. chain[e][1].for = "offer" /\ 1 \in DOMAIN chain[e]
    BY FirstKind DEF Taking
  <2>2. peer[e].wanted
    BY <1>1, <2>1 DEF Facts
  <2> QED  BY <1>1, <2>1, <2>2, FirstKind DEF Facts
<1>3. /\ Described(e, "have-remote-offer") /\ relays' = relays /\ wire' = wire
      /\ flushPendingRemoteCandidates(e, pc'[e].remote, "offer")
  BY <1>2, DescribedSo
<1>4. pc'[e].remote \in Generations /\ pc'[e].remote # NoGeneration
  BY <1>3 DEF Described, Generations, NoGeneration
<1>5. /\ Flushed(e, pc'[e].remote, "offer")
      /\ chain' \in [Ends -> Seq(Operations)] /\ peer' \in [Ends -> PeerHandles]
      /\ \A f \in Ends : f # e => chain'[f] = chain[f] /\ peer'[f] = peer[f]
      /\ peer'[e].wanted = peer[e].wanted /\ peer'[e].open = peer[e].open
      /\ peer'[e].failed = peer[e].failed
      /\ peer'[e].makingOffer = peer[e].makingOffer
  BY <1>3, <1>4, FlushedSo
<1>6. peer'[e].isSettingRemoteAnswerPending = peer[e].isSettingRemoteAnswerPending
  <2>1. peer[e].isSettingRemoteAnswerPending \in BOOLEAN /\ "offer" # "answer"
    BY <1>1 DEF Facts
  <2> QED  BY <1>5, <2>1 DEF Flushed
<1>7. PICK y \in Operations :
        /\ chain'[e] = Append(t, y) /\ Replying(y)
        /\ \/ ~Taking(y) /\ y.do = "candidate" /\ y.signal.generation = pc'[e].remote
           \/ y = Local("offer")
  <2>1. CASE chain'[e] = Append(t, Op("candidate", Candidate(pc'[e].remote), "offer"))
    BY <1>4, <2>1, CandidateKinds
  <2>2. CASE chain'[e] = t \o Then(e, "offer")
    <3>1. t \o <<Local("offer")>> = Append(t, Local("offer"))
      BY <1>2, OperationTypes, Longer
    <3> QED  BY <2>2, <3>1, OperationTypes DEF Then, Replying
  <2> QED  BY <1>5, <2>1, <2>2 DEF Flushed
<1>8. /\ pc[e].state = "stable" /\ HasTaking(chain[e])
      /\ Orderly(e, chain'[e], "have-remote-offer", peer[e].makingOffer,
                 peer[e].isSettingRemoteAnswerPending, peer[e].wanted)
      /\ ~HasTaking(chain'[e]) /\ ~HasSettling(chain'[e]) /\ ~HasSettling(chain[e])
      /\ ~HasCreating(chain'[e])
  <2> DEFINE c == chain[e]
             s == pc[e].state
             m == peer[e].makingOffer
             p == peer[e].isSettingRemoteAnswerPending
             w == peer[e].wanted
  <2>1. /\ c \in Seq(Operations) /\ c # <<>> /\ Taking(c[1])
        /\ Orderly(e, c, s, m, p, w)
    BY FirstKind
  <2>2. chain'[e] = Append(Tail(c), y)
    BY <1>7
  <2> HIDE DEF c, s, m, p, w
  <2>3. /\ s = "stable" /\ HasTaking(c)
        /\ Orderly(e, Append(Tail(c), y), "have-remote-offer", m, p, w)
        /\ ~HasTaking(Append(Tail(c), y))
        /\ ~HasSettling(Append(Tail(c), y)) /\ ~HasSettling(c)
        /\ ~HasCreating(Append(Tail(c), y))
    BY <1>7, <2>1, TakingDone
  <2> QED  BY <2>2, <2>3 DEF c, s, m, p, w
<1>9. \A o \in ToSet(chain'[e]) :
        \/ o \in ToSet(chain[e])
        \/ ~Taking(o) /\ o.do = "candidate" /\ o.signal.generation = pc'[e].remote
        \/ o = Local("offer")
  <2> HIDE DEF t
  <2>1. ToSet(Append(t, y)) = ToSet(t) \union {y}
    BY <1>2, Longer
  <2> QED  BY <1>2, <1>7, <2>1
<1>10. /\ ~Offering(e)' /\ Answering(e)' /\ ~Offering(e) /\ ~Answering(e)
       /\ pc'[e].state = "have-remote-offer"
  BY <1>3, <1>8 DEF Offering, Answering, Described
<1>11. Both => pc'[e].sections > 0
  <2>1. Both => chain[e][1].signal.sections > 0
    BY <1>2 DEF PeerInv, Opening
  <2>2. chain[e][1].signal.sections \in Nat
    <3>1. chain[e][1].signal \in Signals
      BY FirstKind DEF Operations
    <3> QED  BY <3>1, BoundsAssumption DEF Signals, Tracks
  <2> QED  BY <1>3, <2>1, <2>2 DEF Described
<1>12. ~OfferRelayed /\ ~AnswerRelayed
  <2>1. CASE e = Responder
    BY <1>8, <2>1 DEF PeerInv, Turns, One
  <2>2. CASE e = Initiator
    BY <1>10, <2>2 DEF PeerInv, Turns, One
  <2> QED  BY <2>1, <2>2, TwoEnds
<1>13. Works(e)
  BY <1>2, <1>3, <1>4, <1>5, <1>6, <1>8, <1>9, <1>10, <1>11, <1>12 DEF Works, Described
<1>14. (OfferRelayed' <=> OfferRelayed) /\ (AnswerRelayed' <=> AnswerRelayed)
  BY <1>3 DEF OfferRelayed, AnswerRelayed
<1>15. /\ \A f \in Ends : f # e =>
             /\ Offering(f)' <=> Offering(f)
             /\ Answering(f)' <=> Answering(f)
             /\ chain'[f] = chain[f] /\ peer'[f].wanted = peer[f].wanted
       /\ peer'[e].wanted = peer[e].wanted
  BY <1>3, <1>5 DEF Described, Offering, Answering
<1>16. CASE e = Initiator
  <2>1. Turns'
    BY <1>2, <1>3, <1>8, <1>10, <1>14, <1>15, <1>16, TwoEnds DEF PeerInv, Turns, One
  <2>2. ~Alive /\ ~Offering(Initiator)
    BY <1>8, <1>10, <1>16 DEF Alive
  <2> QED  BY <1>13, <2>1, <2>2, WorksKeeps
<1>17. CASE e = Responder
  <2>1. Turns'
    <3>1. ~HasAnswer(wire[Responder])
      BY <1>1, <1>8, <1>17 DEF TurnFacts
    <3> QED
      BY <1>2, <1>3, <1>8, <1>10, <1>14, <1>15, <1>17, <3>1, TwoEnds
         DEF PeerInv, Turns, One
  <2>2. ~Alive /\ Got' /\ (Offering(Initiator)' <=> Offering(Initiator))
    BY <1>8, <1>10, <1>15, <1>17, TwoEnds DEF Alive, Got
  <2> QED  BY <1>13, <2>1, <2>2, WorksKeeps
<1> QED  BY <1>16, <1>17, TwoEnds

\* addIceCandidate.
LEMMA addingKeeps ==
  ASSUME PeerInv, NEW e \in Ends, chain[e] # <<>>, addIceCandidate(e),
         UNCHANGED <<plan, owned>>
  PROVE  PeerInv'
<1> DEFINE t == Tail(chain[e])
           for == chain[e][1].for
<1>1. Facts(e) /\ (\A f \in Ends : Facts(f)) /\ TurnFacts
  BY PeerFacts, TurnsTaken
<1>2. /\ chain[e] \in Seq(Operations) /\ t \in Seq(Operations)
      /\ ToSet(t) \subseteq ToSet(chain[e])
      /\ chain[e][1] \in ToSet(chain[e]) /\ Head(chain[e]) = chain[e][1]
      /\ chain[e][1].do = "candidate" /\ Adding(chain[e][1])
      /\ chain[e][1].signal.generation = pc[e].remote
      /\ for \in {"none", "offer", "answer"}
      /\ Replying(chain[e][1]) <=> for = "offer"
      /\ Finishing(chain[e][1]) <=> for = "answer"
      /\ peer[e].wanted
  <2>1. /\ Head(chain[e]) = chain[e][1] /\ chain[e][1].do = "candidate"
        /\ Adding(chain[e][1]) /\ chain[e][1] \in ToSet(chain[e])
        /\ 1 \in DOMAIN chain[e]
    BY FirstKind DEF addIceCandidate
  <2>2. peer[e].wanted
    BY <1>1, <2>1 DEF Facts
  <2>3. chain[e][1].signal.generation = pc[e].remote
    BY <2>1 DEF PeerInv, Current
  <2>4. chain[e][1] # Local("offer")
    BY <2>1 DEF Local, Op
  <2>5. /\ for \in {"none", "offer", "answer"}
        /\ Replying(chain[e][1]) <=> for = "offer"
        /\ Finishing(chain[e][1]) <=> for = "answer"
    BY <2>1, <2>4 DEF Adding, Replying, Finishing
  <2> QED  BY <2>1, <2>2, <2>3, <2>5, FirstKind
<1>3. /\ chain' = [chain EXCEPT ![e] = Tail(@) \o Then(e, for)]
      /\ peer' = [Settled(e, for) EXCEPT ![e].applied = TRUE]
      /\ pc' = pc /\ relays' = relays /\ wire' = wire
  BY <1>2 DEF addIceCandidate
<1>4. /\ chain \in [Ends -> Seq(Operations)] /\ peer \in [Ends -> PeerHandles]
      /\ pc \in [Ends -> Connections] /\ peer[e] \in PeerHandles
  BY DEF PeerInv, Typed
<1>5. /\ \A f \in Ends : f # e => chain'[f] = chain[f]
      /\ chain' \in [Ends -> Seq(Operations)]
      /\ chain'[e] = IF for = "offer" THEN Append(t, Local("offer")) ELSE t
  <2>1. t \o <<Local("offer")>> = Append(t, Local("offer")) /\ t \o <<>> = t
        /\ Append(t, Local("offer")) \in Seq(Operations)
    BY <1>2, OperationTypes, Longer
  <2> QED  BY <1>2, <1>3, <1>4, <2>1 DEF Then
<1>6. /\ peer' \in [Ends -> PeerHandles]
      /\ \A f \in Ends : f # e => peer'[f] = peer[f]
      /\ peer'[e].wanted = peer[e].wanted /\ peer'[e].open = peer[e].open
      /\ peer'[e].failed = peer[e].failed
      /\ peer'[e].makingOffer = peer[e].makingOffer
      /\ for = "answer" => ~peer'[e].isSettingRemoteAnswerPending
      /\ for # "answer" => peer'[e].isSettingRemoteAnswerPending
                             = peer[e].isSettingRemoteAnswerPending
  <2>1. CASE for = "answer"
    <3>1. peer' = [peer EXCEPT ![e] = [peer[e] EXCEPT
                     !.isSettingRemoteAnswerPending = FALSE, !.applied = TRUE]]
      BY <1>3, <1>4, <2>1 DEF Settled
    <3> QED  BY <1>4, <2>1, <3>1 DEF PeerHandles
  <2>2. CASE for # "answer"
    <3>1. peer' = [peer EXCEPT ![e] = [peer[e] EXCEPT !.applied = TRUE]]
      BY <1>3, <1>4, <2>2 DEF Settled
    <3> QED  BY <1>4, <2>2, <3>1 DEF PeerHandles
  <2> QED  BY <2>1, <2>2
<1>7. /\ Orderly(e, chain'[e], pc[e].state, peer[e].makingOffer,
                 peer'[e].isSettingRemoteAnswerPending, peer[e].wanted)
      /\ HasTaking(chain'[e]) <=> HasTaking(chain[e])
      /\ HasSettling(chain'[e]) <=> HasSettling(chain[e])
      /\ ~HasCreating(chain'[e])
  <2> DEFINE c == chain[e]
             s == pc[e].state
             m == peer[e].makingOffer
             p == peer[e].isSettingRemoteAnswerPending
             q == peer'[e].isSettingRemoteAnswerPending
             w == peer[e].wanted
             x == Local("offer")
  <2>1. /\ c \in Seq(Operations) /\ c # <<>> /\ Adding(c[1])
        /\ Orderly(e, c, s, m, p, w)
        /\ x \in Operations /\ x = Local("offer")
    BY <1>2, FirstKind, OperationTypes
  <2>2. CASE for = "offer"
    <3>1. chain'[e] = Append(Tail(c), x) /\ Replying(c[1])
      BY <1>2, <1>5, <2>2
    <3>2. q = p
      BY <1>6, <2>2
    <3> HIDE DEF c, s, m, p, w, q, x
    <3>3. /\ Orderly(e, Append(Tail(c), x), s, m, p, w)
          /\ ~HasTaking(Append(Tail(c), x)) /\ ~HasTaking(c)
          /\ ~HasSettling(Append(Tail(c), x)) /\ ~HasSettling(c)
          /\ ~HasCreating(Append(Tail(c), x))
      BY <2>1, <3>1, ReplyNext
    <3>4. Orderly(e, Append(Tail(c), x), s, m, q, w)
      BY <3>2, <3>3
    <3> QED  BY <3>1, <3>3, <3>4 DEF c, s, m, q, w
  <2>3. CASE for # "offer"
    <3>1. chain'[e] = Tail(c) /\ ~Replying(c[1])
      BY <1>2, <1>5, <2>3
    <3>2. IF Finishing(c[1]) THEN ~q ELSE q = p
      BY <1>2, <1>6
    <3> HIDE DEF c, s, m, p, w, q, x
    <3>3. /\ Orderly(e, Tail(c), s, m, q, w)
          /\ HasTaking(Tail(c)) <=> HasTaking(c)
          /\ HasSettling(Tail(c)) <=> HasSettling(c)
          /\ ~HasCreating(Tail(c))
      BY <2>1, <3>1, <3>2, AddingDone
    <3> QED  BY <3>1, <3>3 DEF c, s, m, q, w
  <2> QED  BY <2>2, <2>3
<1>8. \A o \in ToSet(chain'[e]) : o \in ToSet(chain[e]) \/ o = Local("offer")
  <2> HIDE DEF t
  <2>1. ToSet(Append(t, Local("offer"))) = ToSet(t) \union {Local("offer")}
    BY <1>2, OperationTypes, Longer
  <2> QED  BY <1>2, <1>5, <2>1
<1>9. /\ \A f \in Ends : /\ Offering(f)' <=> Offering(f)
                         /\ Answering(f)' <=> Answering(f)
                         /\ HasTaking(chain'[f]) <=> HasTaking(chain[f])
                         /\ HasSettling(chain'[f]) <=> HasSettling(chain[f])
                         /\ peer'[f].wanted = peer[f].wanted
      /\ (OfferRelayed' <=> OfferRelayed) /\ (AnswerRelayed' <=> AnswerRelayed)
  BY <1>3, <1>5, <1>6, <1>7 DEF Offering, Answering, OfferRelayed, AnswerRelayed
<1>10. Works(e)
  BY <1>2, <1>3, <1>4, <1>5, <1>6, <1>7, <1>8, <1>9 DEF Works, Answering
<1>11. Turns'
  BY <1>3, <1>9, TwoEnds DEF PeerInv, Turns, One
<1>12. (Alive' <=> Alive) /\ (Got' <=> Got)
  BY <1>3, <1>9, TwoEnds DEF Alive, Got
<1> QED  BY <1>9, <1>10, <1>11, <1>12, TwoEnds, WorksKeeps

(* An end says something that describes nothing, and may have a track more. *)
Says(e, x) ==
  /\ plan' = plan /\ chain' = chain
  /\ owned' \in [Ends -> [Rooms -> Tracks]]
  /\ pc' \in [Ends -> Connections] /\ peer' \in [Ends -> PeerHandles]
  /\ \A f \in Ends :
       /\ pc'[f].state = pc[f].state /\ pc'[f].generation = pc[f].generation
       /\ pc'[f].remote = pc[f].remote /\ pc'[f].sections = pc[f].sections
       /\ pc[f].added > 0 => pc'[f].added > 0
       /\ pc'[f].added = pc[f].added \/ Both
       /\ peer'[f].wanted = peer[f].wanted /\ peer'[f].open = peer[f].open
       /\ peer'[f].failed = peer[f].failed
       /\ peer'[f].makingOffer = peer[f].makingOffer
       /\ peer'[f].isSettingRemoteAnswerPending
            = peer[f].isSettingRemoteAnswerPending
  /\ x \in Messages /\ ~Describes(x)
  /\ \/ relays' = relays
     \/ x \in Signals /\ peer[e].wanted /\ relays' = relays \union {<<Other(e), x>>}
  /\ \/ wire' = wire
     \/ peer[e].open /\ wire' = [wire EXCEPT ![Other(e)] = Append(@, x)]

LEMMA SaysKeeps ==
  ASSUME PeerInv, NEW e \in Ends, NEW x, Says(e, x)
  PROVE  PeerInv'
<1>1. \A f \in Ends : Facts(f)
  BY PeerFacts
<1>2. /\ wire \in [Ends -> Seq(Messages)] /\ Other(e) \in Ends
      /\ wire[Other(e)] \in Seq(Messages) /\ x \in Messages /\ ~Describes(x)
      /\ ~IsOffer(x) /\ ~IsAnswer(x)
  BY TwoEnds DEF Says, PeerInv, Typed, Describes
<1>3. /\ wire' \in [Ends -> Seq(Messages)]
      /\ wire'[e] = wire[e]
      /\ \/ wire'[Other(e)] = wire[Other(e)]
         \/ peer[e].open /\ wire'[Other(e)] = Append(wire[Other(e)], x)
  <2>1. Append(wire[Other(e)], x) \in Seq(Messages) /\ e # Other(e)
    BY <1>2, WireSent, TwoEnds
  <2>2. CASE wire' = wire
    BY <1>2, <2>2
  <2>3. CASE peer[e].open /\ wire' = [wire EXCEPT ![Other(e)] = Append(@, x)]
    <3> DEFINE o == Other(e)
    <3>1. /\ wire' = [wire EXCEPT ![o] = Append(wire[o], x)]
          /\ Append(wire[o], x) \in Seq(Messages) /\ e # o /\ o \in Ends
      BY <1>2, <2>1, <2>3
    <3> HIDE DEF o
    <3>2. /\ wire' \in [Ends -> Seq(Messages)]
          /\ wire'[e] = wire[e] /\ wire'[o] = Append(wire[o], x)
      BY <1>2, <3>1
    <3> QED  BY <2>3, <3>2 DEF o
  <2> QED  BY <2>2, <2>3 DEF Says
<1>4. /\ relays \subseteq relays' /\ relays' \subseteq Ends \X Signals
      /\ \A m \in relays' : m \in relays \/ ~Describes(m[2])
      /\ ~peer[e].wanted => relays' = relays
  BY <1>2 DEF Says, PeerInv, Typed
<1>5. Typed' /\ NeverRejected' /\ \A f \in Ends : Chained(f)'
  <2>1. Typed'
    BY <1>3, <1>4 DEF Says, PeerInv, Typed
  <2>2. NeverRejected' /\ \A f \in Ends : Chained(f)'
    BY DEF Says, PeerInv, NeverRejected, Chained
  <2> QED  BY <2>1, <2>2
<1>6. /\ \A f \in Ends : (Offering(f)' <=> Offering(f)) /\ (Answering(f)' <=> Answering(f))
      /\ Both' <=> Both
  BY TwoEnds DEF Says, Offering, Answering, Both
<1>7. (OfferRelayed' <=> OfferRelayed) /\ (AnswerRelayed' <=> AnswerRelayed)
  BY <1>4 DEF OfferRelayed, AnswerRelayed, Describes
<1>8. /\ \A f \in Ends : HasOffer(wire'[f]) <=> HasOffer(wire[f])
      /\ \A f \in Ends : HasAnswer(wire'[f]) <=> HasAnswer(wire[f])
      /\ \A f \in Ends : OneAnswer(wire'[f])
      /\ Ordered(wire'[Responder])
  <2>1. /\ \A f \in Ends : OneAnswer(wire[f])
        /\ Ordered(wire[Responder])
    BY DEF PeerInv, Crossing
  <2>2. /\ HasOffer(Append(wire[Other(e)], x)) <=> HasOffer(wire[Other(e)])
        /\ HasAnswer(Append(wire[Other(e)], x)) <=> HasAnswer(wire[Other(e)])
        /\ OneAnswer(Append(wire[Other(e)], x))
    BY <1>2, <2>1, WireSent
  <2>3. Ordered(wire[Other(e)]) => Ordered(Append(wire[Other(e)], x))
    BY <1>2, WireSent
  <2>4. /\ HasOffer(wire'[Other(e)]) <=> HasOffer(wire[Other(e)])
        /\ HasAnswer(wire'[Other(e)]) <=> HasAnswer(wire[Other(e)])
        /\ OneAnswer(wire'[Other(e)])
        /\ Ordered(wire[Other(e)]) => Ordered(wire'[Other(e)])
    <3>1. CASE wire'[Other(e)] = wire[Other(e)]
      BY <1>2, <2>1, <3>1
    <3>2. CASE wire'[Other(e)] = Append(wire[Other(e)], x)
      BY <2>2, <2>3, <3>2
    <3> QED  BY <1>3, <3>1, <3>2
  <2>5. \A f \in Ends : f = e \/ f = Other(e)
    BY TwoEnds
  <2>6. /\ \A f \in Ends : HasOffer(wire'[f]) <=> HasOffer(wire[f])
        /\ \A f \in Ends : HasAnswer(wire'[f]) <=> HasAnswer(wire[f])
        /\ \A f \in Ends : OneAnswer(wire'[f])
    BY <1>3, <2>1, <2>4, <2>5
  <2>7. Ordered(wire'[Responder])
    <3>1. Responder = e \/ Responder = Other(e)
      BY <2>5, TwoEnds
    <3>2. CASE Responder = e
      BY <1>3, <2>1, <3>2
    <3>3. CASE Responder = Other(e)
      BY <2>1, <2>4, <3>3
    <3> QED  BY <3>1, <3>2, <3>3
  <2> QED  BY <2>6, <2>7
<1>9. chain' = chain
  BY DEF Says
<1>10. Turns'
  BY <1>6, <1>7, <1>8, <1>9, TwoEnds DEF Says, PeerInv, Turns, One
<1>11. (Alive' <=> Alive) /\ (Got' <=> Got)
  BY <1>6, <1>8, <1>9, TwoEnds DEF Alive, Got
<1>12. Crossing'
  <2>1. Crossed(wire[Initiator], Alive, Offering(Initiator), Got)
    BY DEF PeerInv, Crossing
  <2>2. Crossed(wire'[Initiator], Alive, Offering(Initiator), Got)
    <3>1. CASE wire'[Initiator] = wire[Initiator]
      BY <2>1, <3>1
    <3>2. CASE wire'[Initiator] = Append(wire[Initiator], x)
      <4>1. /\ Alive \in BOOLEAN /\ Got \in BOOLEAN /\ Offering(Initiator) \in BOOLEAN
            /\ wire[Initiator] \in Seq(Messages)
        BY <1>2, TwoEnds DEF Alive, Got, Offering
      <4>2. Crossed(Append(wire[Initiator], x), Alive, Offering(Initiator), Got)
        BY <1>2, <2>1, <4>1, CrossedSent
      <4> QED  BY <3>2, <4>2
    <3> QED  BY <1>3, <3>1, <3>2, TwoEnds
  <2>3. Crossed(wire'[Initiator], Alive', Offering(Initiator)', Got')
    BY <1>6, <1>11, <2>2, TwoEnds, CrossedKept
  <2> QED  BY <1>8, <2>3 DEF Crossing
<1>13. Relayed'
  <2>1. \A m \in relays' : IsOffer(m[2]) \/ IsAnswer(m[2]) => m \in relays
    BY <1>4 DEF Describes
  <2>2. /\ \A m \in relays' : IsOffer(m[2]) => m[1] = Responder
        /\ \A m \in relays' : IsAnswer(m[2]) => m[1] = Initiator
        /\ \A m, n \in relays' : Describes(m[2]) /\ Describes(n[2]) => m = n
    BY <1>4, <2>1 DEF PeerInv, Relayed
  <2>3. /\ OfferRelayed' => ~peer'[Responder].wanted
        /\ OfferRelayed' \/ AnswerRelayed' => pc'[Initiator].remote = NoGeneration
    BY <1>7, TwoEnds DEF Says, PeerInv, Relayed
  <2> QED  BY <2>2, <2>3 DEF Relayed
<1>14. Pooled'
  <2>1. ~peer[Initiator].wanted => ~peer[e].wanted /\ ~peer[e].open
    BY <1>1 DEF Facts
  <2>2. ~peer[Initiator].wanted =>
          relays' = {} /\ \A f \in Ends : wire'[f] = <<>>
    BY <1>3, <1>4, <2>1, TwoEnds DEF PeerInv, Pooled
  <2>3. /\ \A f \in Ends : /\ peer'[f].wanted = peer[f].wanted
                           /\ pc'[f].remote = pc[f].remote
                           /\ pc'[f].state = pc[f].state
                           /\ pc'[f].generation = pc[f].generation
    BY DEF Says
  <2> QED  BY <1>6, <1>9, <2>2, <2>3, TwoEnds DEF PeerInv, Pooled
<1>15. \A f \in Ends : \A y \in ToSet(wire'[f]) : y \in ToSet(wire[f]) \/ ~Describes(y)
  <2>1. ToSet(Append(wire[Other(e)], x)) = ToSet(wire[Other(e)]) \union {x}
    BY <1>2, Longer
  <2>2. \A y \in ToSet(wire'[Other(e)]) : y \in ToSet(wire[Other(e)]) \/ y = x
    BY <1>3, <2>1
  <2>3. \A f \in Ends : f = e \/ f = Other(e)
    BY TwoEnds
  <2> QED  BY <1>2, <1>3, <2>2, <2>3
<1>16. \A f \in Ends : pc[f].added \in Nat /\ pc'[f].added \in Nat
  <2>1. \A f \in Ends : pc'[f] \in Connections
    BY DEF Says
  <2> QED  BY <1>1, <2>1, BoundsAssumption DEF Facts, Connections, Tracks
<1>17. Opening'
  <2>1. /\ \A f \in Ends : /\ peer'[f].wanted = peer[f].wanted
                           /\ peer'[f].open = peer[f].open
                           /\ pc'[f].remote = pc[f].remote
                           /\ pc'[f].sections = pc[f].sections
                           /\ ~Both => pc'[f].added = pc[f].added
                           /\ pc[f].added > 0 => pc'[f].added > 0
    BY <1>16 DEF Says
  <2> QED  BY <1>6, <1>8, <1>9, <1>15, <2>1, TwoEnds DEF PeerInv, Opening
<1>18. Current'
  <2>1. \A f \in Ends : /\ pc'[f].remote = pc[f].remote
                        /\ pc'[f].generation = pc[f].generation
    BY DEF Says
  <2> QED  BY <1>4, <1>9, <1>15, <2>1, TwoEnds DEF PeerInv, Current
<1> QED
  BY <1>5, <1>10, <1>12, <1>13, <1>14, <1>17, <1>18 DEF PeerInv

\* onicecandidate: a candidate is sent, or kept in the pool.
LEMMA onicecandidateKeeps ==
  ASSUME PeerInv, NEW e \in Ends, onicecandidate(e), UNCHANGED <<plan, owned>>
  PROVE  PeerInv'
<1> DEFINE x == Candidate(pc[e].generation)
<1>1. Facts(e)
  BY PeerFacts
<1>2. /\ x \in Signals /\ x \in Messages /\ ~Describes(x)
  <2>1. x.type = "candidate"
    BY DEF Candidate, Signal
  <2>2. x \in Signals
    BY <1>1, OperationTypes DEF Facts
  <2> QED  BY <2>1, <2>2 DEF Messages, Describes, IsOffer, IsAnswer
<1> HIDE DEF x
<1>3. /\ peer' = [peer EXCEPT ![e].gathered = @ \union {pc[e].generation}]
      /\ emitSignal(e, x) /\ pc' = pc /\ chain' = chain
  BY DEF onicecandidate, x
<1>4. /\ peer \in [Ends -> PeerHandles] /\ pc \in [Ends -> Connections]
      /\ owned \in [Ends -> [Rooms -> Tracks]]
      /\ peer[e].gathered \union {pc[e].generation} \in SUBSET Generations
  BY <1>1 DEF PeerInv, Typed, Facts, PeerHandles
<1>5. /\ peer' \in [Ends -> PeerHandles]
      /\ \A f \in Ends :
           /\ peer'[f].wanted = peer[f].wanted /\ peer'[f].open = peer[f].open
           /\ peer'[f].failed = peer[f].failed
           /\ peer'[f].makingOffer = peer[f].makingOffer
           /\ peer'[f].isSettingRemoteAnswerPending
                = peer[f].isSettingRemoteAnswerPending
  BY <1>3, <1>4 DEF PeerHandles
<1>6. \A f \in Ends : pc[f].added \in Nat
  BY PeerFacts DEF Facts
<1>7. Says(e, x)
  BY <1>2, <1>3, <1>4, <1>5, <1>6 DEF Says, emitSignal
<1> QED  BY <1>7, SaysKeeps

\* addTrack: the metadata of the track is sent.
LEMMA addTrackKeeps ==
  ASSUME PeerInv, NEW e \in Ends, NEW r \in Rooms, addTrack(e, r)
  PROVE  PeerInv'
<1> DEFINE t == owned[e][r] + 1
           x == Meta(r, t)
<1>1. \A f \in Ends : Facts(f)
  BY PeerFacts
<1>2. /\ owned \in [Ends -> [Rooms -> Tracks]] /\ pc \in [Ends -> Connections]
      /\ peer \in [Ends -> PeerHandles] /\ pc[e] \in Connections
      /\ owned[e] \in [Rooms -> Tracks] /\ owned[e][r] \in Tracks
  BY DEF PeerInv, Typed
<1>3. t \in 1..MaxTracks /\ t \in Tracks /\ t \in Nat
  <2>1. plan.tracks[e][r] \in Tracks
    BY TracksAssumption DEF PeerInv, Typed
  <2>2. t <= plan.tracks[e][r]
    BY DEF addTrack
  <2> QED  BY <1>2, <2>1, <2>2, BoundsAssumption DEF Tracks
<1>4. x \in Metas /\ x \in Messages /\ ~Describes(x)
  <2>1. x \in Metas
    BY <1>3 DEF Meta, Metas
  <2> QED  BY <2>1, MetasApart DEF Messages, Describes
<1>5. /\ owned' = [owned EXCEPT ![e][r] = t]
      /\ wire' = [wire EXCEPT ![Other(e)] = Append(@, x)]
      /\ pc' = [pc EXCEPT ![e].added = t] \/ pc' = pc
      /\ peer[e].open /\ Both
      /\ chain' = chain /\ peer' = peer /\ relays' = relays /\ plan' = plan
  BY TwoEnds DEF addTrack, Both
<1> HIDE DEF t, x
<1>6. owned' \in [Ends -> [Rooms -> Tracks]]
  BY <1>2, <1>3, <1>5
<1>7. /\ pc' \in [Ends -> Connections]
      /\ \A f \in Ends :
           /\ pc'[f].state = pc[f].state /\ pc'[f].generation = pc[f].generation
           /\ pc'[f].remote = pc[f].remote /\ pc'[f].sections = pc[f].sections
           /\ pc[f].added > 0 => pc'[f].added > 0
  <2>1. CASE pc' = [pc EXCEPT ![e].added = t]
    <3>1. t > 0
      BY <1>3
    <3> QED  BY <1>2, <1>3, <2>1, <3>1 DEF Connections
  <2>2. CASE pc' = pc
    BY <1>2, <2>2
  <2> QED  BY <1>5, <2>1, <2>2
<1>8. Says(e, x)
  BY <1>2, <1>4, <1>5, <1>6, <1>7 DEF Says
<1> QED  BY <1>8, SaysKeeps

\* openChannel: an end knows that the other's session is agreed on.
LEMMA openChannelKeeps ==
  ASSUME PeerInv, NEW e \in Ends, openChannel(e), UNCHANGED <<plan, owned>>
  PROVE  PeerInv'
<1>1. (\A f \in Ends : Facts(f)) /\ TurnFacts
  BY PeerFacts, TurnsTaken
<1>2. /\ pc' = pc /\ chain' = chain /\ relays' = relays /\ wire' = wire
      /\ \A f \in Ends : pc[f].remote # NoGeneration
      /\ peer' = [peer EXCEPT ![e].open = TRUE]
  BY DEF openChannel
<1>3. /\ peer' \in [Ends -> PeerHandles]
      /\ \A f \in Ends :
           /\ peer'[f].wanted = peer[f].wanted
           /\ peer'[f].failed = peer[f].failed
           /\ peer'[f].makingOffer = peer[f].makingOffer
           /\ peer'[f].isSettingRemoteAnswerPending
                = peer[f].isSettingRemoteAnswerPending
           /\ peer[f].open => peer'[f].open
      /\ peer'[e].open
  <2>1. peer \in [Ends -> PeerHandles]
    BY DEF PeerInv, Typed
  <2> QED  BY <1>2, <2>1 DEF PeerHandles
<1>4. Typed' /\ NeverRejected' /\ \A f \in Ends : Chained(f)'
  BY <1>2, <1>3 DEF PeerInv, Typed, NeverRejected, Chained
<1>5. /\ \A f \in Ends : /\ Offering(f)' <=> Offering(f)
                         /\ Answering(f)' <=> Answering(f)
      /\ (OfferRelayed' <=> OfferRelayed) /\ (AnswerRelayed' <=> AnswerRelayed)
      /\ (Both => Both')
  BY <1>2, <1>3, TwoEnds DEF Offering, Answering, OfferRelayed, AnswerRelayed, Both
<1>6. Turns' /\ Relayed'
  BY <1>2, <1>3, <1>5, TwoEnds DEF PeerInv, Turns, One, Relayed
<1>7. (Alive' <=> Alive) /\ (Got' <=> Got)
  BY <1>2, <1>5, TwoEnds DEF Alive, Got
<1>8. Crossing'
  <2>1. Crossed(wire[Initiator], Alive', Offering(Initiator)', Got')
    BY <1>5, <1>7, TwoEnds, CrossedKept DEF PeerInv, Crossing
  <2> QED  BY <1>2, <2>1 DEF PeerInv, Crossing
<1>9. peer[Initiator].wanted /\ peer[Responder].wanted
  BY <1>2, TwoEnds DEF PeerInv, Pooled
<1>10. Pooled' /\ Current'
  BY <1>2, <1>3, <1>5, <1>9, TwoEnds DEF PeerInv, Pooled, Current
<1>11. ASSUME ~Both
       PROVE  \A f \in Ends :
                /\ ~HasCreating(chain[f]) /\ ~Answering(f) /\ ~HasTaking(chain[f])
                /\ ~HasOffer(wire[f]) /\ ~HasAnswer(wire[f])
  <2>1. ~Offering(Initiator) /\ ~Offering(Responder)
    BY <1>2, <1>11, TwoEnds DEF PeerInv, Opening
  <2>2. /\ ~HasTaking(chain[Initiator]) /\ ~Answering(Initiator)
        /\ ~HasTaking(chain[Responder]) /\ ~Answering(Responder)
    BY <1>1, <2>1 DEF TurnFacts
  <2> QED  BY <1>9, <1>11, <2>2, TwoEnds DEF PeerInv, Opening
<1>12. Opening'
  <2>1. CASE Both
    BY <1>2, <1>3, <1>5, <2>1, TwoEnds DEF PeerInv, Opening
  <2>2. CASE ~Both
    <3>1. \A f \in Ends : /\ \A o \in ToSet(chain[f]) : ~Taking(o)
                          /\ \A y \in ToSet(wire[f]) : ~Describes(y)
      BY <1>11, <2>2 DEF HasTaking, HasOffer, HasAnswer, Describes, ToSet
    <3> QED
      BY <1>2, <1>5, <1>11, <2>2, <3>1, TwoEnds DEF PeerInv, Opening
  <2> QED  BY <2>1, <2>2
<1> QED
  BY <1>4, <1>6, <1>8, <1>10, <1>12 DEF PeerInv

\* A message is read that describes nothing.
LEMMA receiveTrackMetaKeeps ==
  ASSUME PeerInv, NEW e \in Ends, receiveTrackMeta(e)
  PROVE  PeerInv'
<1>1. /\ wire[e] # <<>> /\ Head(wire[e]) \in Metas
      /\ wire' = [wire EXCEPT ![e] = Tail(@)]
      /\ UNCHANGED <<pc, chain, peer, relays, plan, owned>>
  BY DEF receiveTrackMeta
<1>2. /\ wire \in [Ends -> Seq(Messages)] /\ wire[e] \in Seq(Messages)
      /\ Tail(wire[e]) \in Seq(Messages)
      /\ ~IsOffer(Head(wire[e])) /\ ~IsAnswer(Head(wire[e]))
      /\ ToSet(Tail(wire[e])) \subseteq ToSet(wire[e])
  <2>1. wire[e] \in Seq(Messages)
    BY DEF PeerInv, Typed
  <2>2. Tail(wire[e]) \in Seq(Messages) /\ ToSet(Tail(wire[e])) \subseteq ToSet(wire[e])
    BY <1>1, <2>1, Shorter
  <2> QED  BY <1>1, <2>1, <2>2, MetasApart DEF PeerInv, Typed
<1>3. /\ wire' \in [Ends -> Seq(Messages)] /\ wire'[e] = Tail(wire[e])
      /\ \A f \in Ends : f # e => wire'[f] = wire[f]
  BY <1>1, <1>2
<1> DEFINE v == Tail(wire[e])
<1>4. /\ HasOffer(v) <=> HasOffer(wire[e])
      /\ HasAnswer(v) <=> HasAnswer(wire[e])
      /\ Ordered(wire[e]) => Ordered(v)
      /\ OneAnswer(wire[e]) => OneAnswer(v)
  BY <1>1, <1>2, WireRead
<1> HIDE DEF v
<1>5. /\ \A f \in Ends : /\ HasOffer(wire'[f]) <=> HasOffer(wire[f])
                         /\ HasAnswer(wire'[f]) <=> HasAnswer(wire[f])
                         /\ OneAnswer(wire'[f])
                         /\ ToSet(wire'[f]) \subseteq ToSet(wire[f])
      /\ Ordered(wire'[Responder])
  <2>1. (\A f \in Ends : OneAnswer(wire[f])) /\ Ordered(wire[Responder])
    BY DEF PeerInv, Crossing
  <2>2. ASSUME NEW f \in Ends
        PROVE  /\ HasOffer(wire'[f]) <=> HasOffer(wire[f])
               /\ HasAnswer(wire'[f]) <=> HasAnswer(wire[f])
               /\ OneAnswer(wire'[f])
               /\ ToSet(wire'[f]) \subseteq ToSet(wire[f])
               /\ Ordered(wire[f]) => Ordered(wire'[f])
    <3>1. CASE f = e
      BY <1>2, <1>3, <1>4, <2>1, <3>1 DEF v
    <3>2. CASE f # e
      BY <1>3, <2>1, <3>2
    <3> QED  BY <3>1, <3>2
  <2> QED  BY <2>1, <2>2, TwoEnds
<1>6. Typed' /\ NeverRejected' /\ (\A f \in Ends : Chained(f)') /\ Relayed'
  BY <1>1, <1>3
     DEF PeerInv, Typed, NeverRejected, Chained, Relayed, OfferRelayed, AnswerRelayed
<1>7. /\ \A f \in Ends : /\ Offering(f)' <=> Offering(f)
                         /\ Answering(f)' <=> Answering(f)
      /\ (OfferRelayed' <=> OfferRelayed) /\ (AnswerRelayed' <=> AnswerRelayed)
      /\ (Both' <=> Both)
  BY <1>1 DEF Offering, Answering, OfferRelayed, AnswerRelayed, Both
<1>8. Turns'
  BY <1>1, <1>5, <1>7, TwoEnds DEF PeerInv, Turns, One
<1>9. (Alive' <=> Alive) /\ (Got' <=> Got)
  BY <1>1, <1>5, <1>7, TwoEnds DEF Alive, Got
<1>10. Crossing'
  <2>1. Crossed(wire[Initiator], Alive, Offering(Initiator), Got)
    BY DEF PeerInv, Crossing
  <2>2. Crossed(wire'[Initiator], Alive, Offering(Initiator), Got)
    <3>1. CASE e = Initiator
      <4>1. Crossed(Tail(wire[Initiator]), Alive, Offering(Initiator), Got)
        BY <1>1, <1>2, <2>1, <3>1, CrossedRead
      <4> QED  BY <1>3, <3>1, <4>1
    <3>2. CASE e # Initiator
      BY <1>3, <2>1, <3>2, TwoEnds
    <3> QED  BY <3>1, <3>2
  <2>3. Crossed(wire'[Initiator], Alive', Offering(Initiator)', Got')
    BY <1>7, <1>9, <2>2, TwoEnds, CrossedKept
  <2> QED  BY <1>5, <2>3 DEF Crossing
<1>11. Pooled'
  BY <1>1, <1>2, <1>3, <1>7, TwoEnds DEF PeerInv, Pooled
<1>12. Opening'
  BY <1>1, <1>5, <1>7, TwoEnds DEF PeerInv, Opening
<1>13. Current'
  BY <1>1, <1>5, TwoEnds DEF PeerInv, Current
<1> QED
  BY <1>6, <1>8, <1>10, <1>11, <1>12, <1>13 DEF PeerInv

(* End e hears of something, from a relay or over the channel. *)
Hears(e) ==
  /\ pc' = pc /\ plan' = plan /\ owned' = owned
  /\ chain' \in [Ends -> Seq(Operations)] /\ peer' \in [Ends -> PeerHandles]
  /\ \A f \in Ends : f # e => /\ chain'[f] = chain[f] /\ peer'[f] = peer[f]
                              /\ wire'[f] = wire[f]
  /\ wire' \in [Ends -> Seq(Messages)]
  /\ wire'[e] = wire[e] \/ (wire[e] # <<>> /\ wire'[e] = Tail(wire[e]))
  /\ relays' \subseteq relays
  /\ peer'[e].open = peer[e].open /\ peer'[e].failed = peer[e].failed
  /\ \/ peer'[e].wanted = peer[e].wanted
     \/ e = Responder /\ ~OfferRelayed'
  /\ peer[e].wanted => peer'[e].wanted
  /\ ~peer'[e].wanted => chain' = chain
  /\ peer[Initiator].wanted
  /\ Orderly(e, chain'[e], pc[e].state, peer'[e].makingOffer,
             peer'[e].isSettingRemoteAnswerPending, peer'[e].wanted)
  /\ HasCreating(chain'[e]) => HasCreating(chain[e])
  /\ \A o \in ToSet(chain'[e]) :
       \/ o \in ToSet(chain[e])
       \/ o.do = "rollback"
       \/ o.do = "candidate" /\ o.signal.generation = pc[e].remote
       \/ /\ o.do = "remote" /\ o.signal.generation = pc[Other(e)].generation
          /\ Taking(o) /\ Both => o.signal.sections > 0

\* With the offers in their turns all is well.
LEMMA HearsKeeps ==
  ASSUME PeerInv, NEW e \in Ends, Hears(e), Turns',
         Crossed(wire'[Initiator], Alive', Offering(Initiator)', Got')
  PROVE  PeerInv'
<1>1. (\A f \in Ends : Facts(f)) /\ (\A f \in Ends : wire[f] \in Seq(Messages))
  BY PeerFacts DEF Facts
<1>2. Typed' /\ NeverRejected'
  BY DEF Hears, PeerInv, Typed, NeverRejected
<1>3. ASSUME NEW f \in Ends PROVE Chained(f)'
  <2>1. CASE f = e
    BY <2>1 DEF Hears, Chained
  <2>2. CASE f # e
    BY <2>2 DEF Hears, Chained, PeerInv
  <2> QED  BY <2>1, <2>2
<1>4. /\ \A f \in Ends : /\ Offering(f)' <=> Offering(f)
                         /\ Answering(f)' <=> Answering(f)
                         /\ peer'[f].open = peer[f].open
                         /\ HasCreating(chain'[f]) => HasCreating(chain[f])
      /\ (Both' <=> Both) /\ pc' = pc
      /\ OfferRelayed' => OfferRelayed
      /\ AnswerRelayed' => AnswerRelayed
  BY TwoEnds DEF Hears, Offering, Answering, Both, OfferRelayed, AnswerRelayed
<1>5. \A f \in Ends : /\ HasOffer(wire'[f]) => HasOffer(wire[f])
                      /\ HasAnswer(wire'[f]) => HasAnswer(wire[f])
                      /\ OneAnswer(wire'[f])
                      /\ Ordered(wire[f]) => Ordered(wire'[f])
                      /\ ToSet(wire'[f]) \subseteq ToSet(wire[f])
                      /\ wire[f] = <<>> => wire'[f] = <<>>
  <2> TAKE f \in Ends
  <2>1. OneAnswer(wire[f])
    BY DEF PeerInv, Crossing
  <2>2. CASE wire'[f] = wire[f]
    BY <2>1, <2>2
  <2>3. CASE wire[f] # <<>> /\ wire'[f] = Tail(wire[f])
    <3>1. ToSet(Tail(wire[f])) \subseteq ToSet(wire[f])
      BY <1>1, <2>3, Shorter
    <3>2. /\ HasOffer(Tail(wire[f])) => HasOffer(wire[f])
          /\ HasAnswer(Tail(wire[f])) => HasAnswer(wire[f])
          /\ OneAnswer(Tail(wire[f]))
          /\ Ordered(wire[f]) => Ordered(Tail(wire[f]))
      BY <1>1, <2>1, <2>3, WireRead
    <3> QED  BY <2>3, <3>1, <3>2
  <2> QED  BY <2>2, <2>3 DEF Hears
<1>6. Crossing'
  <2>1. Ordered(wire[Responder])
    BY DEF PeerInv, Crossing
  <2> QED  BY <1>5, <2>1, TwoEnds DEF Crossing
<1>7. Relayed'
  <2>1. \A m \in relays' : m \in relays
    BY DEF Hears
  <2>2. /\ \A m \in relays' : IsOffer(m[2]) => m[1] = Responder
        /\ \A m \in relays' : IsAnswer(m[2]) => m[1] = Initiator
        /\ \A m, n \in relays' : Describes(m[2]) /\ Describes(n[2]) => m = n
    BY <2>1 DEF PeerInv, Relayed
  <2>3. OfferRelayed' => ~peer'[Responder].wanted
    BY <1>4, TwoEnds DEF Hears, PeerInv, Relayed
  <2>4. OfferRelayed' \/ AnswerRelayed' => pc'[Initiator].remote = NoGeneration
    BY <1>4 DEF PeerInv, Relayed
  <2> QED  BY <2>2, <2>3, <2>4 DEF Relayed
<1>8. Pooled'
  <2>1. peer[Initiator].wanted /\ peer'[Initiator].wanted
    BY TwoEnds DEF Hears
  <2>2. ~peer'[Responder].wanted => ~peer[Responder].wanted /\ chain'[Responder] = chain[Responder]
    BY TwoEnds DEF Hears
  <2>3. ~peer'[Responder].wanted =>
          /\ chain'[Responder] = <<>> /\ pc'[Responder].state = "stable"
          /\ pc'[Responder].remote = NoGeneration
    BY <1>4, <2>2 DEF PeerInv, Pooled
  <2>4. pc'[Initiator].remote = NoGeneration => Offering(Initiator)'
    BY <1>4, <2>1, TwoEnds DEF PeerInv, Pooled
  <2> QED  BY <2>1, <2>3, <2>4 DEF Pooled
<1>9. peer'[Initiator].wanted
  BY TwoEnds DEF Hears
<1>10. Opening'
  <2>1. ASSUME NEW f \in Ends, NEW o \in ToSet(chain'[f]), Both, Taking(o)
        PROVE  o.signal.sections > 0
    <3>1. CASE o \in ToSet(chain[f])
      BY <2>1, <3>1 DEF PeerInv, Opening
    <3>2. CASE o \notin ToSet(chain[f])
      <4>1. f = e
        BY <2>1, <3>2 DEF Hears
      <4>2. o.do = "remote"
        BY <2>1 DEF Taking
      <4> QED  BY <2>1, <3>2, <4>1, <4>2 DEF Hears
    <3> QED  BY <3>1, <3>2
  <2>2. ~Both => peer[Initiator].wanted /\ ~HasCreating(chain[Initiator])
    BY DEF Hears, PeerInv, Opening
  <2> QED  BY <1>4, <1>5, <1>9, <2>1, <2>2, TwoEnds DEF PeerInv, Opening
<1>11. Current'
  <2>1. ASSUME NEW f \in Ends, NEW o \in ToSet(chain'[f])
        PROVE  /\ o.do = "remote" => o.signal.generation = pc[Other(f)].generation
               /\ o.do = "candidate" => o.signal.generation = pc[f].remote
    <3>1. CASE o \in ToSet(chain[f])
      BY <3>1 DEF PeerInv, Current
    <3>2. CASE o \notin ToSet(chain[f])
      <4>1. f = e
        BY <2>1, <3>2 DEF Hears
      <4> QED  BY <2>1, <3>2, <4>1 DEF Hears
    <3> QED  BY <3>1, <3>2
  <2>2. relays' \subseteq relays
    BY DEF Hears
  <2> QED  BY <1>4, <1>5, <2>1, <2>2, TwoEnds DEF PeerInv, Current
<1> QED
  BY <1>2, <1>3, <1>6, <1>7, <1>8, <1>10, <1>11 DEF PeerInv

(* Operations join the chain of end e. *)
Joined(e) ==
  /\ chain' \in [Ends -> Seq(Operations)] /\ peer' \in [Ends -> PeerHandles]
  /\ \A f \in Ends : f # e => chain'[f] = chain[f] /\ peer'[f] = peer[f]
  /\ peer'[e].wanted = peer[e].wanted /\ peer'[e].open = peer[e].open
  /\ peer'[e].failed = peer[e].failed
  /\ Orderly(e, chain'[e], pc[e].state, peer'[e].makingOffer,
             peer'[e].isSettingRemoteAnswerPending, peer'[e].wanted)
  /\ HasCreating(chain'[e]) => HasCreating(chain[e])

\* signal, with a candidate: it is added or held.
LEMMA CandidateJoined ==
  ASSUME PeerInv, NEW e \in Ends, peer[e].wanted, NEW s \in Signals,
         signalCandidate(e, s)
  PROVE  /\ Joined(e)
         /\ HasTaking(chain'[e]) <=> HasTaking(chain[e])
         /\ HasSettling(chain'[e]) <=> HasSettling(chain[e])
         /\ \A o \in ToSet(chain'[e]) :
              \/ o \in ToSet(chain[e])
              \/ o.do = "candidate" /\ o.signal.generation = pc[e].remote
<1> DEFINE g == s.generation
           x == Op("candidate", Candidate(g), "none")
<1>1. Facts(e) /\ chain \in [Ends -> Seq(Operations)]
      /\ peer \in [Ends -> PeerHandles] /\ g \in Generations
  BY PeerFacts DEF PeerInv, Typed, Signals
<1>2. /\ Add(e, {g})[1] = IF pc[e].remote = g THEN <<x>> ELSE <<>>
      /\ Add(e, {g})[2] = {g} \ {pc[e].remote}
  <2> HIDE DEF g
  <2>1. /\ Add(e, {g})[1] =
             IF pc[e].remote \in {g}
               THEN <<Op("candidate", Candidate(pc[e].remote), "none")>>
               ELSE <<>>
        /\ Add(e, {g})[2] = {g} \ {pc[e].remote}
    BY Added
  <2> QED  BY <2>1
<1>3. /\ chain' = [chain EXCEPT ![e] = @ \o Add(e, {g})[1]]
      /\ peer' = [peer EXCEPT ![e].held = @ \union Add(e, {g})[2]]
  BY DEF signalCandidate
<1>4. /\ peer' \in [Ends -> PeerHandles]
      /\ \A f \in Ends : f # e => peer'[f] = peer[f]
      /\ peer'[e].wanted = peer[e].wanted /\ peer'[e].open = peer[e].open
      /\ peer'[e].failed = peer[e].failed
      /\ peer'[e].makingOffer = peer[e].makingOffer
      /\ peer'[e].isSettingRemoteAnswerPending = peer[e].isSettingRemoteAnswerPending
  <2>1. peer[e] \in PeerHandles /\ Add(e, {g})[2] \subseteq Generations
    BY <1>1, <1>2
  <2>2. peer' = [peer EXCEPT ![e] = [peer[e] EXCEPT
                   !.held = peer[e].held \union Add(e, {g})[2]]]
    BY <1>1, <1>3
  <2>3. [peer[e] EXCEPT !.held = peer[e].held \union Add(e, {g})[2]] \in PeerHandles
    BY <2>1 DEF PeerHandles
  <2> HIDE DEF g
  <2> QED  BY <1>1, <2>1, <2>2, <2>3 DEF PeerHandles
<1>5. /\ x \in Operations /\ Adding(x) /\ ~Replying(x) /\ ~Finishing(x)
      /\ x.do = "candidate" /\ x.signal.generation = g
  BY <1>1, CandidateKinds
<1>6. /\ chain[e] \in Seq(Operations)
      /\ Orderly(e, chain[e], pc[e].state, peer[e].makingOffer,
                 peer[e].isSettingRemoteAnswerPending, peer[e].wanted)
  BY <1>1 DEF PeerInv, Chained
<1>7. CASE pc[e].remote = g
  <2>1. /\ chain' = [chain EXCEPT ![e] = Append(chain[e], x)]
        /\ Append(chain[e], x) \in Seq(Operations)
        /\ ToSet(Append(chain[e], x)) = ToSet(chain[e]) \union {x}
    <3> HIDE DEF x, g
    <3>1. /\ chain[e] \o <<x>> = Append(chain[e], x)
          /\ Append(chain[e], x) \in Seq(Operations)
          /\ ToSet(Append(chain[e], x)) = ToSet(chain[e]) \union {x}
      BY <1>5, <1>6, Longer
    <3> QED  BY <1>2, <1>3, <1>7, <3>1
  <2>2. /\ chain' \in [Ends -> Seq(Operations)] /\ chain'[e] = Append(chain[e], x)
        /\ \A f \in Ends : f # e => chain'[f] = chain[f]
    BY <1>1, <2>1
  <2>3. /\ Orderly(e, chain'[e], pc[e].state, peer[e].makingOffer,
                   peer[e].isSettingRemoteAnswerPending, peer[e].wanted)
        /\ HasTaking(chain'[e]) <=> HasTaking(chain[e])
        /\ HasSettling(chain'[e]) <=> HasSettling(chain[e])
        /\ HasCreating(chain'[e]) <=> HasCreating(chain[e])
    <3> DEFINE c == chain[e]
               t == pc[e].state
               m == peer[e].makingOffer
               p == peer[e].isSettingRemoteAnswerPending
               w == peer[e].wanted
    <3>1. /\ c \in Seq(Operations) /\ Orderly(e, c, t, m, p, w)
          /\ w \/ (c = <<>>)
      BY <1>6
    <3> HIDE DEF c, t, m, p, w, x
    <3>2. /\ Orderly(e, Append(c, x), t, m, p, w)
          /\ HasTaking(Append(c, x)) <=> HasTaking(c)
          /\ HasSettling(Append(c, x)) <=> HasSettling(c)
          /\ HasCreating(Append(c, x)) <=> HasCreating(c)
      BY <1>5, <3>1, CandidateJoins
    <3> QED  BY <2>2, <3>2 DEF c, t, m, p, w
  <2>4. \A o \in ToSet(chain'[e]) :
          \/ o \in ToSet(chain[e])
          \/ o.do = "candidate" /\ o.signal.generation = pc[e].remote
    BY <1>5, <1>7, <2>1, <2>2
  <2> QED  BY <1>4, <2>2, <2>3, <2>4 DEF Joined
<1>8. CASE pc[e].remote # g
  <2>1. chain' = chain
    <3>1. chain[e] \o <<>> = chain[e]
      BY <1>6
    <3> QED  BY <1>1, <1>2, <1>3, <1>8, <3>1
  <2> QED  BY <1>1, <1>4, <1>6, <2>1 DEF Joined
<1> QED  BY <1>7, <1>8

\* signal, with an answer to an offer.
LEMMA AnswerJoined ==
  ASSUME PeerInv, NEW e \in Ends, peer[e].wanted, NEW s \in Signals,
         signalAnswer(e, s), Offering(e), ~HasTaking(chain[e]), ~HasSettling(chain[e])
  PROVE  /\ Joined(e)
         /\ ~HasTaking(chain'[e]) /\ HasSettling(chain'[e])
         /\ \A o \in ToSet(chain'[e]) :
              \/ o \in ToSet(chain[e])
              \/ o.do = "remote" /\ o.signal = s /\ ~Taking(o)
<1> DEFINE x == Op("remote", s, "answer")
<1>1. Facts(e) /\ chain \in [Ends -> Seq(Operations)]
      /\ peer \in [Ends -> PeerHandles] /\ s.type = "answer"
  BY PeerFacts DEF PeerInv, Typed, signalAnswer
<1>2. /\ chain' = [chain EXCEPT ![e] = Append(chain[e], x)]
      /\ peer' = [peer EXCEPT ![e] = [peer[e] EXCEPT
                    !.isSettingRemoteAnswerPending = TRUE]]
  BY <1>1 DEF signalAnswer
<1>3. /\ peer' \in [Ends -> PeerHandles]
      /\ \A f \in Ends : f # e => peer'[f] = peer[f]
      /\ peer'[e].wanted = peer[e].wanted /\ peer'[e].open = peer[e].open
      /\ peer'[e].failed = peer[e].failed
      /\ peer'[e].makingOffer = peer[e].makingOffer
      /\ peer'[e].isSettingRemoteAnswerPending
  <2>1. peer[e] \in PeerHandles
    BY <1>1
  <2> QED  BY <1>1, <1>2, <2>1 DEF PeerHandles
<1>4. /\ x \in Operations /\ Settling(x) /\ ~Taking(x)
      /\ x.do = "remote" /\ x.signal = s
  BY <1>1, OperationTypes DEF Op, Settling, Taking
<1>5. /\ chain[e] \in Seq(Operations)
      /\ Orderly(e, chain[e], pc[e].state, peer[e].makingOffer,
                 peer[e].isSettingRemoteAnswerPending, peer[e].wanted)
  BY <1>1 DEF PeerInv, Chained
<1>6. /\ Append(chain[e], x) \in Seq(Operations)
      /\ ToSet(Append(chain[e], x)) = ToSet(chain[e]) \union {x}
  BY <1>4, <1>5, Longer
<1>7. /\ chain' \in [Ends -> Seq(Operations)] /\ chain'[e] = Append(chain[e], x)
      /\ \A f \in Ends : f # e => chain'[f] = chain[f]
  BY <1>1, <1>2, <1>6
<1>8. /\ Orderly(e, chain'[e], pc[e].state, peer'[e].makingOffer,
                 peer'[e].isSettingRemoteAnswerPending, peer'[e].wanted)
      /\ ~HasTaking(chain'[e]) /\ HasSettling(chain'[e])
      /\ ~HasCreating(chain'[e])
  <2> DEFINE c == chain[e]
             t == pc[e].state
             m == peer[e].makingOffer
             p == peer[e].isSettingRemoteAnswerPending
             q == peer'[e].isSettingRemoteAnswerPending
             w == peer[e].wanted
  <2>1. /\ c \in Seq(Operations) /\ Orderly(e, c, t, m, p, w)
        /\ w \/ (c = <<>>)
        /\ t = "have-local-offer" /\ ~HasTaking(c) /\ ~HasSettling(c)
        /\ q
    BY <1>3, <1>5 DEF Offering
  <2>2. chain'[e] = Append(c, x) /\ peer'[e].makingOffer = m /\ peer'[e].wanted = w
    BY <1>3, <1>7
  <2> HIDE DEF c, t, m, p, q, w, x
  <2>3. /\ \A r : r => Orderly(e, Append(c, x), t, m, r, w)
        /\ ~HasTaking(Append(c, x)) /\ HasSettling(Append(c, x))
        /\ ~HasCreating(Append(c, x))
    BY <1>4, <2>1, SettlingJoins
  <2>4. Orderly(e, Append(c, x), t, m, q, w)
    BY <2>1, <2>3
  <2> QED  BY <2>2, <2>3, <2>4 DEF t, q
<1>9. \A o \in ToSet(chain'[e]) :
        \/ o \in ToSet(chain[e])
        \/ o.do = "remote" /\ o.signal = s /\ ~Taking(o)
  BY <1>4, <1>6, <1>7
<1> QED  BY <1>3, <1>7, <1>8, <1>9 DEF Joined

\* signal, with an offer: the initiator ignores it when it crosses its own;
\* else it is taken.
LEMMA OfferJoined ==
  ASSUME PeerInv, NEW e \in Ends, peer[e].wanted, NEW s \in Signals,
         signalOffer(e, s), ~HasTaking(chain[e]), ~Answering(e)
  PROVE  LET collides == \/ peer[e].makingOffer
                         \/ /\ Offering(e)
                            /\ ~peer[e].isSettingRemoteAnswerPending
         IN  /\ Joined(e)
             /\ HasSettling(chain'[e]) <=> HasSettling(chain[e])
             /\ IF collides /\ e = Initiator THEN chain' = chain /\ peer' = peer
                                             ELSE HasTaking(chain'[e])
             /\ \A o \in ToSet(chain'[e]) :
                  \/ o \in ToSet(chain[e])
                  \/ o.do = "rollback"
                  \/ o.do = "remote" /\ o.signal = s
<1> DEFINE c == chain[e]
           t == pc[e].state
           m == peer[e].makingOffer
           p == peer[e].isSettingRemoteAnswerPending
           w == peer[e].wanted
           x == Op("remote", s, "offer")
           y == Rollback("offer")
           collides == m \/ (t = "have-local-offer" /\ ~p)
<1>1. Facts(e) /\ chain \in [Ends -> Seq(Operations)]
      /\ peer \in [Ends -> PeerHandles] /\ s.type = "offer"
      /\ peer' = peer /\ (Offering(e) <=> t = "have-local-offer")
      /\ (t = "stable" \/ t = "have-local-offer")
  BY PeerFacts DEF PeerInv, Typed, signalOffer, Facts, Answering, Offering
<1>2. /\ c \in Seq(Operations) /\ Orderly(e, c, t, m, p, w)
      /\ w \/ (c = <<>>)
      /\ ~HasTaking(c)
  BY <1>1 DEF PeerInv, Chained, Facts
<1>3. /\ x \in Operations /\ Taking(x) /\ x.do = "remote" /\ x.signal = s
      /\ y \in Operations /\ Yielding(y) /\ y.do = "rollback"
  BY <1>1, OperationTypes DEF Op, Rollback, Taking, Yielding
<1>4. c \o <<y, x>> = Append(Append(c, y), x)
      /\ c \o <<x>> = Append(c, x) /\ c \o <<>> = c
  BY <1>2, <1>3
<1>5. chain' = [chain EXCEPT ![e] =
           CASE ~collides -> Append(c, x)
             [] collides /\ e = Initiator -> c
             [] collides /\ e = Responder -> Append(Append(c, y), x)]
  <2> DEFINE crosses == m \/ (t # "stable" /\ ~p)
  <2>1. chain' = [chain EXCEPT ![e] = @ \o
             CASE ~crosses -> <<x>>
               [] crosses /\ e = Initiator -> <<>>
               [] crosses /\ e = Responder -> <<y, x>>]
    BY DEF signalOffer
  <2>2. crosses <=> collides
    BY <1>1
  <2> HIDE DEF crosses, collides, x, y
  <2> QED  BY <1>1, <1>4, <2>1, <2>2, TwoEnds
<1>6. CASE ~collides
  <2>1. chain' = [chain EXCEPT ![e] = Append(c, x)]
    <3> HIDE DEF collides, c, x, y
    <3> QED  BY <1>5, <1>6, TwoEnds
  <2>2. Append(c, x) \in Seq(Operations) /\ ToSet(Append(c, x)) = ToSet(c) \union {x}
    BY <1>2, <1>3, Longer
  <2>3. /\ chain' \in [Ends -> Seq(Operations)] /\ chain'[e] = Append(c, x)
        /\ \A f \in Ends : f # e => chain'[f] = chain[f]
    BY <1>1, <2>1, <2>2
  <2>4. ~m /\ (t = "stable" \/ (t = "have-local-offer" /\ p))
    BY <1>1, <1>6
  <2>5. /\ Orderly(e, Append(c, x), t, m, p, w)
        /\ HasTaking(Append(c, x))
        /\ HasSettling(Append(c, x)) <=> HasSettling(c)
        /\ ~HasCreating(Append(c, x))
    <3> HIDE DEF c, t, m, p, w, x, y
    <3> QED  BY <1>2, <1>3, <2>4, TakingJoins
  <2> QED  BY <1>1, <1>3, <1>6, <2>2, <2>3, <2>5 DEF Joined
<1>7. CASE collides /\ e = Initiator
  <2>1. chain' = [chain EXCEPT ![e] = c]
    <3> HIDE DEF collides, c, x, y
    <3> QED  BY <1>5, <1>7, TwoEnds
  <2>2. chain' = chain
    BY <1>1, <2>1
  <2> QED  BY <1>1, <1>2, <1>7, <2>2 DEF Joined
<1>8. CASE collides /\ e = Responder
  <2> DEFINE d == Append(Append(c, y), x)
  <2>1. chain' = [chain EXCEPT ![e] = d]
    <3> HIDE DEF collides, c, x, y
    <3> QED  BY <1>5, <1>8, TwoEnds
  <2>2. d \in Seq(Operations) /\ ToSet(d) = ToSet(c) \union {y, x}
    <3> HIDE DEF c, x, y
    <3>1. Append(c, y) \in Seq(Operations)
          /\ ToSet(Append(c, y)) = ToSet(c) \union {y}
      BY <1>2, <1>3, Longer
    <3>2. d \in Seq(Operations) /\ ToSet(d) = ToSet(Append(c, y)) \union {x}
      <4> DEFINE b == Append(c, y)
      <4>1. b \in Seq(Operations) /\ x \in Operations
        BY <1>3, <3>1
      <4> HIDE DEF b
      <4>2. Append(b, x) \in Seq(Operations)
            /\ ToSet(Append(b, x)) = ToSet(b) \union {x}
        BY <4>1, Longer
      <4> QED  BY <4>2 DEF b
    <3> QED  BY <3>1, <3>2
  <2>3. /\ chain' \in [Ends -> Seq(Operations)] /\ chain'[e] = d
        /\ \A f \in Ends : f # e => chain'[f] = chain[f]
    BY <1>1, <2>1, <2>2
  <2>4. Orderly(Responder, c, t, m, p, w) /\ (m \/ (t = "have-local-offer" /\ ~p))
    BY <1>2, <1>8
  <2>5. /\ Orderly(Responder, d, t, m, p, w)
        /\ HasTaking(d) /\ ~HasSettling(d) /\ ~HasSettling(c)
        /\ HasCreating(d) <=> HasCreating(c)
    <3> HIDE DEF c, t, m, p, w, x, y
    <3> QED  BY <1>2, <1>3, <2>4, YieldingJoins
  <2>6. e # Initiator /\ Orderly(e, d, t, m, p, w)
    BY <1>8, <2>5, TwoEnds
  <2> QED  BY <1>1, <1>3, <2>2, <2>3, <2>5, <2>6 DEF Joined
<1> QED  BY <1>6, <1>7, <1>8, TwoEnds

\* Nothing that has to do with turns changes.
LEMMA TurnsKept ==
  ASSUME PeerInv, pc' = pc,
         \A f \in Ends : /\ HasTaking(chain'[f]) <=> HasTaking(chain[f])
                         /\ HasSettling(chain'[f]) <=> HasSettling(chain[f])
                         /\ HasAnswer(wire'[f]) <=> HasAnswer(wire[f])
                         /\ peer'[f].wanted <=> peer[f].wanted,
         HasOffer(wire'[Responder]) <=> HasOffer(wire[Responder]),
         OfferRelayed' <=> OfferRelayed, AnswerRelayed' <=> AnswerRelayed
  PROVE  /\ Turns' /\ (Alive' <=> Alive) /\ (Got' <=> Got)
         /\ Offering(Initiator)' <=> Offering(Initiator)
<1>1. \A f \in Ends : /\ Offering(f)' <=> Offering(f)
                      /\ Answering(f)' <=> Answering(f)
  BY DEF Offering, Answering
<1>2. Turns'
  BY <1>1, TwoEnds DEF PeerInv, Turns, One
<1>3. (Alive' <=> Alive) /\ (Got' <=> Got)
  BY <1>1, TwoEnds DEF Alive, Got
<1> QED  BY <1>1, <1>2, <1>3, TwoEnds

\* relayed.
LEMMA relayedKeeps ==
  ASSUME PeerInv, NEW e \in Ends, relayed(e), UNCHANGED <<plan, owned>>
  PROVE  PeerInv'
<1>1. (\A f \in Ends : Facts(f)) /\ TurnFacts /\ PeerInv
  BY PeerFacts, TurnsTaken
<1>2. PICK m \in relays :
        /\ m[1] = e
        /\ relays' = relays \ {m}
        /\ \/ /\ peer[e].open
              /\ UNCHANGED <<chain, peer>>
           \/ /\ ~peer[e].open /\ peer[e].wanted
              /\ signal(e, m[2])
           \/ /\ ~peer[e].wanted /\ m[2].type = "candidate"
              /\ peer' = [peer EXCEPT ![e].buffered = @ \union {m[2].generation}]
              /\ UNCHANGED chain
           \/ /\ ~peer[e].wanted /\ m[2].type = "offer"
              /\ peer' = [peer EXCEPT ![e].wanted = TRUE]
              /\ chain' = [chain EXCEPT ![e] = <<Op("remote", m[2], "offer")>>]
        /\ UNCHANGED <<pc, wire>>
  BY DEF relayed
<1> DEFINE s == m[2]
<1>3. /\ s \in Signals /\ m = <<e, s>>
      /\ pc' = pc /\ wire' = wire /\ plan' = plan /\ owned' = owned
      /\ relays' = relays \ {m}
      /\ chain \in [Ends -> Seq(Operations)] /\ peer \in [Ends -> PeerHandles]
      /\ wire \in [Ends -> Seq(Messages)]
      /\ s.type \in {"offer", "answer", "candidate"} /\ s.generation \in Generations
  BY <1>2 DEF PeerInv, Typed, Signals
<1>4. peer[Initiator].wanted
  BY <1>2 DEF PeerInv, Pooled
<1>5. /\ IsOffer(s) => /\ e = Responder /\ OfferRelayed /\ ~peer[e].wanted
                       /\ pc[Initiator].remote = NoGeneration
      /\ IsAnswer(s) => /\ e = Initiator /\ AnswerRelayed
                        /\ pc[Initiator].remote = NoGeneration
  BY <1>2, <1>3 DEF PeerInv, Relayed, OfferRelayed, AnswerRelayed
<1>6. /\ s.type = "offer" <=> IsOffer(s)
      /\ s.type = "answer" <=> IsAnswer(s)
      /\ s.type = "candidate" <=> ~Describes(s)
  BY <1>3 DEF IsOffer, IsAnswer, Describes
<1>7. ~Describes(s) => (OfferRelayed' <=> OfferRelayed) /\ (AnswerRelayed' <=> AnswerRelayed)
  BY <1>3 DEF Describes, OfferRelayed, AnswerRelayed
<1>8. Describes(s) => ~OfferRelayed' /\ ~AnswerRelayed'
  <2>1. \A n \in relays : Describes(s) /\ Describes(n[2]) => n = m
    BY <1>2 DEF PeerInv, Relayed
  <2> QED  BY <1>3, <2>1 DEF Describes, OfferRelayed, AnswerRelayed
<1>9. Describes(s) => s.generation = pc[Other(e)].generation
  BY <1>2 DEF PeerInv, Current
<1>10. Crossed(wire[Initiator], Alive, Offering(Initiator), Got)
  BY DEF PeerInv, Crossing
<1> HIDE DEF s
<1>11. CASE peer[e].open
  <2>1. ~Describes(s)
    BY <1>1, <1>5, <1>11 DEF Facts, Describes
  <2>2. chain' = chain /\ peer' = peer
    BY <1>1, <1>2, <1>11 DEF Facts
  <2>3. Hears(e)
    BY <1>1, <1>3, <1>4, <1>11, <2>2 DEF Hears, Facts, PeerInv, Chained
  <2>4. /\ Turns' /\ (Alive' <=> Alive) /\ (Got' <=> Got)
        /\ Offering(Initiator)' <=> Offering(Initiator)
    BY <1>3, <1>7, <2>1, <2>2, TurnsKept
  <2>5. Crossed(wire'[Initiator], Alive', Offering(Initiator)', Got')
    BY <1>3, <1>10, <2>4, CrossedKept
  <2> QED  BY <2>3, <2>4, <2>5, HearsKeeps
<1>12. CASE ~peer[e].open /\ peer[e].wanted
  <2>1. ~IsOffer(s) /\ (signalAnswer(e, s) \/ signalCandidate(e, s))
    BY <1>2, <1>5, <1>6, <1>12 DEF signal, signalOffer, s
  <2>2. CASE signalCandidate(e, s)
    <3>1. ~Describes(s)
      BY <1>6, <2>2 DEF signalCandidate
    <3>2. /\ Joined(e)
          /\ HasTaking(chain'[e]) <=> HasTaking(chain[e])
          /\ HasSettling(chain'[e]) <=> HasSettling(chain[e])
          /\ \A o \in ToSet(chain'[e]) :
               \/ o \in ToSet(chain[e])
               \/ o.do = "candidate" /\ o.signal.generation = pc[e].remote
      BY <1>3, <1>12, <2>2, CandidateJoined
    <3>3. Hears(e)
      BY <1>3, <1>4, <1>12, <3>2 DEF Hears, Joined
    <3>4. \A f \in Ends : /\ HasTaking(chain'[f]) <=> HasTaking(chain[f])
                          /\ HasSettling(chain'[f]) <=> HasSettling(chain[f])
                          /\ peer'[f].wanted <=> peer[f].wanted
      BY <3>2 DEF Joined
    <3>5. /\ Turns' /\ (Alive' <=> Alive) /\ (Got' <=> Got)
          /\ Offering(Initiator)' <=> Offering(Initiator)
      BY <1>3, <1>7, <3>1, <3>4, TurnsKept
    <3>6. Crossed(wire'[Initiator], Alive', Offering(Initiator)', Got')
      BY <1>3, <1>10, <3>5, CrossedKept
    <3> QED  BY <3>3, <3>5, <3>6, HearsKeeps
  <2>3. CASE signalAnswer(e, s)
    <3>1. /\ IsAnswer(s) /\ Describes(s) /\ e = Initiator /\ AnswerRelayed
          /\ e # Responder
      BY <1>5, <1>6, <2>3, TwoEnds DEF signalAnswer, Describes
    <3>2. Offering(Initiator)
      BY <1>1, <3>1 DEF TurnFacts
    <3>3. ~HasSettling(chain[Initiator]) /\ ~OfferRelayed
      BY <1>4, <3>1, <3>2 DEF PeerInv, Turns, One
    <3>4. ~HasTaking(chain[Initiator])
      BY <1>1, <3>2, <3>3 DEF TurnFacts
    <3>5. /\ Joined(e)
          /\ ~HasTaking(chain'[e]) /\ HasSettling(chain'[e])
          /\ \A o \in ToSet(chain'[e]) :
               \/ o \in ToSet(chain[e])
               \/ o.do = "remote" /\ o.signal = s /\ ~Taking(o)
      BY <1>3, <1>12, <2>3, <3>1, <3>2, <3>3, <3>4, AnswerJoined
    <3>6. Hears(e)
      BY <1>3, <1>4, <1>9, <1>12, <3>1, <3>5 DEF Hears, Joined
    <3>7. /\ \A f \in Ends : /\ Offering(f)' <=> Offering(f)
                             /\ Answering(f)' <=> Answering(f)
                             /\ peer'[f].wanted = peer[f].wanted
          /\ HasTaking(chain'[Initiator]) <=> HasTaking(chain[Initiator])
          /\ HasSettling(chain'[Initiator])
          /\ chain'[Responder] = chain[Responder]
      BY <1>3, <3>1, <3>4, <3>5, TwoEnds DEF Joined, Offering, Answering
    <3>8. Turns'
      BY <1>3, <1>4, <1>8, <3>1, <3>2, <3>3, <3>7, TwoEnds DEF PeerInv, Turns, One
    <3>9. (Alive' <=> Alive) /\ (Got' <=> Got)
      BY <1>3, <3>7, TwoEnds DEF Alive, Got
    <3>10. Crossed(wire'[Initiator], Alive', Offering(Initiator)', Got')
      BY <1>3, <1>10, <3>7, <3>9, TwoEnds, CrossedKept
    <3> QED  BY <3>6, <3>8, <3>10, HearsKeeps
  <2> QED  BY <2>1, <2>2, <2>3
<1>13. CASE ~peer[e].wanted /\ s.type = "candidate"
  <2>1. ~peer[e].open
    BY <1>1, <1>13 DEF Facts
  <2>2. /\ peer' = [peer EXCEPT ![e] = [peer[e] EXCEPT
                      !.buffered = peer[e].buffered \union {s.generation}]]
        /\ chain' = chain
    BY <1>2, <1>3, <1>13, <2>1 DEF s
  <2>3. /\ peer' \in [Ends -> PeerHandles]
        /\ \A f \in Ends : f # e => peer'[f] = peer[f]
        /\ peer'[e].wanted = peer[e].wanted /\ peer'[e].open = peer[e].open
        /\ peer'[e].failed = peer[e].failed
        /\ peer'[e].makingOffer = peer[e].makingOffer
        /\ peer'[e].isSettingRemoteAnswerPending = peer[e].isSettingRemoteAnswerPending
    <3>1. peer[e] \in PeerHandles
      BY <1>3
    <3>2. [peer[e] EXCEPT !.buffered = peer[e].buffered \union {s.generation}]
            \in PeerHandles
      BY <1>3, <3>1 DEF PeerHandles
    <3> QED  BY <1>3, <2>2, <3>1, <3>2 DEF PeerHandles
  <2>4. Hears(e)
    BY <1>1, <1>3, <1>4, <1>13, <2>2, <2>3 DEF Hears, Facts, PeerInv, Chained
  <2>5. \A f \in Ends : /\ HasTaking(chain'[f]) <=> HasTaking(chain[f])
                        /\ HasSettling(chain'[f]) <=> HasSettling(chain[f])
                        /\ peer'[f].wanted <=> peer[f].wanted
    BY <2>2, <2>3
  <2>6. /\ Turns' /\ (Alive' <=> Alive) /\ (Got' <=> Got)
        /\ Offering(Initiator)' <=> Offering(Initiator)
    BY <1>3, <1>6, <1>7, <1>13, <2>5, TurnsKept
  <2>7. Crossed(wire'[Initiator], Alive', Offering(Initiator)', Got')
    BY <1>3, <1>10, <2>6, CrossedKept
  <2> QED  BY <2>4, <2>6, <2>7, HearsKeeps
<1>14. CASE ~peer[e].wanted /\ s.type = "offer"
  <2> DEFINE x == Op("remote", s, "offer")
  <2>1. /\ ~peer[e].open /\ IsOffer(s) /\ Describes(s)
        /\ e = Responder /\ OfferRelayed /\ e # Initiator
    BY <1>1, <1>5, <1>6, <1>14, TwoEnds DEF Facts, Describes
  <2>2. /\ peer' = [peer EXCEPT ![e] = [peer[e] EXCEPT !.wanted = TRUE]]
        /\ chain' = [chain EXCEPT ![e] = <<x>>]
    BY <1>2, <1>3, <1>14, <2>1 DEF s
  <2>3. /\ peer' \in [Ends -> PeerHandles]
        /\ \A f \in Ends : f # e => peer'[f] = peer[f]
        /\ peer'[e].wanted /\ peer'[e].open = peer[e].open
        /\ peer'[e].failed = peer[e].failed
        /\ peer'[e].makingOffer = peer[e].makingOffer
        /\ peer'[e].isSettingRemoteAnswerPending = peer[e].isSettingRemoteAnswerPending
    <3>1. peer[e] \in PeerHandles
      BY <1>3
    <3> QED  BY <1>3, <2>2, <3>1 DEF PeerHandles
  <2>4. /\ x \in Operations /\ Taking(x) /\ x.do = "remote" /\ x.signal = s
    BY <1>3, <1>14, OperationTypes DEF Op, Taking
  <2>5. /\ chain' \in [Ends -> Seq(Operations)] /\ chain'[e] = <<x>>
        /\ \A f \in Ends : f # e => chain'[f] = chain[f]
        /\ ToSet(chain'[e]) = {x}
    <3>1. <<x>> \in Seq(Operations) /\ DOMAIN <<x>> = {1} /\ <<x>>[1] = x
      BY <2>4
    <3> HIDE DEF x
    <3> QED  BY <1>3, <2>2, <3>1 DEF ToSet
  <2>6. /\ chain[e] = <<>> /\ pc[e].state = "stable"
        /\ ~HasTaking(chain[e]) /\ ~HasSettling(chain[e])
    BY <1>14, <2>1, Idle DEF PeerInv, Pooled
  <2>7. Orderly(e, <<>>, pc[e].state, peer[e].makingOffer,
                peer[e].isSettingRemoteAnswerPending, peer[e].wanted)
    BY <2>6 DEF PeerInv, Chained
  <2>8. /\ Orderly(e, chain'[e], pc[e].state, peer'[e].makingOffer,
                   peer'[e].isSettingRemoteAnswerPending, peer'[e].wanted)
        /\ HasTaking(chain'[e]) /\ ~HasSettling(chain'[e])
        /\ ~HasCreating(chain'[e])
    <3> DEFINE t == pc[e].state
               m0 == peer'[e].makingOffer
               p == peer'[e].isSettingRemoteAnswerPending
               w == peer'[e].wanted
               c == chain[e]
    <3>1. ~peer[e].makingOffer /\ ~peer[e].isSettingRemoteAnswerPending
      BY <2>7, Idle
    <3>2. ~m0 /\ ~p /\ t = "stable"
      BY <2>3, <2>6, <3>1
    <3>3. c = <<>> /\ c \in Seq(Operations) /\ Append(c, x) = <<x>>
      BY <1>3, <2>6
    <3> HIDE DEF t, m0, p, w, x, c
    <3>4. Orderly(e, c, t, m0, p, w) /\ ~HasTaking(c) /\ ~HasSettling(c)
      BY <3>2, <3>3, Idle
    <3> SUFFICES /\ Orderly(e, Append(c, x), t, m0, p, w)
                 /\ HasTaking(Append(c, x))
                 /\ ~HasSettling(Append(c, x)) /\ ~HasCreating(Append(c, x))
      BY <2>5, <3>3 DEF t, m0, p, w
    <3>5. /\ Orderly(e, Append(c, x), t, m0, p, w)
          /\ HasTaking(Append(c, x))
          /\ HasSettling(Append(c, x)) <=> HasSettling(c)
          /\ ~HasCreating(Append(c, x))
      <4>1. w \/ (c = <<>>)
        BY <3>3
      <4>2. c \in Seq(Operations)
        BY <3>3
      <4> QED  BY <2>4, <3>2, <3>4, <4>1, <4>2, TakingJoins
    <3> QED  BY <3>4, <3>5
  <2>9. ~Both
    BY <2>1 DEF Both
  <2>10. Hears(e)
    <3>1. \A o \in ToSet(chain'[e]) : o = x
      BY <2>5
    <3> HIDE DEF x
    <3> QED  BY <1>3, <1>4, <1>8, <1>9, <2>1, <2>3, <2>4, <2>5, <2>8, <2>9, <3>1
                DEF Hears
  <2>11. /\ \A f \in Ends : /\ Offering(f)' <=> Offering(f)
                            /\ Answering(f)' <=> Answering(f)
         /\ peer'[Initiator].wanted = peer[Initiator].wanted
         /\ HasTaking(chain'[Responder]) /\ ~HasTaking(chain[Responder])
         /\ ~HasSettling(chain'[Responder]) /\ ~HasSettling(chain[Responder])
         /\ chain'[Initiator] = chain[Initiator]
    BY <1>3, <2>1, <2>3, <2>5, <2>6, <2>8, TwoEnds DEF Offering, Answering
  <2>12. Offering(Initiator) /\ ~AnswerRelayed
    BY <1>1, <1>4, <2>1 DEF TurnFacts, PeerInv, Turns, One
  <2>13. ~HasAnswer(wire[Responder])
    BY <1>1, <2>1, <2>6 DEF TurnFacts, Offering
  <2>14. Turns'
    BY <1>3, <1>4, <1>8, <2>1, <2>11, <2>12, <2>13, TwoEnds DEF PeerInv, Turns, One
  <2>15. (Alive' <=> Alive) /\ (Got => Got')
    BY <1>3, <2>11, TwoEnds DEF Alive, Got
  <2>16. Crossed(wire'[Initiator], Alive', Offering(Initiator)', Got')
    BY <1>3, <1>10, <2>11, <2>15, TwoEnds, CrossedKept
  <2> QED  BY <2>10, <2>14, <2>16, HearsKeeps
<1> QED
  BY <1>2, <1>11, <1>12, <1>13, <1>14 DEF s

\* signalled.
LEMMA signalledKeeps ==
  ASSUME PeerInv, NEW e \in Ends, signalled(e), UNCHANGED <<plan, owned>>
  PROVE  PeerInv'
<1> DEFINE s == Head(wire[e])
           v == Tail(wire[e])
<1>1. (\A f \in Ends : Facts(f)) /\ TurnFacts /\ PeerInv
  BY PeerFacts, TurnsTaken
<1>2. /\ s \in Signals /\ wire[e] # <<>> /\ peer[e].open
      /\ pc' = pc /\ plan' = plan /\ owned' = owned /\ relays' = relays
      /\ wire' = [wire EXCEPT ![e] = v]
      /\ IF s.type # "candidate" /\ s.sections = 0
           THEN UNCHANGED <<chain, peer>>
           ELSE signal(e, s)
  BY DEF signalled
<1>3. /\ chain \in [Ends -> Seq(Operations)] /\ peer \in [Ends -> PeerHandles]
      /\ wire \in [Ends -> Seq(Messages)] /\ wire[e] \in Seq(Messages)
      /\ s.type \in {"offer", "answer", "candidate"} /\ s.sections \in Nat
      /\ peer[e].wanted /\ peer[Initiator].wanted
  BY <1>1, <1>2 DEF PeerInv, Typed, Signals, Tracks, Facts
<1>4. /\ s.type = "offer" <=> IsOffer(s)
      /\ s.type = "answer" <=> IsAnswer(s)
      /\ s.type = "candidate" <=> ~Describes(s)
      /\ ~(IsOffer(s) /\ IsAnswer(s))
  BY <1>2, <1>3 DEF IsOffer, IsAnswer, Describes
<1>5. /\ v \in Seq(Messages) /\ s \in ToSet(wire[e])
      /\ HasOffer(wire[e]) <=> HasOffer(v) \/ IsOffer(s)
      /\ HasAnswer(wire[e]) <=> HasAnswer(v) \/ IsAnswer(s)
      /\ Ordered(wire[e]) => (IsOffer(s) => ~HasOffer(v) /\ ~HasAnswer(wire[e]))
      /\ OneAnswer(wire[e]) => (IsAnswer(s) => ~HasAnswer(v))
  BY <1>2, <1>3, WireRead, Shorter
<1>6. Describes(s) => /\ Both /\ s.sections > 0
                      /\ s.generation = pc[Other(e)].generation
  BY <1>5 DEF PeerInv, Opening, Current, Describes
<1>7. signal(e, s)
  BY <1>2, <1>3, <1>4, <1>6
<1>8. /\ wire' \in [Ends -> Seq(Messages)] /\ wire'[e] = v
      /\ \A f \in Ends : f # e => wire'[f] = wire[f]
  BY <1>2, <1>3, <1>5
<1>9. /\ Crossed(wire[Initiator], Alive, Offering(Initiator), Got)
      /\ Ordered(wire[Responder]) /\ OneAnswer(wire[e])
  BY DEF PeerInv, Crossing
<1>10. Crossed(wire'[Initiator], Alive, Offering(Initiator), Got)
  <2>1. CASE e = Initiator
    <3> HIDE DEF v
    <3>1. Crossed(Tail(wire[Initiator]), Alive, Offering(Initiator), Got)
      BY <1>2, <1>3, <1>9, <2>1, CrossedRead
    <3> QED  BY <1>8, <2>1, <3>1 DEF v
  <2>2. CASE e # Initiator
    BY <1>8, <1>9, <2>2, TwoEnds
  <2> QED  BY <2>1, <2>2
<1>11. /\ OfferRelayed' <=> OfferRelayed
       /\ AnswerRelayed' <=> AnswerRelayed
       /\ \A f \in Ends : /\ Offering(f)' <=> Offering(f)
                          /\ Answering(f)' <=> Answering(f)
  BY <1>2 DEF OfferRelayed, AnswerRelayed, Offering, Answering
<1>12. ASSUME Joined(e),
              \A o \in ToSet(chain'[e]) :
                \/ o \in ToSet(chain[e])
                \/ o.do = "rollback"
                \/ o.do = "candidate" /\ o.signal.generation = pc[e].remote
                \/ o.do = "remote" /\ o.signal = s /\ Describes(s)
       PROVE  Hears(e)
  <2> HIDE DEF s, v
  <2>1. wire'[e] = wire[e] \/ (wire[e] # <<>> /\ wire'[e] = Tail(wire[e]))
    BY <1>2, <1>8 DEF v
  <2>2. \A o \in ToSet(chain'[e]) :
          \/ o \in ToSet(chain[e])
          \/ o.do = "rollback"
          \/ o.do = "candidate" /\ o.signal.generation = pc[e].remote
          \/ /\ o.do = "remote" /\ o.signal.generation = pc[Other(e)].generation
             /\ Taking(o) /\ Both => o.signal.sections > 0
    BY <1>6, <1>12
  <2> QED  BY <1>2, <1>3, <1>8, <1>12, <2>1, <2>2 DEF Hears, Joined
<1> HIDE DEF s, v
<1>13. CASE signalCandidate(e, s)
  <2>1. ~Describes(s)
    BY <1>4, <1>13 DEF signalCandidate
  <2>2. /\ Joined(e)
        /\ HasTaking(chain'[e]) <=> HasTaking(chain[e])
        /\ HasSettling(chain'[e]) <=> HasSettling(chain[e])
        /\ \A o \in ToSet(chain'[e]) :
             \/ o \in ToSet(chain[e])
             \/ o.do = "candidate" /\ o.signal.generation = pc[e].remote
    BY <1>2, <1>3, <1>13, CandidateJoined
  <2>3. Hears(e)
    BY <1>12, <2>2
  <2>4. /\ \A f \in Ends : /\ HasTaking(chain'[f]) <=> HasTaking(chain[f])
                           /\ HasSettling(chain'[f]) <=> HasSettling(chain[f])
                           /\ HasAnswer(wire'[f]) <=> HasAnswer(wire[f])
                           /\ peer'[f].wanted <=> peer[f].wanted
        /\ HasOffer(wire'[Responder]) <=> HasOffer(wire[Responder])
    BY <1>5, <1>8, <2>1, <2>2, TwoEnds DEF Joined, Describes
  <2>5. /\ Turns' /\ (Alive' <=> Alive) /\ (Got' <=> Got)
        /\ Offering(Initiator)' <=> Offering(Initiator)
    BY <1>2, <1>11, <2>4, TurnsKept
  <2>6. Crossed(wire'[Initiator], Alive', Offering(Initiator)', Got')
    BY <1>10, <2>5, CrossedKept
  <2> QED  BY <2>3, <2>5, <2>6, HearsKeeps
<1>14. CASE signalAnswer(e, s)
  <2>1. /\ IsAnswer(s) /\ Describes(s) /\ ~IsOffer(s)
        /\ HasAnswer(wire[e]) /\ ~HasAnswer(wire'[e])
        /\ HasOffer(wire'[e]) <=> HasOffer(wire[e])
    BY <1>4, <1>5, <1>8, <1>9, <1>14 DEF signalAnswer, Describes
  <2>2. CASE e = Initiator
    <3>1. Offering(Initiator)
      BY <1>1, <2>1, <2>2 DEF TurnFacts
    <3>2. ~HasSettling(chain[Initiator])
      BY <1>3, <2>1, <2>2, <3>1 DEF PeerInv, Turns, One
    <3>3. ~HasTaking(chain[Initiator])
      BY <1>1, <3>1, <3>2 DEF TurnFacts
    <3>4. /\ Joined(e)
          /\ ~HasTaking(chain'[e]) /\ HasSettling(chain'[e])
          /\ \A o \in ToSet(chain'[e]) :
               \/ o \in ToSet(chain[e])
               \/ o.do = "remote" /\ o.signal = s /\ ~Taking(o)
      BY <1>2, <1>3, <1>14, <2>2, <3>1, <3>2, <3>3, AnswerJoined
    <3>5. Hears(e)
      BY <1>12, <2>1, <3>4
    <3>6. /\ \A f \in Ends : peer'[f].wanted = peer[f].wanted
          /\ HasTaking(chain'[Initiator]) <=> HasTaking(chain[Initiator])
          /\ HasSettling(chain'[Initiator]) /\ ~HasAnswer(wire'[Initiator])
          /\ HasAnswer(wire[Initiator])
          /\ chain'[Responder] = chain[Responder] /\ wire'[Responder] = wire[Responder]
      BY <1>8, <2>1, <2>2, <3>3, <3>4, TwoEnds DEF Joined
    <3>7. Turns'
      BY <1>3, <1>11, <3>1, <3>2, <3>6, TwoEnds DEF PeerInv, Turns, One
    <3>8. (Alive' <=> Alive) /\ (Got' <=> Got)
      BY <1>11, <3>6, TwoEnds DEF Alive, Got
    <3>9. Crossed(wire'[Initiator], Alive', Offering(Initiator)', Got')
      BY <1>10, <1>11, <3>8, TwoEnds, CrossedKept
    <3> QED  BY <3>5, <3>7, <3>9, HearsKeeps
  <2>3. CASE e = Responder
    <3>1. Offering(Responder)
      BY <1>1, <2>1, <2>3 DEF TurnFacts
    <3>2. /\ ~HasSettling(chain[Responder]) /\ ~HasTaking(chain[Initiator])
          /\ ~Answering(Initiator)
      BY <2>1, <2>3, <3>1 DEF PeerInv, Turns, One
    <3>3. ~HasTaking(chain[Responder])
      BY <1>1, <2>1, <2>3 DEF TurnFacts
    <3>4. /\ Joined(e)
          /\ ~HasTaking(chain'[e]) /\ HasSettling(chain'[e])
          /\ \A o \in ToSet(chain'[e]) :
               \/ o \in ToSet(chain[e])
               \/ o.do = "remote" /\ o.signal = s /\ ~Taking(o)
      BY <1>2, <1>3, <1>14, <2>3, <3>1, <3>2, <3>3, AnswerJoined
    <3>5. Hears(e)
      BY <1>12, <2>1, <3>4
    <3>6. /\ \A f \in Ends : peer'[f].wanted = peer[f].wanted
          /\ ~HasTaking(chain'[Responder]) /\ ~HasTaking(chain[Responder])
          /\ HasSettling(chain'[Responder]) /\ ~HasAnswer(wire'[Responder])
          /\ HasAnswer(wire[Responder])
          /\ HasOffer(wire'[Responder]) <=> HasOffer(wire[Responder])
          /\ chain'[Initiator] = chain[Initiator] /\ wire'[Initiator] = wire[Initiator]
      BY <1>8, <2>1, <2>3, <3>3, <3>4, TwoEnds DEF Joined
    <3>7. Turns'
      BY <1>3, <1>11, <3>1, <3>2, <3>6, TwoEnds DEF PeerInv, Turns, One
    <3>8. ~Alive /\ ~Alive' /\ (Got' <=> Got)
      BY <1>11, <3>6, TwoEnds DEF Alive, Got
    <3>9. Crossed(wire'[Initiator], Alive', Offering(Initiator)', Got')
      BY <1>10, <1>11, <3>8, TwoEnds, CrossedKept
    <3> QED  BY <3>5, <3>7, <3>9, HearsKeeps
  <2> QED  BY <2>2, <2>3, TwoEnds
<1>15. CASE signalOffer(e, s)
  <2> DEFINE collides == \/ peer[e].makingOffer
                         \/ /\ Offering(e)
                            /\ ~peer[e].isSettingRemoteAnswerPending
  <2>1. /\ IsOffer(s) /\ Describes(s) /\ ~IsAnswer(s) /\ HasOffer(wire[e])
        /\ HasAnswer(wire'[e]) <=> HasAnswer(wire[e])
    BY <1>4, <1>5, <1>8, <1>15 DEF signalOffer, Describes
  <2>2. ASSUME ~HasTaking(chain[e]), ~Answering(e)
        PROVE  /\ Joined(e) /\ Hears(e)
               /\ HasSettling(chain'[e]) <=> HasSettling(chain[e])
               /\ IF collides /\ e = Initiator THEN chain' = chain /\ peer' = peer
                                               ELSE HasTaking(chain'[e])
    <3>1. /\ Joined(e)
          /\ HasSettling(chain'[e]) <=> HasSettling(chain[e])
          /\ IF collides /\ e = Initiator THEN chain' = chain /\ peer' = peer
                                          ELSE HasTaking(chain'[e])
          /\ \A o \in ToSet(chain'[e]) :
               \/ o \in ToSet(chain[e])
               \/ o.do = "rollback"
               \/ o.do = "remote" /\ o.signal = s
      BY <1>2, <1>3, <1>15, <2>2, OfferJoined
    <3>2. Hears(e)
      BY <1>12, <2>1, <3>1
    <3> QED  BY <3>1, <3>2
  <2> HIDE DEF collides
  <2>3. CASE e = Responder
    <3>1. Offering(Initiator)
      BY <1>1, <2>1, <2>3 DEF TurnFacts
    <3>2. ~HasTaking(chain[Responder]) /\ ~Answering(Responder)
      BY <1>3, <2>1, <2>3, <3>1 DEF PeerInv, Turns, One
    <3>3. ~HasOffer(wire'[Responder]) /\ ~HasAnswer(wire[Responder])
      BY <1>5, <1>8, <1>9, <2>1, <2>3
    <3>4. /\ Joined(e) /\ Hears(e)
          /\ HasSettling(chain'[e]) <=> HasSettling(chain[e])
          /\ HasTaking(chain'[e])
      BY <2>2, <2>3, <3>2, TwoEnds
    <3>5. /\ \A f \in Ends : peer'[f].wanted = peer[f].wanted
          /\ HasTaking(chain'[Responder])
          /\ HasSettling(chain'[Responder]) <=> HasSettling(chain[Responder])
          /\ ~HasAnswer(wire'[Responder]) /\ HasOffer(wire[Responder])
          /\ chain'[Initiator] = chain[Initiator] /\ wire'[Initiator] = wire[Initiator]
      BY <1>8, <2>1, <2>3, <3>3, <3>4, TwoEnds DEF Joined
    <3>6. Turns'
      BY <1>3, <1>11, <3>1, <3>2, <3>3, <3>5, TwoEnds DEF PeerInv, Turns, One
    <3>7. (Alive' <=> Alive) /\ (Got => Got')
      BY <1>11, <3>3, <3>5, TwoEnds DEF Alive, Got
    <3>8. Crossed(wire'[Initiator], Alive', Offering(Initiator)', Got')
      BY <1>10, <1>11, <3>7, TwoEnds, CrossedKept
    <3> QED  BY <3>4, <3>6, <3>8, HearsKeeps
  <2>4. CASE e = Initiator
    <3>1. \/ Alive /\ ~HasOffer(v) /\ ~HasAnswer(v)
          \/ Offering(Initiator) /\ (Got \/ HasAnswer(wire[Initiator]))
      <4>1. wire[Initiator] \in Seq(Messages) /\ wire[Initiator] # <<>>
            /\ IsOffer(Head(wire[Initiator])) /\ v = Tail(wire[Initiator])
        BY <1>2, <1>3, <2>1, <2>4 DEF s, v
      <4> QED  BY <1>9, <4>1, CrossedRead
    <3>2. ASSUME chain' = chain, peer' = peer, Hears(e)
          PROVE  PeerInv'
      <4>1. /\ \A f \in Ends : HasAnswer(wire'[f]) <=> HasAnswer(wire[f])
            /\ HasOffer(wire'[Responder]) <=> HasOffer(wire[Responder])
        BY <1>8, <2>1, <2>4, TwoEnds
      <4>2. /\ Turns' /\ (Alive' <=> Alive) /\ (Got' <=> Got)
            /\ Offering(Initiator)' <=> Offering(Initiator)
        BY <1>2, <1>11, <3>2, <4>1, TurnsKept
      <4>3. Crossed(wire'[Initiator], Alive', Offering(Initiator)', Got')
        BY <1>10, <4>2, CrossedKept
      <4> QED  BY <3>2, <4>2, <4>3, HearsKeeps
    <3>3. CASE Alive /\ ~HasOffer(v) /\ ~HasAnswer(v)
      <4>1. ~HasTaking(chain[e]) /\ ~Answering(e)
        BY <2>4, <3>3 DEF Alive
      <4>2. /\ Joined(e) /\ Hears(e)
            /\ HasSettling(chain'[e]) <=> HasSettling(chain[e])
            /\ IF collides /\ e = Initiator THEN chain' = chain /\ peer' = peer
                                            ELSE HasTaking(chain'[e])
        BY <2>2, <4>1
      <4>3. CASE collides
        BY <2>4, <3>2, <4>2, <4>3
      <4>4. CASE ~collides
        <5>1. /\ \A f \in Ends : peer'[f].wanted = peer[f].wanted
              /\ HasTaking(chain'[Initiator]) /\ ~HasTaking(chain[Initiator])
              /\ HasSettling(chain'[Initiator]) <=> HasSettling(chain[Initiator])
              /\ HasAnswer(wire'[Initiator]) <=> HasAnswer(wire[Initiator])
              /\ chain'[Responder] = chain[Responder]
              /\ wire'[Responder] = wire[Responder]
          BY <1>8, <2>1, <2>4, <4>1, <4>2, <4>4, TwoEnds DEF Joined
        <5>2. Turns'
          BY <1>3, <1>11, <3>3, <5>1, TwoEnds DEF PeerInv, Turns, One, Alive
        <5>3. ~HasOffer(wire'[Initiator])
          BY <1>8, <2>4, <3>3
        <5>4. Crossed(wire'[Initiator], Alive', Offering(Initiator)', Got')
          BY <5>3, NoneCrosses
        <5> QED  BY <4>2, <5>2, <5>4, HearsKeeps
      <4> QED  BY <4>3, <4>4
    <3>4. CASE Offering(Initiator) /\ (Got \/ HasAnswer(wire[Initiator]))
      <4>1. ~HasSettling(chain[Initiator])
        BY <1>3, <3>4 DEF PeerInv, Turns, One, Got
      <4>2. ~HasTaking(chain[Initiator]) /\ ~Answering(Initiator)
        BY <1>1, <3>4, <4>1 DEF TurnFacts, Offering, Answering
      <4>3. ~peer[Initiator].isSettingRemoteAnswerPending
        <5>1. Orderly(Initiator, chain[Initiator], pc[Initiator].state,
                      peer[Initiator].makingOffer,
                      peer[Initiator].isSettingRemoteAnswerPending,
                      peer[Initiator].wanted)
          BY TwoEnds DEF PeerInv, Chained
        <5>2. \A i \in DOMAIN chain[Initiator] : ~Finishing(chain[Initiator][i])
          BY <3>4, <5>1 DEF Orderly, SettlingFits, Offering
        <5>3. \A i \in DOMAIN chain[Initiator] : ~Settling(chain[Initiator][i])
          BY <4>1 DEF HasSettling
        <5> QED  BY <5>1, <5>2, <5>3 DEF Orderly, PendingFits
      <4>4. collides
        BY <2>4, <3>4, <4>3 DEF collides
      <4>5. chain' = chain /\ peer' = peer /\ Hears(e)
        BY <2>2, <2>4, <4>2, <4>4
      <4> QED  BY <3>2, <4>5
    <3> QED  BY <3>1, <3>3, <3>4
  <2> QED  BY <2>3, <2>4, TwoEnds
<1> QED  BY <1>7, <1>13, <1>14, <1>15 DEF signal

-----------------------------------------------------------------------------
\* The browser does the first operation of a chain, whatever it is.
LEMMA completeKeeps ==
  ASSUME PeerInv, NEW e \in Ends, complete(e), UNCHANGED <<plan, owned>>
  PROVE  PeerInv'
<1> DEFINE x == chain[e][1]
<1>1. chain[e] # <<>>
  BY DEF complete
<1>2. Head(chain[e]) = x
  BY <1>1, FirstKind
<1>3. CASE setLocalDescription(e)
  <2>1. Creating(x) \/ x = Local("restart") \/ x = Local("offer")
    BY <1>1, <1>2, <1>3, FirstKind DEF setLocalDescription
  <2> QED
    BY <1>1, <1>3, <2>1, creatingKeeps, revivingKeeps, replyingKeeps
<1>4. CASE rollback(e)
  <2>1. Yielding(x) \/ x = Rollback("restart")
    BY <1>1, <1>2, <1>4, FirstKind DEF rollback
  <2> QED  BY <1>1, <1>4, <2>1, yieldingKeeps, withdrawingKeeps
<1>5. CASE setRemoteDescription(e)
  <2>1. Taking(x) \/ Settling(x)
    BY <1>1, <1>2, <1>5, FirstKind DEF setRemoteDescription
  <2> QED  BY <1>1, <1>5, <2>1, takingKeeps, settlingKeeps
<1>6. CASE addIceCandidate(e)
  BY <1>1, <1>6, addingKeeps
<1> QED  BY <1>3, <1>4, <1>5, <1>6 DEF complete

\* What a connection keeps to, whatever its ends do: orderly chains, an offer
\* in one place, and offers that cross only so that one of them is given up.
THEOREM PeerKeepsOrder == Spec => []PeerInv
<1>1. Spec => MediaInit /\ [][Next]_vars
  BY DEF Spec
<1>2. MediaInit => PeerInv
  BY PeerInvStarts
<1>3. PeerInv /\ [Next]_vars => PeerInv'
  <2> SUFFICES ASSUME PeerInv, [Next]_vars PROVE PeerInv'
    OBVIOUS
  <2>1. ASSUME NEW e \in Ends, negotiate(e) PROVE PeerInv'
    BY <2>1, completeKeeps DEF negotiate
  <2>2. ASSUME NEW e \in Ends, createOffer(e) /\ UNCHANGED mediaVars PROVE PeerInv'
    BY <2>2, createOfferKeeps DEF mediaVars
  <2>3. ASSUME NEW e \in Ends, renewOffer(e) /\ UNCHANGED mediaVars PROVE PeerInv'
    BY <2>3, renewOfferKeeps DEF mediaVars
  <2>4. ASSUME NEW e \in Ends, sendOffer(e) /\ UNCHANGED mediaVars PROVE PeerInv'
    BY <2>4, sendOfferKeeps DEF mediaVars
  <2>5. ASSUME NEW e \in Ends, onicecandidate(e) /\ UNCHANGED mediaVars
        PROVE  PeerInv'
    BY <2>5, onicecandidateKeeps DEF mediaVars
  <2>6. ASSUME NEW e \in Ends, relayed(e) /\ UNCHANGED mediaVars PROVE PeerInv'
    BY <2>6, relayedKeeps DEF mediaVars
  <2>7. ASSUME NEW e \in Ends, openChannel(e) /\ UNCHANGED mediaVars PROVE PeerInv'
    BY <2>7, openChannelKeeps DEF mediaVars
  <2>8. ASSUME NEW e \in Ends, signalled(e) /\ UNCHANGED mediaVars PROVE PeerInv'
    BY <2>8, signalledKeeps DEF mediaVars
  <2>9. ASSUME NEW e \in Ends, receiveTrackMeta(e) PROVE PeerInv'
    BY <2>9, receiveTrackMetaKeeps
  <2>10. ASSUME NEW e \in Ends, NEW r \in Rooms, addTrack(e, r) PROVE PeerInv'
    BY <2>10, addTrackKeeps
  <2>11. CASE UNCHANGED vars
    BY <2>11
       DEF vars, PeerInv, Typed, Chained, Turns, Crossing, Relayed, Pooled, Opening,
           Current, NeverRejected, OfferRelayed, AnswerRelayed, Offering, Answering,
           Alive, Got, Both
  <2> QED
    BY <2>1, <2>2, <2>3, <2>4, <2>5, <2>6, <2>7, <2>8, <2>9, <2>10, <2>11 DEF Next
<1> QED  BY <1>1, <1>2, <1>3, PTL

\* peer.ts, signal: no description and no candidate is ever applied in a state
\* that does not admit it, whoever adds tracks and however offers cross.
THEOREM NeverRejects == Spec => []NeverRejected
<1>1. PeerInv => NeverRejected
  BY DEF PeerInv
<1> QED  BY <1>1, PeerKeepsOrder, PTL

\* The state of a connection has its type, and the flags by which an end tells
\* whether offers cross are up only while the browser is at work.
THEOREM PeerTypes == Spec => []PeerTypeOK
<1>1. PeerInv => PeerTypeOK
  <2> SUFFICES ASSUME PeerInv PROVE PeerTypeOK
    OBVIOUS
  <2>1. /\ pc \in [Ends -> Connections] /\ peer \in [Ends -> PeerHandles]
        /\ relays \subseteq Ends \X Signals
        /\ \A e \in Ends : chain[e] \in Seq(Operations)
    BY DEF PeerInv, Typed
  <2>2. \A e \in Ends : \A i \in DOMAIN chain[e] : chain[e][i] \in Operations
    BY <2>1
  <2>3. ASSUME NEW e \in Ends,
               peer[e].makingOffer \/ peer[e].isSettingRemoteAnswerPending
        PROVE  chain[e] # <<>>
    <3>1. /\ CreatingFirst(chain[e], pc[e].state, peer[e].makingOffer)
          /\ PendingFits(chain[e], peer[e].isSettingRemoteAnswerPending)
      BY DEF PeerInv, Chained, Orderly
    <3>2. CASE peer[e].makingOffer
      BY <3>1, <3>2 DEF CreatingFirst
    <3>3. CASE peer[e].isSettingRemoteAnswerPending
      <4>1. DOMAIN chain[e] # {}
        BY <3>1, <3>3 DEF PendingFits
      <4>2. DOMAIN <<>> = {}
        OBVIOUS
      <4> QED  BY <4>1, <4>2
    <3> QED  BY <2>3, <3>2, <3>3
  <2> QED  BY <2>1, <2>2, <2>3 DEF PeerTypeOK
<1> QED  BY <1>1, PeerKeepsOrder, PTL
=============================================================================
