---------------------------- MODULE OfferProofs ----------------------------
(***************************************************************************)
(* Proofs about offers, for any number of peers: what the pool keeps       *)
(* track of (OfferPool); that it implements OfferCustody; and the offers a *)
(* room has at torrent trackers, which are leased from it (TorrentOffers). *)
(***************************************************************************)
EXTENDS TorrentOffers, TLAPS, FiniteSetTheorems

-----------------------------------------------------------------------------
(***************************************************************************)
(* SingleCustody and Accounted, for any number of peers.  Neither is       *)
(* inductive alone: push trusts the set pooled to say what is in the       *)
(* array pool, warmup that the array is empty, and encryptFails that the   *)
(* peer it destroys has no remote description, which only owners give.     *)
(***************************************************************************)

Custody ==
  /\ TypeOK
  /\ pooled = InPool
  /\ phase = "cold" => pool = <<>>
  /\ answered \subseteq owned
  /\ SingleCustody
  /\ Accounted

-----------------------------------------------------------------------------
\* Peers that shift takes: the head leaves the array, everybody else stays.
LEMMA Shifted ==
  ASSUME NEW seq \in Seq(Handles), seq # <<>>,
         \A i, j \in DOMAIN seq : seq[i] = seq[j] => i = j
  PROVE  /\ Head(seq) \in Elements(seq)
         /\ Head(seq) \in Handles
         /\ Tail(seq) \in Seq(Handles)
         /\ Elements(Tail(seq)) = Elements(seq) \ {Head(seq)}
         /\ \A i, j \in DOMAIN Tail(seq) : Tail(seq)[i] = Tail(seq)[j] => i = j
<1>1. /\ Len(seq) \in Nat /\ Len(seq) > 0
      /\ DOMAIN seq = 1..Len(seq)
      /\ Head(seq) = seq[1]
      /\ \A i \in 1..Len(seq) : seq[i] \in Handles
  OBVIOUS
<1>2. /\ Tail(seq) \in Seq(Handles)
      /\ DOMAIN Tail(seq) = 1..(Len(seq) - 1)
      /\ \A i \in 1..(Len(seq) - 1) : Tail(seq)[i] = seq[i + 1]
  BY <1>1
<1>3. Elements(Tail(seq)) \subseteq Elements(seq) \ {Head(seq)}
  BY <1>1, <1>2 DEF Elements
<1>4. ASSUME NEW i \in DOMAIN seq, seq[i] # Head(seq)
      PROVE  seq[i] \in Elements(Tail(seq))
  <2>1. i - 1 \in DOMAIN Tail(seq) /\ Tail(seq)[i - 1] = seq[i]
    BY <1>1, <1>2, <1>4
  <2> QED  BY <2>1 DEF Elements
<1>5. \A i, j \in DOMAIN Tail(seq) : Tail(seq)[i] = Tail(seq)[j] => i = j
  BY <1>1, <1>2
<1> QED  BY <1>1, <1>2, <1>3, <1>4, <1>5 DEF Elements

\* A peer that push adds.
LEMMA Pushed ==
  ASSUME NEW seq \in Seq(Handles), NEW h \in Handles, h \notin Elements(seq),
         \A i, j \in DOMAIN seq : seq[i] = seq[j] => i = j
  PROVE  /\ Append(seq, h) \in Seq(Handles)
         /\ Elements(Append(seq, h)) = Elements(seq) \union {h}
         /\ \A i, j \in DOMAIN Append(seq, h) :
              Append(seq, h)[i] = Append(seq, h)[j] => i = j
<1>1. /\ Len(seq) \in Nat
      /\ DOMAIN seq = 1..Len(seq)
      /\ DOMAIN Append(seq, h) = 1..(Len(seq) + 1)
      /\ \A i \in 1..Len(seq) : Append(seq, h)[i] = seq[i]
      /\ Append(seq, h)[Len(seq) + 1] = h
      /\ Append(seq, h) \in Seq(Handles)
  OBVIOUS
<1>2. Elements(Append(seq, h)) = Elements(seq) \union {h}
  BY <1>1 DEF Elements
<1>3. \A i \in 1..Len(seq) : seq[i] # h
  BY <1>1 DEF Elements
<1> QED  BY <1>1, <1>2, <1>3

\* The empty pool.
LEMMA Emptied == Elements(<<>>) = {}
  BY DEF Elements

\* What recycle leaves in the three sets it works on.
LEMMA Recycled ==
  ASSUME Custody, NEW h \in Handles, recycle(h),
         h \notin InPool \union recycling \union Encrypting
  PROVE  /\ live' \subseteq Handles /\ answered' \subseteq live'
         /\ live' \in {live, live \ {h}}
         /\ recycling' \in {recycling, recycling \union {h}}
         /\ (h \in live') => (h \in recycling')
  BY DEF Custody, TypeOK, recycle

-----------------------------------------------------------------------------
\* The custody invariant holds at the start.
LEMMA InitCustody == Init => Custody
<1> SUFFICES ASSUME Init PROVE Custody  OBVIOUS
<1>1. pool = <<>> /\ Elements(pool) = {}
  BY Emptied DEF Init
<1>2. Encrypting = {}
  BY DEF Init, Encrypting
<1>3. TypeOK
  BY DEF Init, TypeOK, NoJob, Jobs
<1>4. SingleCustody
  BY <1>1, <1>2 DEF Init, SingleCustody, InPool
<1> QED
  BY <1>1, <1>2, <1>3, <1>4 DEF Init, Custody, InPool, Accounted

\* The pool is made of peers that nobody has.
LEMMA WarmupCustody == Custody /\ warmup => Custody'
<1> SUFFICES ASSUME Custody, warmup PROVE Custody'  OBVIOUS
<1> USE PoolSizeAssumption
<1>1. PICK new \in [1..PoolSize -> Free] :
        /\ \A i, j \in 1..PoolSize : new[i] = new[j] => i = j
        /\ pool' = new
        /\ pooled' = {new[i] : i \in 1..PoolSize}
        /\ live' = live \union {new[i] : i \in 1..PoolSize}
  BY DEF warmup
<1>2. /\ pool' \in Seq(Handles)
      /\ DOMAIN pool' = 1..PoolSize
      /\ InPool' = {new[i] : i \in 1..PoolSize}
      /\ InPool' \subseteq Free
      /\ Free \subseteq Handles
  BY <1>1 DEF InPool, Elements, Free
<1>3. Encrypting' = Encrypting
  BY DEF warmup, Encrypting
<1>4. phase' = "active" /\ answered' = answered /\ owned' = owned
  BY DEF warmup
<1>5. TypeOK'
  BY <1>1, <1>2 DEF Custody, TypeOK, warmup
<1>6. SingleCustody'
  BY <1>1, <1>2, <1>3 DEF Custody, SingleCustody, warmup, Free
<1>7. InPool = {}
  BY Emptied DEF warmup, Custody, InPool
<1> QED
  BY <1>1, <1>2, <1>3, <1>4, <1>5, <1>6, <1>7
     DEF Custody, Accounted, warmup

\* Dead peers leave the array and the set.
LEMMA CleanupCustody == Custody /\ cleanup => Custody'
<1> SUFFICES ASSUME Custody, cleanup PROVE Custody'  OBVIOUS
<1> DEFINE kept == {i \in DOMAIN pool : pool[i] \in live}
<1>1. PICK n \in 0..Len(pool) : \E at \in [1..n -> kept] :
        /\ \A i, j \in 1..n : i < j => at[i] < at[j]
        /\ \A k \in kept : \E i \in 1..n : at[i] = k
        /\ pool' = [i \in 1..n |-> pool[at[i]]]
  BY DEF cleanup
<1>2. PICK at \in [1..n -> kept] :
        /\ \A i, j \in 1..n : i < j => at[i] < at[j]
        /\ \A k \in kept : \E i \in 1..n : at[i] = k
        /\ pool' = [i \in 1..n |-> pool[at[i]]]
  BY <1>1
<1>3. /\ pool \in Seq(Handles)
      /\ DOMAIN pool = 1..Len(pool)
      /\ Len(pool) \in Nat
      /\ \A i \in 1..Len(pool) : pool[i] \in Handles
  BY DEF Custody, TypeOK
<1>4. \A i \in 1..n : at[i] \in 1..Len(pool) /\ pool[at[i]] \in live
  BY <1>2, <1>3
<1>5. /\ pool' \in Seq(Handles)
      /\ DOMAIN pool' = 1..n
      /\ \A i \in 1..n : pool'[i] = pool[at[i]]
  BY <1>2, <1>3, <1>4
<1>6. InPool' = InPool \intersect live
  <2>1. InPool' \subseteq InPool \intersect live
    BY <1>3, <1>4, <1>5 DEF InPool, Elements
  <2>2. ASSUME NEW h \in InPool, h \in live PROVE h \in InPool'
    <3>1. PICK k \in DOMAIN pool : pool[k] = h
      BY <2>2 DEF InPool, Elements
    <3>2. PICK i \in 1..n : at[i] = k
      BY <1>2, <2>2, <3>1
    <3> QED  BY <1>5, <3>1, <3>2 DEF InPool, Elements
  <2> QED  BY <2>1, <2>2
<1>7. \A i, j \in DOMAIN pool' : pool'[i] = pool'[j] => i = j
  <2> SUFFICES ASSUME NEW i \in 1..n, NEW j \in 1..n, pool'[i] = pool'[j]
               PROVE  i = j
    BY <1>5
  <2>1. at[i] = at[j]
    BY <1>3, <1>4, <1>5 DEF Custody, SingleCustody
  <2>2. at[i] \in Int /\ at[j] \in Int
    BY <1>4
  <2>3. ~(i < j) /\ ~(j < i)
    BY <1>2, <2>1, <2>2
  <2> QED  BY <2>3
<1>8. Encrypting' = Encrypting
  BY DEF cleanup, Encrypting
<1>9. TypeOK'
  BY <1>5 DEF Custody, TypeOK, cleanup
<1>10. pooled' = InPool'
  BY <1>6 DEF Custody, cleanup
<1>11. SingleCustody'
  BY <1>6, <1>7, <1>8 DEF Custody, SingleCustody, cleanup
<1> QED
  BY <1>6, <1>8, <1>9, <1>10, <1>11 DEF Custody, Accounted, cleanup

\* A checkout takes the head of the pool or a peer nobody has.
LEMMA CheckoutCustody ==
  ASSUME Custody, NEW kind \in {"lease", "plain"}, checkout(kind)
  PROVE  Custody'
<1> DEFINE given == [kind |-> kind, attempt |-> 0]
<1>1. given \in Jobs /\ given # NoJob
  BY DEF Jobs, NoJob
<1>2. CASE pool # <<>>
  <2> DEFINE h == Head(pool)
  <2>1. /\ h \in InPool /\ h \in Handles
        /\ pool' = Tail(pool) /\ pool' \in Seq(Handles)
        /\ InPool' = InPool \ {h}
        /\ \A i, j \in DOMAIN pool' : pool'[i] = pool'[j] => i = j
    BY <1>2, Shifted DEF Custody, TypeOK, SingleCustody, InPool, checkout
  <2>2. job' = [job EXCEPT ![h] = given] /\ pooled' = pooled \ {h}
    BY <1>2 DEF checkout
  <2> HIDE DEF h
  <2>3. /\ UNCHANGED <<live, answered, leased, recycling, owned, phase>>
        /\ job \in [Handles -> Jobs]
    BY <1>2 DEF checkout, Custody, TypeOK
  <2>4. Encrypting' = Encrypting \union {h}
    BY <1>1, <2>1, <2>2, <2>3 DEF Encrypting
  <2>5. TypeOK'
    BY <1>1, <2>1, <2>2, <2>3 DEF Custody, TypeOK
  <2>6. SingleCustody'
    BY <2>1, <2>3, <2>4 DEF Custody, SingleCustody
  <2> QED
    BY <2>1, <2>2, <2>3, <2>4, <2>5, <2>6 DEF Custody, Accounted
<1>3. CASE pool = <<>>
  <2>1. PICK h \in Free : job' = [job EXCEPT ![h] = given]
                          /\ live' = live \union {h}
    BY <1>3 DEF checkout
  <2>2. /\ UNCHANGED <<pool, pooled, answered, leased, recycling, owned, phase>>
        /\ job \in [Handles -> Jobs]
        /\ h \in Handles
    BY <1>3 DEF checkout, Custody, TypeOK, Free
  <2>3. InPool' = InPool
    BY <2>2 DEF InPool
  <2>4. Encrypting' = Encrypting \union {h}
    BY <1>1, <2>1, <2>2 DEF Encrypting
  <2>5. TypeOK'
    BY <1>1, <2>1, <2>2 DEF Custody, TypeOK
  <2>6. SingleCustody'
    BY <2>1, <2>2, <2>3, <2>4 DEF Custody, SingleCustody, Free
  <2> QED
    BY <2>1, <2>2, <2>3, <2>4, <2>5, <2>6 DEF Custody, Accounted
<1> QED  BY <1>2, <1>3

\* The checkout ends, and the peer goes to whoever asked for it.
LEMMA EncryptedCustody ==
  ASSUME Custody, NEW h \in Handles, encrypted(h)
  PROVE  Custody'
<1>1. /\ UNCHANGED <<pool, pooled, live, answered, recycling, phase>>
      /\ job \in [Handles -> Jobs] /\ NoJob \in Jobs
      /\ job[h] # NoJob /\ job' = [job EXCEPT ![h] = NoJob]
      /\ \/ leased' = leased \union {h} /\ owned' = owned
         \/ owned' = owned \union {h} /\ leased' = leased
  BY DEF encrypted, Custody, TypeOK, NoJob, Jobs
<1>2. InPool' = InPool
  BY <1>1 DEF InPool
<1>3. h \in Encrypting /\ Encrypting' = Encrypting \ {h}
  BY <1>1 DEF Encrypting
<1>4. TypeOK'
  BY <1>1 DEF Custody, TypeOK
<1>5. SingleCustody'
  <2>1. CASE leased' = leased \union {h} /\ owned' = owned
    BY <1>1, <1>2, <1>3, <2>1 DEF Custody, SingleCustody
  <2>2. CASE owned' = owned \union {h} /\ leased' = leased
    BY <1>1, <1>2, <1>3, <2>2 DEF Custody, SingleCustody
  <2> QED  BY <1>1, <2>1, <2>2
<1> QED
  BY <1>1, <1>2, <1>3, <1>4, <1>5 DEF Custody, Accounted

\* The checkout fails, and goes on with another peer or not at all.
LEMMA EncryptFailsCustody ==
  ASSUME Custody, NEW h \in Handles, encryptFails(h)
  PROVE  Custody'
<1>1. /\ UNCHANGED <<pool, answered, recycling, phase, owned>>
      /\ job \in [Handles -> Jobs] /\ NoJob \in Jobs /\ job[h] # NoJob
      /\ leased' = leased \ {h} /\ pooled' = pooled \ {h}
  BY DEF encryptFails, Custody, TypeOK, NoJob, Jobs
<1>2. InPool' = InPool
  BY <1>1 DEF InPool
<1>3. h \in Encrypting /\ h \notin InPool \union leased
  BY <1>1 DEF Encrypting, Custody, SingleCustody
<1>4. h \notin answered
  BY <1>3 DEF Custody, SingleCustody
<1>5. CASE job[h].attempt = 0
  <2> DEFINE again == [kind |-> job[h].kind, attempt |-> 1]
  <2>1. PICK g \in Free : /\ job' = [job EXCEPT ![h] = NoJob, ![g] = again]
                          /\ live' = (live \ {h}) \union {g}
    BY <1>5 DEF encryptFails
  <2>2. again \in Jobs /\ again # NoJob
    <3>1. job[h] \in Jobs
      BY <1>1
    <3> QED  BY <3>1 DEF Jobs, NoJob
  <2>3. g \in Handles /\ g # h /\ g \notin Encrypting
    BY <1>3 DEF Free
  <2> HIDE DEF again
  <2>4. job' \in [Handles -> Jobs]
    BY <1>1, <2>1, <2>2, <2>3
  <2>5. Encrypting' = (Encrypting \ {h}) \union {g}
    BY <1>1, <2>1, <2>2, <2>3 DEF Encrypting
  <2>6. TypeOK'
    BY <1>1, <1>4, <2>1, <2>3, <2>4 DEF Custody, TypeOK
  <2>7. SingleCustody'
    BY <1>1, <1>2, <2>1, <2>5 DEF Custody, SingleCustody, Free
  <2> QED
    BY <1>1, <1>2, <1>3, <2>1, <2>5, <2>6, <2>7 DEF Custody, Accounted
<1>6. CASE job[h].attempt = 1
  <2>1. job' = [job EXCEPT ![h] = NoJob] /\ live' = live \ {h}
    BY <1>6 DEF encryptFails
  <2>2. Encrypting' = Encrypting \ {h}
    BY <1>1, <2>1 DEF Encrypting
  <2>3. TypeOK'
    BY <1>1, <1>4, <2>1 DEF Custody, TypeOK
  <2>4. SingleCustody'
    BY <1>1, <1>2, <2>2 DEF Custody, SingleCustody
  <2> QED
    BY <1>1, <1>2, <1>3, <2>1, <2>2, <2>3, <2>4 DEF Custody, Accounted
<1> QED  BY <1>5, <1>6 DEF encryptFails

\* A peer with a new offer goes back to the pool, or is destroyed.
LEMMA RenewedCustody ==
  ASSUME Custody, NEW h \in Handles, renewed(h)
  PROVE  Custody'
<1>1. /\ UNCHANGED <<phase, answered, leased, job, owned>>
      /\ h \in recycling /\ recycling' = recycling \ {h}
      /\ h \notin InPool \union leased \union answered
  BY DEF renewed, Custody, SingleCustody
<1>2. Encrypting' = Encrypting
  BY <1>1 DEF Encrypting
<1>3. CASE h \in live /\ phase = "active" /\ pool' = Append(pool, h)
             /\ pooled' = pooled \union {h} /\ live' = live
  <2>1. /\ pool' \in Seq(Handles)
        /\ InPool' = InPool \union {h}
        /\ \A i, j \in DOMAIN pool' : pool'[i] = pool'[j] => i = j
    BY <1>1, <1>3, Pushed DEF Custody, TypeOK, SingleCustody, InPool
  <2>2. TypeOK'
    BY <1>1, <1>3, <2>1 DEF Custody, TypeOK
  <2>3. SingleCustody'
    BY <1>1, <1>2, <2>1 DEF Custody, SingleCustody
  <2> QED
    BY <1>1, <1>2, <1>3, <2>1, <2>2, <2>3 DEF Custody, Accounted
<1>4. CASE live' = live \ {h} /\ UNCHANGED <<pool, pooled>>
  <2>1. InPool' = InPool
    BY <1>4 DEF InPool
  <2>2. TypeOK'
    BY <1>1, <1>4 DEF Custody, TypeOK
  <2>3. SingleCustody'
    BY <1>1, <1>2, <1>4, <2>1 DEF Custody, SingleCustody
  <2> QED
    BY <1>1, <1>2, <1>4, <2>1, <2>2, <2>3 DEF Custody, Accounted
<1> QED  BY <1>1, <1>3, <1>4 DEF renewed, Custody

\* An answered lease becomes the room's peer.
LEMMA ClaimCustody ==
  ASSUME Custody, NEW h \in Handles, claimLeased(h)
  PROVE  Custody'
<1>1. /\ UNCHANGED <<phase, live, answered, pool, pooled, recycling, job>>
      /\ h \in leased /\ leased' = leased \ {h} /\ owned' = owned \union {h}
  BY DEF claimLeased
<1>2. InPool' = InPool /\ Encrypting' = Encrypting
  BY <1>1 DEF InPool, Encrypting
<1>3. TypeOK'
  BY <1>1 DEF Custody, TypeOK
<1>4. SingleCustody'
  BY <1>1, <1>2 DEF Custody, SingleCustody
<1> QED
  BY <1>1, <1>2, <1>3, <1>4 DEF Custody, Accounted

\* A lease ends and the peer is recycled.
LEMMA ReclaimCustody ==
  ASSUME Custody, NEW h \in Handles, reclaimLeased(h)
  PROVE  Custody'
<1>1. /\ UNCHANGED <<phase, pool, pooled, job, owned>>
      /\ h \in leased /\ leased' = leased \ {h} /\ recycle(h)
      /\ h \notin InPool \union recycling \union Encrypting \union owned
      /\ h \notin answered
  BY DEF reclaimLeased, Custody, SingleCustody
<1>2. InPool' = InPool /\ Encrypting' = Encrypting
  BY <1>1 DEF InPool, Encrypting
<1>3. /\ live' \subseteq Handles /\ answered' \subseteq live'
      /\ live' \in {live, live \ {h}}
      /\ recycling' \in {recycling, recycling \union {h}}
      /\ (h \in live') => (h \in recycling')
  BY <1>1, Recycled
<1>4. answered' \subseteq answered
  BY <1>1 DEF recycle
<1>5. TypeOK'
  BY <1>1, <1>3 DEF Custody, TypeOK
<1>6. SingleCustody'
  BY <1>1, <1>2, <1>3 DEF Custody, SingleCustody
<1> QED
  BY <1>1, <1>2, <1>3, <1>4, <1>5, <1>6 DEF Custody, Accounted

\* A room gives up its offer and the peer is recycled.
LEMMA GiveBackCustody ==
  ASSUME Custody, NEW h \in Handles, giveBack(h)
  PROVE  Custody'
<1>1. /\ UNCHANGED <<phase, pool, pooled, job, leased>>
      /\ h \in owned /\ owned' = owned \ {h} /\ recycle(h)
      /\ h \notin InPool \union recycling \union Encrypting \union leased
  BY DEF giveBack, Custody, SingleCustody
<1>2. InPool' = InPool /\ Encrypting' = Encrypting
  BY <1>1 DEF InPool, Encrypting
<1>3. /\ live' \subseteq Handles /\ answered' \subseteq live'
      /\ live' \in {live, live \ {h}}
      /\ recycling' \in {recycling, recycling \union {h}}
      /\ (h \in live') => (h \in recycling')
  BY <1>1, Recycled
<1>4. answered' \subseteq answered \ {h}
  BY <1>1 DEF recycle, Custody, TypeOK
<1>5. TypeOK'
  BY <1>1, <1>3 DEF Custody, TypeOK
<1>6. SingleCustody'
  BY <1>1, <1>2, <1>3 DEF Custody, SingleCustody
<1> QED
  BY <1>1, <1>2, <1>3, <1>4, <1>5, <1>6 DEF Custody, Accounted

\* What owners and browsers do to a peer leaves the pool's own sets alone.
LEMMA OutsideCustody ==
  ASSUME Custody, NEW h \in Handles, answer(h) \/ finish(h) \/ die(h)
  PROVE  Custody'
<1>1. /\ UNCHANGED <<phase, pool, pooled, job, leased, recycling>>
      /\ \/ /\ h \in owned \intersect live
            /\ answered' = answered \union {h} /\ UNCHANGED <<live, owned>>
         \/ /\ owned' \in {owned, owned \ {h}}
            /\ live' = live \ {h} /\ answered' = answered \ {h}
  BY DEF answer, finish, die
<1>2. InPool' = InPool /\ Encrypting' = Encrypting
  BY <1>1 DEF InPool, Encrypting
<1>3. TypeOK'
  BY <1>1 DEF Custody, TypeOK
<1>4. SingleCustody'
  BY <1>1, <1>2 DEF Custody, SingleCustody
<1> QED
  BY <1>1, <1>2, <1>3, <1>4 DEF Custody, Accounted

\* The end of the pool.
LEMMA DestroyCustody == Custody /\ destroy => Custody'
<1> SUFFICES ASSUME Custody, destroy PROVE Custody'  OBVIOUS
<1>1. pool' = <<>> /\ InPool' = {}
  BY Emptied DEF destroy, InPool
<1>2. Encrypting' = Encrypting
  BY DEF destroy, Encrypting
<1>3. TypeOK'
  BY <1>1 DEF Custody, TypeOK, destroy
<1>4. SingleCustody'
  BY <1>1, <1>2 DEF Custody, SingleCustody, destroy
<1>5. answered' \subseteq owned'
  BY DEF Custody, destroy
<1> QED
  BY <1>1, <1>2, <1>3, <1>4, <1>5 DEF Custody, Accounted, destroy

\* A step that changes nothing.
LEMMA StutterCustody == Custody /\ UNCHANGED vars => Custody'
  BY DEF vars, Custody, TypeOK, SingleCustody, Accounted, InPool, Encrypting

\* Whatever the step is, it keeps the custody invariant.
LEMMA StepCustody ==
  ASSUME Custody, [Next]_vars
  PROVE  Custody'
<1>1. CASE warmup \/ cleanup \/ destroy
  BY <1>1, WarmupCustody, CleanupCustody, DestroyCustody
<1>2. CASE \E kind \in {"lease", "plain"} : checkout(kind)
  BY <1>2, CheckoutCustody
<1>3. ASSUME NEW h \in Handles,
             \/ encrypted(h) \/ encryptFails(h) \/ renewed(h)
             \/ claimLeased(h) \/ reclaimLeased(h)
             \/ giveBack(h) \/ answer(h) \/ finish(h) \/ die(h)
      PROVE  Custody'
  BY <1>3, EncryptedCustody, EncryptFailsCustody, RenewedCustody,
     ClaimCustody, ReclaimCustody, GiveBackCustody, OutsideCustody
<1>4. CASE UNCHANGED vars
  BY <1>4, StutterCustody
<1> QED  BY <1>1, <1>2, <1>3, <1>4 DEF Next

\* Whatever happens, in whatever order, the custody invariant is kept.
THEOREM CustodyKept == Spec => []Custody
<1>1. Init => Custody
  BY InitCustody
<1>2. Custody /\ [Next]_vars => Custody'
  BY StepCustody
<1> QED  BY <1>1, <1>2, PTL DEF Spec

\* The state keeps its type, with any number of peers and any size of the
\* pool: in particular a checkout is never tried a third time, and only peers
\* that are alive count as answered.
THEOREM TypeCorrect == Spec => []TypeOK
<1>1. Custody => TypeOK
  BY DEF Custody
<1> QED  BY <1>1, CustodyKept, PTL

\* A peer is offered to one party at a time, with any number of peers and any
\* size of the pool.
THEOREM SingleCustodyHolds == Spec => []SingleCustody
<1>1. Custody => SingleCustody
  BY DEF Custody
<1> QED  BY <1>1, CustodyKept, PTL

\* No peer leaks, with any number of peers and any size of the pool.
THEOREM AccountedHolds == Spec => []Accounted
<1>1. Custody => Accounted
  BY DEF Custody
<1> QED  BY <1>1, CustodyKept, PTL

-----------------------------------------------------------------------------
(***************************************************************************)
(* The pool of offers implements OfferCustody, with any number of peers:   *)
(* every step, from a state in which the invariant Custody holds, moves    *)
(* peers the way one of the abstract steps does, or moves none.  The       *)
(* invariant is needed where the pool asks one of its sets what is true of *)
(* another: that the peer it pushes is not a room's, that the peer it      *)
(* destroys was not answered.                                              *)
(***************************************************************************)

\* One peer moves.
LEMMA OneMoves ==
  ASSUME NEW h \in Handles, NEW to, Place(h)' = to,
         \A g \in Handles \ {h} : Place(g)' = Place(g)
  PROVE  Offers!Becomes(h, to)
  BY DEF Offers!Becomes

\* No peer moves.
LEMMA NoneMoves ==
  ASSUME \A g \in Handles : Place(g)' = Place(g), UNCHANGED phase
  PROVE  UNCHANGED Offers!custody
  BY DEF Offers!custody

\* The abstract steps of one peer.
LEMMA OneStep ==
  ASSUME NEW h \in Handles, UNCHANGED phase,
         \A g \in Handles \ {h} : Place(g)' = Place(g),
         \/ Place(h)' \in {Place(h), "none"}
         \/ Place(h) \in {"none", "ready"} /\ Place(h)' = "out"
         \/ Place(h) = "out" /\ Place(h)' = "room"
         \/ Place(h) = "room" /\ Place(h)' = "spent"
         \/ /\ Place(h) \in {"out", "room"} /\ Place(h)' = "ready"
            /\ phase # "gone"
  PROVE  [Offers!Next]_(Offers!custody)
<1>1. CASE Place(h)' = Place(h)
  BY <1>1, NoneMoves
<1>2. CASE Place(h)' # Place(h)
  <2>1. Offers!Becomes(h, Place(h)')
    BY OneMoves
  <2>2. \/ Offers!HandOut(h) \/ Offers!Take(h) \/ Offers!Return(h)
        \/ Offers!UseUp(h) \/ Offers!Close(h)
    BY <1>2, <2>1
       DEF Offers!HandOut, Offers!Take, Offers!Return, Offers!UseUp,
           Offers!Close
  <2> QED  BY <2>2 DEF Offers!Next
<1> QED  BY <1>1, <1>2

-----------------------------------------------------------------------------
\* The initial states are those of the abstract specification.
LEMMA InitPlaces == Init => Offers!Init
<1> SUFFICES ASSUME Init PROVE Offers!Init  OBVIOUS
<1>1. \A h \in Handles : Place(h) = "none"
  BY DEF Init, Place
<1> QED  BY <1>1 DEF Init, Offers!Init

\* warmup fills the pool.
LEMMA WarmupFills ==
  ASSUME Custody, Custody', warmup
  PROVE  Offers!Fill /\ UNCHANGED (phase = "gone")
<1>1. /\ phase = "cold" /\ phase' = "active"
      /\ pooled' \subseteq Free
      /\ pooled = {}
      /\ UNCHANGED <<answered, leased, recycling, job, owned>>
  BY Emptied DEF warmup, Custody, InPool
<1>2. ASSUME NEW h \in Handles
      PROVE  \/ Place(h)' = Place(h)
             \/ Place(h) = "none" /\ Place(h)' = "ready"
  <2>1. CASE h \in pooled'
    BY <1>1, <2>1 DEF Place, Free, Encrypting
  <2>2. CASE h \notin pooled'
    <3>1. h \in owned => (h \in live' <=> h \in live)
      BY <2>2, <1>1 DEF warmup, Free
    <3> QED  BY <1>1, <2>2, <3>1 DEF Place
  <2> QED  BY <2>1, <2>2
<1>3. \A h \in Handles : Place(h)' \in Offers!Places
  BY DEF Place, Offers!Places
<1> QED  BY <1>1, <1>2, <1>3 DEF Offers!Fill, Offers!Some

\* cleanup drops peers that were closed.
LEMMA CleanupCleans ==
  ASSUME Custody, Custody', cleanup
  PROVE  Offers!Clean /\ UNCHANGED phase
<1>1. /\ pooled' = pooled \ (InPool \ live) /\ pooled = InPool
      /\ UNCHANGED <<phase, live, answered, leased, recycling, job, owned>>
  BY DEF cleanup, Custody
<1>2. ASSUME NEW h \in Handles
      PROVE  \/ Place(h)' = Place(h)
             \/ Place(h) = "ready" /\ Place(h)' = "none"
  <2>1. CASE h \in pooled \ pooled'
    <3>1. h \notin recycling \union leased \union Encrypting \union owned
      BY <1>1, <2>1 DEF Custody, SingleCustody
    <3> QED  BY <1>1, <2>1, <3>1 DEF Place, Encrypting
  <2>2. CASE h \notin pooled \ pooled'
    BY <1>1, <2>2 DEF Place
  <2> QED  BY <2>1, <2>2
<1>3. \A h \in Handles : Place(h)' \in Offers!Places
  BY DEF Place, Offers!Places
<1> QED  BY <1>1, <1>2, <1>3 DEF Offers!Clean, Offers!Some

\* checkout hands out the head of the pool, or a new peer.
LEMMA CheckoutHandsOut ==
  ASSUME Custody, NEW kind \in {"lease", "plain"}, checkout(kind)
  PROVE  [Offers!Next]_(Offers!custody)
<1> DEFINE given == [kind |-> kind, attempt |-> 0]
<1>1. given # NoJob /\ job \in [Handles -> Jobs]
      /\ UNCHANGED <<phase, answered, leased, recycling, owned>>
  BY DEF NoJob, checkout, Custody, TypeOK
<1>2. CASE pool # <<>>
  <2>1. PICK h \in Handles : /\ h \in pooled
                             /\ job' = [job EXCEPT ![h] = given]
                             /\ pooled' = pooled \ {h} /\ live' = live
    BY <1>2, Shifted DEF Custody, TypeOK, SingleCustody, InPool, checkout
  <2> HIDE DEF given
  <2>2. h \notin recycling
    BY <2>1 DEF Custody, SingleCustody
  <2>3. Place(h) = "ready" /\ Place(h)' = "out"
    BY <1>1, <2>1, <2>2 DEF Place
  <2>4. \A g \in Handles \ {h} : Place(g)' = Place(g)
    BY <1>1, <2>1 DEF Place
  <2> QED  BY <1>1, <2>1, <2>3, <2>4, OneStep
<1>3. CASE pool = <<>>
  <2>1. PICK h \in Free : job' = [job EXCEPT ![h] = given]
                          /\ live' = live \union {h} /\ pooled' = pooled
    BY <1>3 DEF checkout
  <2> HIDE DEF given
  <2>2. /\ h \in Handles /\ job[h] = NoJob
        /\ h \notin pooled \union recycling \union leased \union owned
    BY DEF Free, Encrypting
  <2>3. Place(h) = "none" /\ Place(h)' = "out"
    BY <1>1, <2>1, <2>2 DEF Place
  <2>4. \A g \in Handles \ {h} : Place(g)' = Place(g)
    BY <1>1, <2>1, <2>2 DEF Place
  <2> QED  BY <1>1, <2>2, <2>3, <2>4, OneStep
<1> QED  BY <1>2, <1>3

\* encrypted gives the peer to the room, unless it is leased.
LEMMA EncryptedTakes ==
  ASSUME Custody, NEW h \in Handles, encrypted(h)
  PROVE  [Offers!Next]_(Offers!custody)
<1>1. /\ UNCHANGED <<phase, live, answered, pool, pooled, recycling>>
      /\ job[h] # NoJob /\ job \in [Handles -> Jobs]
      /\ job' = [job EXCEPT ![h] = NoJob]
      /\ \/ leased' = leased \union {h} /\ owned' = owned
         \/ owned' = owned \union {h} /\ leased' = leased
  BY DEF encrypted, Custody, TypeOK
<1>2. h \notin pooled \union leased \union recycling \union owned \union answered
  BY <1>1 DEF Custody, SingleCustody, Encrypting
<1>3. \A g \in Handles \ {h} : Place(g)' = Place(g)
  BY <1>1 DEF Place
<1>4. Place(h) = "out" /\ Place(h)' \in {"out", "room", "none"}
  BY <1>1, <1>2 DEF Place
<1> QED  BY <1>1, <1>3, <1>4, OneStep

\* encryptFails replaces the peer, or closes it.
LEMMA EncryptFailsReplaces ==
  ASSUME Custody, NEW h \in Handles, encryptFails(h)
  PROVE  [Offers!Next]_(Offers!custody)
<1>1. /\ UNCHANGED <<phase, pool, answered, recycling, owned>>
      /\ job[h] # NoJob /\ job \in [Handles -> Jobs]
      /\ leased' = leased \ {h} /\ pooled' = pooled \ {h}
  BY DEF encryptFails, Custody, TypeOK
<1>2. h \notin pooled \union leased \union recycling \union owned \union answered
  BY <1>1 DEF Custody, SingleCustody, Encrypting
<1>3. Place(h) = "out"
  BY <1>1, <1>2 DEF Place
<1>4. CASE job[h].attempt = 0
  <2> DEFINE again == [kind |-> job[h].kind, attempt |-> 1]
  <2>1. again # NoJob
    BY DEF NoJob
  <2>2. PICK g \in Free : /\ job' = [job EXCEPT ![h] = NoJob, ![g] = again]
                          /\ live' = (live \ {h}) \union {g}
    BY <1>4 DEF encryptFails
  <2> HIDE DEF again
  <2>3. /\ g \in Handles /\ g # h /\ job[g] = NoJob
        /\ g \notin pooled \union leased \union recycling \union owned
    BY <1>1 DEF Free, Encrypting
  <2>4. Place(g) = "none" /\ Place(g)' = "out" /\ Place(h)' = "none"
    BY <1>1, <1>2, <2>1, <2>2, <2>3 DEF Place
  <2>5. \A f \in Handles \ {h, g} : Place(f)' = Place(f)
    BY <1>1, <2>2, <2>3 DEF Place
  <2>6. Offers!Replace(h, g)
    BY <1>3, <2>3, <2>4, <2>5 DEF Offers!Replace
  <2> QED  BY <1>1, <2>3, <2>6 DEF Offers!Next
<1>5. CASE job[h].attempt = 1
  <2>1. job' = [job EXCEPT ![h] = NoJob] /\ live' = live \ {h}
    BY <1>5 DEF encryptFails
  <2>2. Place(h)' = "none"
    BY <1>1, <1>2, <2>1 DEF Place
  <2>3. \A g \in Handles \ {h} : Place(g)' = Place(g)
    BY <1>1, <2>1 DEF Place
  <2> QED  BY <1>1, <2>2, <2>3, OneStep
<1> QED  BY <1>4, <1>5 DEF encryptFails

\* renewed keeps the peer in the pool, or closes it.
LEMMA RenewedKeeps ==
  ASSUME Custody, NEW h \in Handles, renewed(h)
  PROVE  [Offers!Next]_(Offers!custody)
<1>1. /\ UNCHANGED <<phase, answered, leased, job, owned>>
      /\ h \in recycling /\ recycling' = recycling \ {h}
      /\ pooled' \in {pooled, pooled \union {h}}
      /\ live' \in {live, live \ {h}}
  BY DEF renewed
<1>2. h \notin pooled \union leased \union owned /\ job[h] = NoJob
  BY <1>1 DEF Custody, SingleCustody, Encrypting
<1>3. Place(h) = "ready" /\ Place(h)' \in {"ready", "none"}
  BY <1>1, <1>2 DEF Place
<1>4. \A g \in Handles \ {h} : Place(g)' = Place(g)
  BY <1>1 DEF Place
<1> QED  BY <1>1, <1>3, <1>4, OneStep

\* claimLeased gives the peer to the room.
LEMMA ClaimTakes ==
  ASSUME Custody, NEW h \in Handles, claimLeased(h)
  PROVE  [Offers!Next]_(Offers!custody)
<1>1. /\ UNCHANGED <<phase, live, answered, pooled, recycling, job>>
      /\ h \in leased /\ leased' = leased \ {h}
      /\ owned' = owned \union {h}
  BY DEF claimLeased
<1>2. h \notin pooled \union recycling \union answered /\ job[h] = NoJob
  BY <1>1 DEF Custody, SingleCustody, Encrypting
<1>3. Place(h) = "out" /\ Place(h)' \in {"room", "none"}
  BY <1>1, <1>2 DEF Place
<1>4. \A g \in Handles \ {h} : Place(g)' = Place(g)
  BY <1>1 DEF Place
<1> QED  BY <1>1, <1>3, <1>4, OneStep

\* What recycle does to the peers it is not called for.
LEMMA RecycledOthers ==
  ASSUME NEW h \in Handles, recycle(h)
  PROVE  /\ live' \in {live, live \ {h}}
         /\ answered' \in {answered, answered \ {h}}
         /\ recycling' \in {recycling, recycling \union {h}}
         /\ h \in recycling' \ recycling
              => phase = "active" /\ h \in live \ answered
         /\ h \in live' /\ h \notin recycling
              => h \in recycling'
  BY DEF recycle

\* reclaimLeased takes the peer back, or closes it.
LEMMA ReclaimReturns ==
  ASSUME Custody, NEW h \in Handles, reclaimLeased(h)
  PROVE  [Offers!Next]_(Offers!custody)
<1>1. /\ UNCHANGED <<phase, pooled, owned, job>>
      /\ h \in leased /\ leased' = leased \ {h} /\ recycle(h)
  BY DEF reclaimLeased
<1>2. h \notin pooled \union recycling \union owned /\ job[h] = NoJob
  BY <1>1 DEF Custody, SingleCustody, Encrypting
<1>3. Place(h) = "out"
  BY <1>1, <1>2 DEF Place
<1>4. \A g \in Handles \ {h} : Place(g)' = Place(g)
  BY <1>1, RecycledOthers DEF Place
<1>5. \/ Place(h)' = "ready" /\ phase = "active"
      \/ Place(h)' = "none"
  BY <1>1, <1>2, RecycledOthers DEF Place
<1> QED  BY <1>1, <1>3, <1>4, <1>5, OneStep

\* giveBack takes the peer back, or closes it, if it is not closed already.
LEMMA GiveBackReturns ==
  ASSUME Custody, NEW h \in Handles, giveBack(h)
  PROVE  [Offers!Next]_(Offers!custody)
<1>1. /\ UNCHANGED <<phase, pooled, leased, job>>
      /\ h \in owned /\ owned' = owned \ {h} /\ recycle(h)
  BY DEF giveBack
<1>2. h \notin pooled \union recycling \union leased /\ job[h] = NoJob
  BY <1>1 DEF Custody, SingleCustody, Encrypting
<1>3. \A g \in Handles \ {h} : Place(g)' = Place(g)
  BY <1>1, RecycledOthers DEF Place
<1>4. \/ Place(h) = "room" /\ Place(h)' = "ready" /\ phase = "active"
      \/ Place(h)' = "none"
  BY <1>1, <1>2, RecycledOthers DEF Place
<1> QED  BY <1>1, <1>3, <1>4, OneStep

\* A peer is answered, or closed by its owner or by the browser.
LEMMA OutsideCloses ==
  ASSUME Custody, NEW h \in Handles, answer(h) \/ finish(h) \/ die(h)
  PROVE  [Offers!Next]_(Offers!custody)
<1>1. UNCHANGED <<phase, pooled, leased, recycling, job>>
  BY DEF answer, finish, die
<1>2. CASE answer(h)
  <2>1. /\ h \in owned \intersect live /\ answered' = answered \union {h}
        /\ UNCHANGED <<live, owned>>
    BY <1>2 DEF answer
  <2>2. h \notin pooled \union recycling \union leased /\ job[h] = NoJob
    BY <2>1 DEF Custody, SingleCustody, Encrypting
  <2>3. Place(h) \in {"room", "spent"} /\ Place(h)' = "spent"
    BY <1>1, <2>1, <2>2 DEF Place
  <2>4. \A g \in Handles \ {h} : Place(g)' = Place(g)
    BY <1>1, <2>1 DEF Place
  <2> QED  BY <1>1, <2>3, <2>4, OneStep
<1>3. CASE finish(h) \/ die(h)
  <2>1. /\ owned' \in {owned, owned \ {h}}
        /\ live' = live \ {h} /\ answered' = answered \ {h}
    BY <1>3 DEF finish, die
  <2>2. \A g \in Handles \ {h} : Place(g)' = Place(g)
    BY <1>1, <2>1 DEF Place
  <2>3. Place(h)' = Place(h) \/ Place(h)' = "none"
    BY <1>1, <2>1 DEF Place
  <2> QED  BY <1>1, <2>2, <2>3, OneStep
<1> QED  BY <1>2, <1>3

\* destroy ends the pool: only what is being handed out stays out.
LEMMA DestroyEnds ==
  ASSUME Custody, destroy
  PROVE  Offers!End
<1>1. /\ phase' = "gone" /\ pooled' = {} /\ leased' = {} /\ recycling' = {}
      /\ live' = live \ (InPool \union leased \union recycling)
      /\ answered' = answered \ (InPool \union leased \union recycling)
      /\ UNCHANGED <<job, owned>> /\ pooled = InPool
  BY DEF destroy, Custody
<1>2. ASSUME NEW h \in Handles
      PROVE  /\ \/ Place(h)' = Place(h)
                \/ Place(h) \in {"ready", "out"} /\ Place(h)' = "none"
             /\ Place(h)' # "ready"
  <2>1. CASE h \in pooled \union recycling \union leased
    <3>1. h \notin owned /\ job[h] = NoJob
      BY <1>1, <2>1 DEF Custody, SingleCustody, Encrypting
    <3> QED  BY <1>1, <2>1, <3>1 DEF Place
  <2>2. CASE h \notin pooled \union recycling \union leased
    BY <1>1, <2>2 DEF Place
  <2> QED  BY <2>1, <2>2
<1>3. \A h \in Handles : Place(h)' \in Offers!Places
  BY DEF Place, Offers!Places
<1> QED  BY <1>1, <1>2, <1>3 DEF Offers!End, Offers!Some

-----------------------------------------------------------------------------
\* Every step of the pool is one of the abstract specification, or none.
LEMMA StepPlaces ==
  ASSUME Custody, Custody', [Next]_vars
  PROVE  [Offers!Next]_(Offers!custody)
<1>1. CASE warmup \/ cleanup \/ destroy
  BY <1>1, WarmupFills, CleanupCleans, DestroyEnds DEF Offers!Next
<1>2. CASE \E kind \in {"lease", "plain"} : checkout(kind)
  BY <1>2, CheckoutHandsOut
<1>3. ASSUME NEW h \in Handles,
             \/ encrypted(h) \/ encryptFails(h) \/ renewed(h)
             \/ claimLeased(h) \/ reclaimLeased(h)
             \/ giveBack(h) \/ answer(h) \/ finish(h) \/ die(h)
      PROVE  [Offers!Next]_(Offers!custody)
  BY <1>3, EncryptedTakes, EncryptFailsReplaces, RenewedKeeps, ClaimTakes,
     ReclaimReturns, GiveBackReturns, OutsideCloses
<1>4. CASE UNCHANGED vars
  <2>1. \A h \in Handles : Place(h)' = Place(h)
    BY <1>4 DEF vars, Place
  <2> QED  BY <1>4, <2>1, NoneMoves DEF vars
<1> QED  BY <1>1, <1>2, <1>3, <1>4 DEF Next

\* The pool keeps what OfferCustody promises its callers, with any number of
\* peers and any size: nothing that is out is offered to somebody else before
\* it comes back, nothing that was answered is ever offered again, and a pool
\* that has ended keeps and takes back nothing.
THEOREM CustodyImplemented == Spec => KeepsCustody
<1>1. Init => Offers!Init
  BY InitPlaces
<1>2. Custody /\ Custody' /\ [Next]_vars => [Offers!Next]_(Offers!custody)
  BY StepPlaces
<1> QED  BY <1>1, <1>2, CustodyKept, PTL DEF Spec, KeepsCustody, Offers!Spec

-----------------------------------------------------------------------------
(***************************************************************************)
(* Proofs about the offers a room has at torrent trackers, with any number *)
(* of peers, trackers and wanted offers: the pool they are leased from     *)
(* keeps its promises, and the trackers are told of no more offers than    *)
(* there are to be.                                                        *)
(***************************************************************************)

(* An offer that is being made: leased, or to be once it is encrypted. *)
Promised(h) == h \in leased \/ job[h].kind = "lease"

(* Those listed, those on their way and those to be asked for are no more   *)
(* than wanted; only the promise of a generation has offers coming. *)
Counted ==
  /\ IsFiniteSet(listed) /\ IsFiniteSet(coming)
  /\ asked \in Nat
  /\ Cardinality(listed) + Cardinality(coming) + asked <= Wanted
  /\ ~generating => coming = {} /\ asked = 0

(* An offer is listed or on its way, and it is leased unless it is overdue. *)
Held ==
  /\ listed \subseteq Handles /\ coming \subseteq Handles /\ old \subseteq listed
  /\ generating \in BOOLEAN
  /\ asked > 0 => old = {}
  /\ phase # "gone" =>
       /\ listed \ old \subseteq leased
       /\ listed \intersect coming = {}
       /\ \A h \in coming : Promised(h)
  /\ strategy # "torrent" => listed = {} /\ coming = {} /\ asked = 0

TorrentInv == Custody /\ Counted /\ Held

-----------------------------------------------------------------------------
(* Some leases end at once, which OfferPool has one by one. *)
LEMMA ReclaimCustodies ==
  ASSUME Custody, NEW entries, reclaim(entries)
  PROVE  Custody'
<1> DEFINE back == entries \intersect leased
<1>1. /\ UNCHANGED <<phase, answered, pool, pooled, job, owned>>
      /\ leased' = leased \ back
      /\ \/ phase = "active" /\ recycling' = recycling \union (back \intersect live) /\ live' = live
         \/ phase # "active" /\ recycling' = recycling /\ live' = live \ back
  BY DEF reclaim
<1>2. back \subseteq leased
  OBVIOUS
<1> HIDE DEF back
<1>3. back \intersect (InPool \union recycling \union Encrypting \union owned \union answered) = {}
  BY <1>2 DEF Custody, SingleCustody
<1>4. InPool' = InPool /\ Encrypting' = Encrypting
  BY <1>1 DEF InPool, Encrypting
<1>5. TypeOK'
  BY <1>1, <1>2, <1>3 DEF Custody, TypeOK
<1>6. SingleCustody'
  BY <1>1, <1>2, <1>3, <1>4 DEF Custody, SingleCustody
<1>7. Accounted'
  BY <1>1, <1>2, <1>4 DEF Custody, Accounted
<1> QED
  BY <1>1, <1>4, <1>5, <1>6, <1>7 DEF Custody

(* To whoever sees the pool from outside they are taken back, or closed. *)
LEMMA ReclaimTakesBack ==
  ASSUME Custody, NEW entries, reclaim(entries)
  PROVE  [Offers!Next]_(Offers!custody)
<1> DEFINE back == entries \intersect leased
<1>1. /\ UNCHANGED <<phase, answered, pooled, job, owned>>
      /\ leased' = leased \ back
      /\ \/ phase = "active" /\ recycling' = recycling \union (back \intersect live) /\ live' = live
         \/ phase # "active" /\ recycling' = recycling /\ live' = live \ back
  BY DEF reclaim
<1>2. back \subseteq leased
  OBVIOUS
<1> HIDE DEF back
<1>3. \A h \in back : h \notin pooled \union recycling \union owned /\ job[h] = NoJob /\ h \in Handles
  BY <1>2 DEF Custody, TypeOK, SingleCustody, Encrypting
<1>4. ASSUME NEW h \in Handles
      PROVE  /\ Place(h)' = Place(h) \/ (Place(h) = "out" /\ Place(h)' \in {"ready", "none"})
             /\ phase = "gone" => Place(h)' = Place(h) \/ (Place(h) = "out" /\ Place(h)' = "none")
             /\ Place(h)' \in Offers!Places
  <2>1. CASE h \in back
    <3>1. Place(h) = "out"
      BY <1>2, <1>3, <2>1 DEF Place
    <3>2. Place(h)' = IF h \in recycling' THEN "ready" ELSE "none"
      BY <1>1, <1>3, <2>1 DEF Place
    <3>3. phase = "gone" => h \notin recycling'
      BY <1>1, <1>3, <2>1
    <3> QED
      BY <3>1, <3>2, <3>3 DEF Offers!Places
  <2>2. CASE h \notin back
    <3>1. Place(h)' = Place(h)
      BY <1>1, <2>2 DEF Place, Custody, SingleCustody, TypeOK
    <3> QED
      BY <3>1 DEF Place, Offers!Places
  <2> QED
    BY <2>1, <2>2
<1> DEFINE before == [h \in Handles |-> Place(h)]
           after == [h \in Handles |-> Place(h)']
<1>5. /\ \A h \in Handles :
           after[h] = before[h] \/ (before[h] = "out" /\ after[h] \in {"ready", "none"})
      /\ phase = "gone" =>
           \A h \in Handles :
             after[h] = before[h] \/ (before[h] \in {"out"} /\ after[h] = "none")
      /\ after \in [Handles -> Offers!Places]
  <2>1. \A h \in Handles : before[h] = Place(h) /\ after[h] = Place(h)'
    OBVIOUS
  <2>2. after \in [Handles -> Offers!Places]
    BY <1>4
  <2> HIDE DEF before, after
  <2> QED
    BY <1>4, <2>1, <2>2
<1>6. Offers!TakeBack
  BY <1>5 DEF Offers!TakeBack, Offers!Some
<1> QED
  BY <1>1, <1>6 DEF Offers!Next

(* What a step of the room is to the pool: one of its own, or some leases   *)
(* that end. *)
LEMMA StepOfPool ==
  ASSUME [TorrentNext]_allVars
  PROVE  [Next]_vars \/ \E entries : reclaim(entries)
<1>1. CASE UNCHANGED allVars
  BY <1>1 DEF allVars
<1>2. ASSUME fn
      PROVE  UNCHANGED vars \/ \E entries : reclaim(entries)
  BY <1>2 DEF fn, ensureOutstandingOffers
<1>3. CASE subscribe \/ announce \/ activate
  BY <1>2, <1>3 DEF subscribe, announce, activate
<1>4. CASE deactivate \/ cleanupSubscription
  BY <1>4 DEF deactivate, cleanupSubscription, reclaimAllOutstandingOffers
<1>5. CASE resume
  BY <1>5 DEF resume, ensureOutstandingOffers
<1>6. CASE generated
  BY <1>6 DEF generated
<1>7. CASE getOffer
  BY <1>7 DEF getOffer, Next
<1>8. CASE \/ strategy = "any" /\ Next /\ UNCHANGED <<roomVars, recordVars>>
           \/ Torrent /\ Beside /\ UNCHANGED <<roomVars, recordVars>>
  BY <1>8 DEF Beside, Next
<1>9. CASE \E h \in Handles : offerMade(h) \/ offerFails(h) \/ claim(h) \/ age(h) \/ leaseTimer(h)
  BY <1>9 DEF offerMade, offerFails, claim, age, leaseTimer, Next
<1> QED
  BY <1>1, <1>3, <1>4, <1>5, <1>6, <1>7, <1>8, <1>9 DEF TorrentNext

LEMMA TorrentCustody ==
  ASSUME Custody, [TorrentNext]_allVars
  PROVE  Custody' /\ [Offers!Next]_(Offers!custody)
<1>1. CASE [Next]_vars
  <2>1. Custody'
    BY <1>1, StepCustody
  <2> QED
    BY <1>1, <2>1, StepPlaces
<1>2. CASE \E entries : reclaim(entries)
  BY <1>2, ReclaimCustodies, ReclaimTakesBack
<1> QED
  BY <1>1, <1>2, StepOfPool

-----------------------------------------------------------------------------
(* Steps that leave the record alone, and the leases of what it has. *)
LEMMA RecordKept ==
  ASSUME Counted, Held, UNCHANGED <<strategy, listed, old, generating, asked, coming>>,
         phase' # "gone" => phase # "gone",
         phase' # "gone" /\ strategy = "torrent" =>
           /\ listed \ old \subseteq leased'
           /\ \A h \in coming : Promised(h)'
  PROVE  Counted' /\ Held'
<1>1. Counted'
  BY DEF Counted
<1>2. Held'
  BY DEF Held
<1> QED
  BY <1>1, <1>2

(* What is listed has a size, and less of it has a smaller one. *)
LEMMA Fewer ==
  ASSUME NEW S, NEW T, IsFiniteSet(S), T \subseteq S
  PROVE  /\ IsFiniteSet(T) /\ Cardinality(T) \in Nat /\ Cardinality(S) \in Nat
         /\ Cardinality(T) <= Cardinality(S)
BY FS_Subset, FS_CardinalityType

(* The missing offers are asked for. *)
LEMMA EnsureKeeps ==
  ASSUME TorrentInv, strategy = "torrent", UNCHANGED strategy, ~generating,
         ensureOutstandingOffers
  PROVE  Counted' /\ Held'
<1> DEFINE rest0 == listed \ old
           missing == Wanted - Cardinality(rest0)
<1>1. /\ listed' = rest0 /\ old' = {} /\ asked' = asked + missing
      /\ generating' = (missing > 0) /\ coming' = coming /\ phase' = phase
      /\ leased' = leased \ (old \intersect leased)
  BY DEF ensureOutstandingOffers, reclaim
<1>2. coming = {} /\ asked = 0 /\ IsFiniteSet(listed)
      /\ Cardinality(listed) + Cardinality(coming) + asked <= Wanted
  BY DEF TorrentInv, Counted
<1>3. Cardinality(coming) = 0 /\ IsFiniteSet(coming)
  BY <1>2, FS_EmptySet
<1>4. rest0 \subseteq listed
  OBVIOUS
<1>5. Wanted \in Nat
  BY CountsAssumption
<1> HIDE DEF rest0
<1>6. /\ IsFiniteSet(rest0) /\ Cardinality(rest0) \in Nat /\ Cardinality(listed) \in Nat
      /\ Cardinality(rest0) <= Cardinality(listed)
  BY <1>2, <1>4, Fewer
<1>7. missing \in Nat
  BY <1>2, <1>3, <1>5, <1>6
<1>8. Counted'
  <2>1. /\ asked' = Wanted - Cardinality(rest0) /\ asked' \in Nat /\ Cardinality(coming') = 0
        /\ ~(asked' > 0) => asked' = 0
    BY <1>1, <1>2, <1>3, <1>5, <1>6, <1>7
  <2>2. Cardinality(rest0) + Cardinality(coming') + asked' <= Wanted
    BY <1>5, <1>6, <2>1
  <2>3. ~generating' => asked' = 0
    BY <1>1, <1>2, <1>7, <2>1
  <2> QED
    BY <1>1, <1>2, <1>3, <1>6, <2>1, <2>2, <2>3 DEF Counted
<1>9. Held'
  BY <1>1, <1>2 DEF TorrentInv, Held, rest0
<1> QED
  BY <1>8, <1>9

LEMMA FnKeeps ==
  ASSUME TorrentInv, Torrent, UNCHANGED strategy, fn
  PROVE  Counted' /\ Held'
<1>1. CASE generating
  <2>1. UNCHANGED <<vars, listed, old, generating, asked, coming>>
    BY <1>1 DEF fn
  <2>2. phase' = phase /\ leased' = leased /\ job' = job
    BY <2>1 DEF vars
  <2>3. phase # "gone" =>
           /\ listed \ old \subseteq leased'
           /\ \A h \in coming : Promised(h)'
    BY <2>2 DEF TorrentInv, Held, Promised
  <2> QED
    BY <2>1, <2>2, <2>3, RecordKept DEF TorrentInv
<1>2. CASE ~generating
  <2>1. ensureOutstandingOffers
    BY <1>2 DEF fn
  <2> QED
    BY <1>2, <2>1, EnsureKeeps DEF Torrent
<1> QED
  BY <1>1, <1>2

(* A room that falls asleep, or is left, takes everything back. *)
LEMMA ReclaimAllKeeps ==
  ASSUME TorrentInv, Torrent, UNCHANGED strategy, reclaimAllOutstandingOffers
  PROVE  Counted' /\ Held'
<1>1. /\ listed' = {} /\ old' = {} /\ generating' = FALSE /\ coming' = {}
      /\ asked' = 0 /\ strategy' = "torrent"
  BY DEF reclaimAllOutstandingOffers, Torrent
<1>2. IsFiniteSet({}) /\ Cardinality({}) = 0 /\ Wanted \in Nat
  BY FS_EmptySet, CountsAssumption
<1>3. Counted'
  BY <1>1, <1>2 DEF Counted
<1>4. Held'
  BY <1>1 DEF Held
<1> QED
  BY <1>3, <1>4

(* What a peer that is checked out is, to the record. *)
LEMMA GetOfferKeeps ==
  ASSUME TorrentInv, getOffer
  PROVE  Counted' /\ Held'
<1> DEFINE given == [kind |-> "lease", attempt |-> 0]
           new == {h \in Handles : job'[h] # job[h]}
<1>1. /\ strategy = "torrent" /\ asked > 0 /\ asked' = asked - 1
      /\ coming' = coming \union new
      /\ UNCHANGED <<strategy, listed, old, generating>>
      /\ UNCHANGED <<phase, answered, leased, recycling, owned>>
  BY DEF getOffer, checkout, roomVars
<1>2. /\ old = {} /\ asked \in Nat
      /\ IsFiniteSet(coming) /\ listed \subseteq Handles /\ coming \subseteq Handles
  BY <1>1 DEF TorrentInv, Held, Counted
<1>3. job \in [Handles -> Jobs] /\ pool \in Seq(Handles)
  BY DEF TorrentInv, Custody, TypeOK
<1>4. PICK g \in Handles :
        /\ job' = [job EXCEPT ![g] = given]
        /\ phase # "gone" => g \notin listed
        /\ g \notin leased
  <2>1. CASE pool # <<>>
    <3>1. Head(pool) \in InPool /\ Head(pool) \in Handles
      BY <1>3, <2>1, Shifted DEF TorrentInv, Custody, SingleCustody, InPool
    <3>2. Head(pool) \notin leased
      BY <3>1 DEF TorrentInv, Custody, SingleCustody
    <3>3. phase # "gone" => listed \subseteq leased
      BY <1>2 DEF TorrentInv, Held
    <3>4. job' = [job EXCEPT ![Head(pool)] = given]
      BY <2>1 DEF getOffer, checkout
    <3> QED
      BY <3>1, <3>2, <3>3, <3>4
  <2>2. CASE pool = <<>>
    <3>1. PICK g \in Free : job' = [job EXCEPT ![g] = given] /\ live' = live \union {g}
      BY <2>2 DEF getOffer, checkout
    <3>2. g \in Handles /\ g \notin live /\ g \notin leased
      BY <3>1 DEF Free
    <3>3. g \notin listed
      BY <3>1, <3>2 DEF getOffer, FreshPeers
    <3> QED
      BY <3>1, <3>2, <3>3
  <2> QED
    BY <2>1, <2>2
<1>5. new \subseteq {g}
  BY <1>3, <1>4
<1>6. \A h \in Handles : job'[h] = IF h = g THEN given ELSE job[h]
  BY <1>3, <1>4
<1> HIDE DEF new
<1>7. /\ coming' \subseteq coming \union {g} /\ coming' \subseteq Handles
  BY <1>1, <1>2, <1>5
<1>8. /\ IsFiniteSet(coming') /\ Cardinality(coming') \in Nat /\ Cardinality(coming) \in Nat
      /\ Cardinality(coming') <= Cardinality(coming) + 1
  <2> DEFINE more == coming \union {g}
             after == coming'
  <2>1. IsFiniteSet(more) /\ Cardinality(more) <= Cardinality(coming) + 1
        /\ Cardinality(coming) \in Nat
    <3>1. Cardinality(coming) \in Nat
      BY <1>2, FS_CardinalityType
    <3>2. /\ IsFiniteSet(coming \cup {g})
          /\ Cardinality(coming \cup {g}) =
               IF g \in coming THEN Cardinality(coming) ELSE Cardinality(coming) + 1
      BY <1>2, FS_AddElement
    <3> QED
      BY <3>1, <3>2
  <2>2. after \subseteq more
    BY <1>7
  <2> HIDE DEF more, after
  <2>3. IsFiniteSet(after) /\ Cardinality(after) \in Nat /\ Cardinality(more) \in Nat
        /\ Cardinality(after) <= Cardinality(more)
    BY <2>1, <2>2, Fewer
  <2>4. Cardinality(after) <= Cardinality(coming) + 1
    BY <2>1, <2>3
  <2> QED
    BY <2>1, <2>3, <2>4 DEF after
<1>9. Counted'
  <2>1. /\ IsFiniteSet(listed) /\ asked \in Nat /\ Cardinality(listed) \in Nat /\ Wanted \in Nat
        /\ Cardinality(listed) + Cardinality(coming) + asked <= Wanted
        /\ ~generating => asked = 0
    BY FS_CardinalityType, CountsAssumption DEF TorrentInv, Counted
  <2> QED
    BY <1>1, <1>8, <2>1 DEF Counted
<1>10. Held'
  <2>1. phase # "gone" =>
          /\ listed \ old \subseteq leased
          /\ listed \intersect coming' = {}
          /\ \A h \in coming' : h \in leased \/ job'[h].kind = "lease"
    <3>1. given.kind = "lease"
      OBVIOUS
    <3>2. phase # "gone" => /\ listed \ old \subseteq leased
                            /\ listed \intersect coming = {}
                            /\ \A h \in coming : h \in leased \/ job[h].kind = "lease"
      BY DEF TorrentInv, Held, Promised
    <3> HIDE DEF given
    <3> QED
      BY <1>2, <1>4, <1>6, <1>7, <3>1, <3>2
  <2> QED
    BY <1>1, <1>2, <1>7, <2>1 DEF TorrentInv, Held, Promised
<1> QED
  BY <1>9, <1>10

(* Offers that were made are listed. *)
LEMMA GeneratedKeeps ==
  ASSUME TorrentInv, generated
  PROVE  Counted' /\ Held'
<1>1. /\ strategy = "torrent" /\ asked = 0 /\ \A h \in coming : job[h] = NoJob
      /\ listed' = listed \union coming /\ generating' = FALSE /\ coming' = {}
      /\ UNCHANGED <<strategy, phase, leased, job, old, asked>>
  BY DEF generated, Torrent, vars, roomVars
<1>2. /\ IsFiniteSet(listed) /\ IsFiniteSet(coming)
      /\ Cardinality(listed) + Cardinality(coming) + asked <= Wanted
  BY DEF TorrentInv, Counted
<1>3. /\ IsFiniteSet(listed') /\ Cardinality(listed') <= Cardinality(listed) + Cardinality(coming)
      /\ Cardinality(listed') \in Nat
  <2>1. /\ IsFiniteSet(listed \union coming)
        /\ Cardinality(listed \union coming) =
             Cardinality(listed) + Cardinality(coming) - Cardinality(listed \cap coming)
    BY <1>2, FS_Union
  <2>2. IsFiniteSet(listed \cap coming)
    BY <1>2, FS_Intersection
  <2>3. /\ Cardinality(listed) \in Nat /\ Cardinality(coming) \in Nat
        /\ Cardinality(listed \cap coming) \in Nat /\ Cardinality(listed \union coming) \in Nat
    BY <1>2, <2>1, <2>2, FS_CardinalityType
  <2> QED
    BY <1>1, <2>1, <2>3
<1>4. IsFiniteSet({}) /\ Cardinality({}) = 0 /\ Wanted \in Nat
      /\ Cardinality(listed) \in Nat /\ Cardinality(coming) \in Nat
  BY <1>2, FS_EmptySet, FS_CardinalityType, CountsAssumption
<1>5. Counted'
  BY <1>1, <1>2, <1>3, <1>4 DEF Counted
<1>6. phase # "gone" => coming \subseteq leased
  BY <1>1 DEF TorrentInv, Held, Promised, NoJob
<1>7. Held'
  BY <1>1, <1>6 DEF TorrentInv, Held
<1> QED
  BY <1>5, <1>7

(* One is made: what was promised is leased. *)
LEMMA OfferMadeKeeps ==
  ASSUME TorrentInv, NEW h \in Handles, offerMade(h)
  PROVE  Counted' /\ Held'
<1>1. /\ strategy = "torrent" /\ UNCHANGED <<strategy, listed, old, generating, asked, coming, phase>>
      /\ job[h] # NoJob /\ job' = [job EXCEPT ![h] = NoJob]
      /\ \/ job[h].kind = "lease" /\ leased' = leased \union {h}
         \/ job[h].kind # "lease" /\ leased' = leased
  BY DEF offerMade, Torrent, encrypted, roomVars
<1>2. job \in [Handles -> Jobs] /\ coming \subseteq Handles
  BY DEF TorrentInv, Custody, TypeOK, Held
<1>3. phase # "gone" =>
           /\ listed \ old \subseteq leased'
           /\ \A g \in coming : Promised(g)'
  BY <1>1, <1>2 DEF TorrentInv, Held, Promised
<1> QED
  BY <1>1, <1>3, RecordKept DEF TorrentInv

(* One cannot be made: another takes its place, or the generation ends. *)
LEMMA OfferFailsKeeps ==
  ASSUME TorrentInv, NEW h \in Handles, offerFails(h)
  PROVE  Counted' /\ Held'
<1> DEFINE new == {g \in Handles \ {h} : job'[g] # job[g]}
           over == job[h].attempt = 1
<1>1. /\ strategy = "torrent" /\ asked = 0
      /\ UNCHANGED <<strategy, listed, old, asked>>
      /\ phase' = phase /\ encryptFails(h) /\ job[h] # NoJob /\ leased' = leased \ {h}
      /\ generating' = (generating /\ ~(over /\ h \in coming))
      /\ coming' = IF over /\ h \in coming THEN {}
                     ELSE (coming \ {h}) \union (IF h \in coming THEN new ELSE {})
  BY DEF offerFails, Torrent, encryptFails, roomVars
<1>2. /\ job \in [Handles -> Jobs] /\ coming \subseteq Handles /\ listed \subseteq Handles
      /\ h \notin leased /\ IsFiniteSet(coming) /\ IsFiniteSet(listed)
  BY <1>1 DEF TorrentInv, Custody, TypeOK, SingleCustody, Encrypting, Held, Counted
<1>3. leased' = leased
  BY <1>1, <1>2
<1>4. CASE over
  <2>1. job' = [job EXCEPT ![h] = NoJob]
    BY <1>4 DEF offerFails, encryptFails
  <2>2. new = {}
    BY <1>2, <2>1
  <2>3. CASE h \in coming
    <3>1. coming' = {} /\ generating' = FALSE
      BY <1>1, <1>4, <2>3
    <3>2. IsFiniteSet({}) /\ Cardinality({}) = 0 /\ Wanted \in Nat
      BY FS_EmptySet, CountsAssumption
    <3>3. Cardinality(listed) \in Nat /\ Cardinality(coming) \in Nat
      BY <1>2, FS_CardinalityType
    <3>4. Counted'
      BY <1>1, <3>1, <3>2, <3>3 DEF TorrentInv, Counted
    <3>5. Held'
      BY <1>1, <1>3, <3>1 DEF TorrentInv, Held
    <3> QED
      BY <3>4, <3>5
  <2>4. CASE h \notin coming
    <3>1. coming' = coming /\ generating' = generating
      BY <1>1, <1>4, <2>4 DEF TorrentInv, Held
    <3>2. \A g \in coming : job'[g] = job[g]
      BY <1>2, <2>1, <2>4
    <3>3. phase # "gone" => /\ listed \ old \subseteq leased'
                            /\ \A g \in coming : Promised(g)'
      BY <1>3, <3>2 DEF TorrentInv, Held, Promised
    <3> QED
      BY <1>1, <3>1, <3>3, RecordKept DEF TorrentInv
  <2> QED
    BY <2>3, <2>4
<1>5. CASE ~over
  <2> DEFINE again == [kind |-> job[h].kind, attempt |-> 1]
  <2>1. PICK g \in Free : /\ job' = [job EXCEPT ![h] = NoJob, ![g] = again]
                          /\ live' = (live \ {h}) \union {g}
    BY <1>5 DEF offerFails, encryptFails
  <2>2. /\ g \in Handles /\ g \notin live /\ g # h /\ g \notin listed /\ g \notin coming
    <3>1. g \in Handles /\ g \notin live /\ job[g] = NoJob
      BY <2>1 DEF Free, Encrypting
    <3>2. g \notin listed \union coming
      BY <2>1, <3>1 DEF offerFails, FreshPeers
    <3> QED
      BY <1>1, <3>1, <3>2
  <2>3. \A x \in Handles : job'[x] = IF x = g THEN again ELSE IF x = h THEN NoJob ELSE job[x]
    BY <1>2, <2>1, <2>2
  <2>4. again.kind = job[h].kind
    OBVIOUS
  <2> HIDE DEF again
  <2>5. new \subseteq {g}
    BY <2>3
  <2> HIDE DEF new
  <2>6. /\ generating' = generating /\ generating \in BOOLEAN
        /\ coming' = (coming \ {h}) \union (IF h \in coming THEN new ELSE {})
    BY <1>1, <1>5 DEF TorrentInv, Held
  <2>7. /\ IsFiniteSet(coming') /\ Cardinality(coming') \in Nat /\ Cardinality(coming) \in Nat
        /\ Cardinality(coming') <= Cardinality(coming)
    <3>1. CASE h \notin coming
      <4>1. coming' = coming
        BY <2>6, <3>1
      <4> QED
        BY <1>2, <4>1, FS_CardinalityType
    <3>2. CASE h \in coming
      <4> DEFINE less == coming \ {h}
                 most == less \union {g}
                 after == coming'
      <4>1. IsFiniteSet(less) /\ Cardinality(less) = Cardinality(coming) - 1
        BY <1>2, <3>2, FS_RemoveElement
      <4>2. after \subseteq most
        BY <2>5, <2>6
      <4> HIDE DEF less, after
      <4>3. /\ IsFiniteSet(less \cup {g})
            /\ Cardinality(less \cup {g}) =
                 IF g \in less THEN Cardinality(less) ELSE Cardinality(less) + 1
        BY <4>1, FS_AddElement
      <4>4. Cardinality(coming) \in Nat /\ Cardinality(less) \in Nat
        BY <1>2, <4>1, FS_CardinalityType
      <4>5. IsFiniteSet(most) /\ Cardinality(most) <= Cardinality(coming)
        BY <4>1, <4>3, <4>4
      <4> HIDE DEF most
      <4>6. /\ IsFiniteSet(after) /\ Cardinality(after) \in Nat /\ Cardinality(most) \in Nat
            /\ Cardinality(after) <= Cardinality(most)
        BY <4>2, <4>5, Fewer
      <4>7. Cardinality(after) <= Cardinality(coming)
        BY <4>4, <4>5, <4>6
      <4> QED
        BY <4>4, <4>6, <4>7 DEF after
    <3> QED
      BY <3>1, <3>2
  <2>8. Counted'
    <3>1. Cardinality(listed) \in Nat /\ Wanted \in Nat
      BY <1>2, FS_CardinalityType, CountsAssumption
    <3>2. ~generating' => coming' = {}
      BY <2>6 DEF TorrentInv, Counted
    <3>3. Cardinality(listed) + Cardinality(coming) + asked <= Wanted /\ (~generating => asked = 0)
      BY DEF TorrentInv, Counted
    <3>4. Cardinality(listed') + Cardinality(coming') + asked' <= Wanted
      BY <1>1, <2>7, <3>1, <3>3
    <3> QED
      BY <1>1, <1>2, <2>6, <2>7, <3>2, <3>3, <3>4 DEF Counted
  <2>9. Held'
    <3>1. coming' \subseteq (coming \ {h}) \union {g} /\ coming' \subseteq Handles
      BY <1>2, <2>2, <2>5, <2>6
    <3>2. g \in coming' => h \in coming
      BY <2>2, <2>6
    <3>3. phase # "gone" => /\ listed \ old \subseteq leased
                            /\ listed \intersect coming = {}
                            /\ \A x \in coming : x \in leased \/ job[x].kind = "lease"
      BY DEF TorrentInv, Held, Promised
    <3>4. phase # "gone" => /\ listed \intersect coming' = {}
                            /\ \A x \in coming' : x \in leased \/ job'[x].kind = "lease"
      BY <1>2, <2>2, <2>3, <2>4, <3>1, <3>2, <3>3
    <3> QED
      BY <1>1, <1>3, <3>1, <3>3, <3>4 DEF TorrentInv, Held, Promised
  <2> QED
    BY <2>8, <2>9
<1> QED
  BY <1>4, <1>5

(* An answer claims what is listed. *)
LEMMA ClaimKeeps ==
  ASSUME TorrentInv, NEW h \in Handles, claim(h)
  PROVE  Counted' /\ Held'
<1>1. /\ phase # "gone" /\ h \in listed /\ leased' = leased \ {h}
      /\ listed' = listed \ {h} /\ old' = old \ {h}
      /\ UNCHANGED <<strategy, generating, asked, coming, phase, job>>
  BY DEF claim, claimLeased, roomVars
<1>2. IsFiniteSet(listed) /\ listed \intersect coming = {}
  BY <1>1 DEF TorrentInv, Counted, Held
<1>3. /\ IsFiniteSet(listed') /\ Cardinality(listed') \in Nat /\ Cardinality(listed) \in Nat
      /\ Cardinality(listed') <= Cardinality(listed)
  BY <1>1, <1>2, Fewer
<1>4. Counted'
  <2>1. Cardinality(coming) \in Nat /\ Wanted \in Nat /\ asked \in Nat
    BY FS_CardinalityType, CountsAssumption DEF TorrentInv, Counted
  <2>2. Cardinality(listed) + Cardinality(coming) + asked <= Wanted
    BY DEF TorrentInv, Counted
  <2>3. Cardinality(listed') + Cardinality(coming) + asked <= Wanted
    BY <1>3, <2>1, <2>2
  <2> QED
    BY <1>1, <1>3, <2>3 DEF TorrentInv, Counted
<1>5. Held'
  BY <1>1, <1>2 DEF TorrentInv, Held, Promised
<1> QED
  BY <1>4, <1>5

LEMMA AgeKeeps ==
  ASSUME TorrentInv, NEW h \in Handles, age(h)
  PROVE  Counted' /\ Held'
<1>1. /\ h \in listed /\ old' = old \union {h} /\ asked = 0 /\ strategy = "torrent"
      /\ UNCHANGED <<strategy, listed, generating, asked, coming, phase, leased, job>>
  BY DEF age, Torrent, vars, roomVars
<1>2. Counted'
  BY <1>1 DEF TorrentInv, Counted
<1>3. Held'
  BY <1>1 DEF TorrentInv, Held, Promised
<1> QED
  BY <1>2, <1>3

LEMMA LeaseTimerKeeps ==
  ASSUME TorrentInv, NEW h \in Handles, leaseTimer(h)
  PROVE  Counted' /\ Held'
<1>1. /\ h \notin coming /\ (h \in listed => h \in old) /\ leased' = leased \ {h}
      /\ UNCHANGED <<strategy, listed, old, generating, asked, coming, phase, job>>
  BY DEF leaseTimer, reclaimLeased, roomVars, recordVars
<1>2. phase # "gone" => /\ listed \ old \subseteq leased'
                        /\ \A g \in coming : Promised(g)'
  BY <1>1 DEF TorrentInv, Held, Promised
<1> QED
  BY <1>1, <1>2, RecordKept DEF TorrentInv

(* What the pool does beside ends no lease, but for its own end. *)
LEMMA BesideKeeps ==
  ASSUME TorrentInv, Beside, UNCHANGED <<roomVars, recordVars>>
  PROVE  Counted' /\ Held'
<1>1. UNCHANGED <<strategy, listed, old, generating, asked, coming>>
  BY DEF roomVars, recordVars
<1>2. CASE destroy
  <2>1. phase' = "gone"
    BY <1>2 DEF destroy
  <2> QED
    BY <1>1, <2>1, RecordKept DEF TorrentInv
<1>3. CASE ~destroy
  <2>1. leased' = leased /\ job' = job /\ (phase' # "gone" => phase # "gone")
    BY <1>3 DEF Beside, warmup, cleanup, renewed, giveBack, answer, finish, die
  <2>2. phase # "gone" => /\ listed \ old \subseteq leased'
                          /\ \A g \in coming : Promised(g)'
    BY <2>1 DEF TorrentInv, Held, Promised
  <2> QED
    BY <1>1, <2>1, <2>2, RecordKept DEF TorrentInv
<1> QED
  BY <1>2, <1>3

(* Another caller has no record. *)
LEMMA OthersKeep ==
  ASSUME TorrentInv, strategy = "any", Next, UNCHANGED <<roomVars, recordVars>>
  PROVE  Counted' /\ Held'
<1>1. /\ UNCHANGED <<strategy, listed, old, generating, asked, coming>>
      /\ strategy # "torrent"
  BY DEF roomVars, recordVars
<1>2. phase' # "gone" => phase # "gone"
  BY DEF Next, warmup, cleanup, destroy, checkout, encrypted, encryptFails, renewed,
         claimLeased, reclaimLeased, giveBack, answer, finish, die
<1> QED
  BY <1>1, <1>2, RecordKept DEF TorrentInv

LEMMA StepRecord ==
  ASSUME TorrentInv, [TorrentNext]_allVars
  PROVE  Counted' /\ Held'
<1>2. ASSUME UNCHANGED <<vars, strategy, listed, old, generating, asked, coming>>
      PROVE  Counted' /\ Held'
  <2>1. phase' = phase /\ leased' = leased /\ job' = job
    BY <1>2 DEF vars
  <2>2. phase # "gone" => /\ listed \ old \subseteq leased'
                          /\ \A g \in coming : Promised(g)'
    BY <2>1 DEF TorrentInv, Held, Promised
  <2> QED
    BY <1>2, <2>1, <2>2, RecordKept DEF TorrentInv
<1>3. CASE UNCHANGED allVars
  BY <1>2, <1>3 DEF allVars, roomVars, recordVars
<1>4. CASE subscribe \/ announce \/ activate
  <2>1. Torrent /\ UNCHANGED strategy /\ (fn \/ UNCHANGED <<vars, recordVars>>)
    BY <1>4 DEF subscribe, announce, activate, roomVars
  <2> QED
    BY <1>2, <2>1, FnKeeps DEF recordVars
<1>5. CASE deactivate \/ cleanupSubscription
  <2>1. Torrent /\ UNCHANGED strategy
        /\ (reclaimAllOutstandingOffers \/ UNCHANGED <<vars, recordVars>>)
    BY <1>5 DEF deactivate, cleanupSubscription
  <2> QED
    BY <1>2, <2>1, ReclaimAllKeeps DEF recordVars
<1>6. CASE resume
  <2>1. strategy = "torrent" /\ UNCHANGED strategy
        /\ \/ ~generating /\ ensureOutstandingOffers
           \/ UNCHANGED <<vars, listed, old, generating, asked, coming>>
    BY <1>6 DEF resume, Torrent, roomVars
  <2> QED
    BY <1>2, <2>1, EnsureKeeps
<1>7. CASE getOffer \/ generated
  BY <1>7, GetOfferKeeps, GeneratedKeeps
<1>8. CASE \/ strategy = "any" /\ Next /\ UNCHANGED <<roomVars, recordVars>>
           \/ Torrent /\ Beside /\ UNCHANGED <<roomVars, recordVars>>
  BY <1>8, OthersKeep, BesideKeeps
<1>9. CASE \E h \in Handles : offerMade(h) \/ offerFails(h) \/ claim(h) \/ age(h) \/ leaseTimer(h)
  BY <1>9, OfferMadeKeeps, OfferFailsKeeps, ClaimKeeps, AgeKeeps, LeaseTimerKeeps
<1> QED
  BY <1>3, <1>4, <1>5, <1>6, <1>7, <1>8, <1>9 DEF TorrentNext

LEMMA StepTorrent ==
  ASSUME TorrentInv, [TorrentNext]_allVars
  PROVE  TorrentInv' /\ [Offers!Next]_(Offers!custody)
BY StepRecord, TorrentCustody DEF TorrentInv

(* At first the room has no offers. *)
LEMMA InitTorrent == TorrentInit => TorrentInv /\ Offers!Init
<1> SUFFICES ASSUME TorrentInit PROVE TorrentInv /\ Offers!Init
  OBVIOUS
<1>1. Init /\ listed = {} /\ old = {} /\ asked = 0 /\ coming = {} /\ generating = FALSE
  BY DEF TorrentInit
<1>2. Custody /\ Offers!Init
  BY <1>1, InitCustody, InitPlaces
<1>3. IsFiniteSet({}) /\ Cardinality({}) = 0 /\ Wanted \in Nat
  BY FS_EmptySet, CountsAssumption
<1>4. Counted
  BY <1>1, <1>3 DEF Counted
<1>5. Held
  BY <1>1 DEF Held
<1> QED
  BY <1>2, <1>4, <1>5 DEF TorrentInv

LEMMA TorrentInvHolds == TorrentSpec => []TorrentInv
<1>1. TorrentInit => TorrentInv
  BY InitTorrent
<1>2. TorrentInv /\ [TorrentNext]_allVars => TorrentInv'
  BY StepTorrent
<1> QED
  BY <1>1, <1>2, PTL DEF TorrentSpec

(* However announcements of several trackers, the sleep of a room and       *)
(* failures of its offers cross, the trackers are never told of more offers *)
(* than are wanted, and those that are not overdue are leased to the room   *)
(* (torrent/src/index.ts:133-195). *)
THEOREM OutstandingOffersHolds == TorrentSpec => []OutstandingOffers
<1>1. TorrentInv => OutstandingOffers
  <2> SUFFICES ASSUME TorrentInv PROVE OutstandingOffers
    OBVIOUS
  <2>1. Cardinality(listed) \in Nat /\ Cardinality(coming) \in Nat /\ asked \in Nat
        /\ Cardinality(listed) + Cardinality(coming) + asked <= Wanted /\ Wanted \in Nat
    BY FS_CardinalityType, CountsAssumption DEF TorrentInv, Counted
  <2>2. Cardinality(listed) <= Wanted
    BY <2>1
  <2> QED
    BY <2>2 DEF TorrentInv, Held, OutstandingOffers
<1> QED
  BY <1>1, TorrentInvHolds, PTL

(* The pool is as it should be, for whoever leases offers from it: a peer   *)
(* is offered to one party at a time, and none leaks (offer-pool.ts). *)
THEOREM PoolKept == TorrentSpec => [](TypeOK /\ SingleCustody /\ Accounted)
<1>1. TorrentInv => TypeOK /\ SingleCustody /\ Accounted
  BY DEF TorrentInv, Custody
<1> QED
  BY <1>1, TorrentInvHolds, PTL

(* And to a room at torrent trackers, too, it keeps what OfferCustody       *)
(* promises: many leases that end at once are taken back at once. *)
THEOREM CustodyOfTorrent == TorrentSpec => KeepsCustody
<1>1. TorrentInit => Offers!Init
  BY InitTorrent
<1>2. TorrentInv /\ [TorrentNext]_allVars => [Offers!Next]_(Offers!custody)
  BY StepTorrent
<1> QED
  BY <1>1, <1>2, TorrentInvHolds, PTL DEF TorrentSpec, KeepsCustody, Offers!Spec
=============================================================================
