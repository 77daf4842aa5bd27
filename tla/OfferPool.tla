----------------------------- MODULE OfferPool -----------------------------
(***************************************************************************)
(* The pool of offer peers (core/src/offer-pool.ts): RTCPeerConnections    *)
(* that already have an offer, made ahead of time, handed out to be        *)
(* offered to somebody, and taken back with a new offer when nobody        *)
(* answered.                                                               *)
(*                                                                         *)
(* Every operation that waits for WebRTC or WebCrypto is split in two:     *)
(* while a peer's offer is being encrypted (job) or renewed (recycling)    *)
(* anything else may happen, the end of the pool included.                 *)
(*                                                                         *)
(* A batch of n offers is n checkouts; each takes its own course here and  *)
(* in the code, where one that fails twice makes the call reject and       *)
(* leaves the others to their leases.  Those who get a leased offer are    *)
(* taken to claim or reclaim it while the lease lasts, as the only caller  *)
(* does: torrent/src/index.ts keeps an offer for 120 s, the lease for 180. *)
(***************************************************************************)
EXTENDS Integers, Sequences, FiniteSets

CONSTANTS
  Handles,   \* identities of PeerHandles; one no longer in use is free again
  PoolSize   \* how many peers warmup makes

ASSUME PoolSizeAssumption == PoolSize \in Nat

VARIABLES
  phase,      \* "cold" before warmup, "active", "gone" after destroy
  live,       \* the peers that are not dead
  answered,   \* the peers with a remote description
  pool,       \* the peers to be handed out, in order
  pooled,     \* the same, for membership
  leased,     \* the peers with a lease timer
  recycling,  \* the peers whose offer is being renewed
  job,        \* job[h]: the checkout that is encrypting h's offer
  owned       \* the peers in the hands of a room, without a lease

vars == <<phase, live, answered, pool, pooled, leased, recycling, job, owned>>

-----------------------------------------------------------------------------
NoJob == [kind |-> "none", attempt |-> 0]
Jobs == [kind : {"none", "lease", "plain"}, attempt : 0..1]

Elements(seq) == {seq[i] : i \in DOMAIN seq}
InPool == Elements(pool)
Encrypting == {h \in Handles : job[h] # NoJob}

Free == Handles \ (live \union InPool \union pooled \union leased
                     \union recycling \union Encrypting \union owned)

Init ==
  /\ phase = "cold"
  /\ live = {} /\ answered = {}
  /\ pool = <<>> /\ pooled = {}
  /\ leased = {} /\ recycling = {} /\ owned = {}
  /\ job = [h \in Handles |-> NoJob]

warmup ==
  /\ phase = "cold"
  /\ phase' = "active"
  /\ \E new \in [1..PoolSize -> Free] :
       /\ \A i, j \in 1..PoolSize : new[i] = new[j] => i = j
       /\ pool' = new
       /\ pooled' = {new[i] : i \in 1..PoolSize}
       /\ live' = live \union {new[i] : i \in 1..PoolSize}
  /\ UNCHANGED <<answered, leased, recycling, job, owned>>

\* The interval that drops dead peers from the pool and keeps the others in
\* their order.
cleanup ==
  /\ phase = "active"
  /\ LET kept == {i \in DOMAIN pool : pool[i] \in live}
     IN  /\ kept # DOMAIN pool
         /\ \E n \in 0..Len(pool) : \E at \in [1..n -> kept] :
              /\ \A i, j \in 1..n : i < j => at[i] < at[j]
              /\ \A k \in kept : \E i \in 1..n : at[i] = k
              /\ pool' = [i \in 1..n |-> pool[at[i]]]
  /\ pooled' = pooled \ (InPool \ live)
  /\ UNCHANGED <<phase, live, answered, leased, recycling, job, owned>>

-----------------------------------------------------------------------------
\* Mutant of checkout: the peer stays in the set of pooled ones.
checkoutKeepsPooled(kind) ==
  /\ \/ /\ pool # <<>>
        /\ job' = [job EXCEPT ![Head(pool)] = [kind |-> kind, attempt |-> 0]]
        /\ pool' = Tail(pool)
        /\ UNCHANGED <<live, pooled>>
     \/ /\ pool = <<>>
        /\ \E h \in Free :
             /\ job' = [job EXCEPT ![h] = [kind |-> kind, attempt |-> 0]]
             /\ live' = live \union {h}
        /\ UNCHANGED <<pool, pooled>>
  /\ UNCHANGED <<phase, answered, leased, recycling, owned>>

\* checkout, up to the encryption of the offer: shift, or else makeOffer.
\* kind says whether the offer is leased (getOffers) or not (ensureOffer).
checkout(kind) ==
  /\ \/ /\ pool # <<>>
        /\ job' = [job EXCEPT ![Head(pool)] = [kind |-> kind, attempt |-> 0]]
        /\ pool' = Tail(pool)
        /\ pooled' = pooled \ {Head(pool)}
        /\ UNCHANGED live
     \/ /\ pool = <<>>
        /\ \E h \in Free :
             /\ job' = [job EXCEPT ![h] = [kind |-> kind, attempt |-> 0]]
             /\ live' = live \union {h}
        /\ UNCHANGED <<pool, pooled>>
  /\ UNCHANGED <<phase, answered, leased, recycling, owned>>

\* toRecord: the offer is encrypted, whatever became of the pool meanwhile.
encrypted(h) ==
  /\ job[h] # NoJob
  /\ job' = [job EXCEPT ![h] = NoJob]
  /\ IF job[h].kind = "lease"
       THEN leased' = leased \union {h} /\ UNCHANGED owned
       ELSE owned' = owned \union {h} /\ UNCHANGED leased
  /\ UNCHANGED <<phase, live, answered, pool, pooled, recycling>>

\* Mutant of encryptFails: every attempt may be retried.
encryptFailsAgain(h) ==
  /\ job[h] # NoJob
  /\ leased' = leased \ {h} /\ pooled' = pooled \ {h}
  /\ \E g \in Free :
       /\ job' = [job EXCEPT ![h] = NoJob,
                    ![g] = [kind |-> job[h].kind,
                            attempt |-> job[h].attempt + 1]]
       /\ live' = (live \ {h}) \union {g}
  /\ UNCHANGED <<phase, answered, pool, recycling, owned>>

\* toRecord: there was no offer, or no encrypting it.  The peer is destroyed
\* and the checkout goes on with another, once.
encryptFails(h) ==
  /\ job[h] # NoJob
  /\ leased' = leased \ {h} /\ pooled' = pooled \ {h}
  /\ \/ /\ job[h].attempt = 0
        /\ \E g \in Free :
             /\ job' = [job EXCEPT ![h] = NoJob,
                          ![g] = [kind |-> job[h].kind, attempt |-> 1]]
             /\ live' = (live \ {h}) \union {g}
     \/ /\ job[h].attempt = 1
        /\ job' = [job EXCEPT ![h] = NoJob]
        /\ live' = live \ {h}
  /\ UNCHANGED <<phase, answered, pool, recycling, owned>>

-----------------------------------------------------------------------------
\* Mutant of recycle: nobody asks whether the offer was answered.
recycleAnswered(h) ==
  \/ /\ h \notin live \/ h \in recycling
     /\ UNCHANGED <<live, answered, recycling>>
  \/ /\ h \in live \ recycling
     /\ IF phase = "active"
          THEN recycling' = recycling \union {h} /\ UNCHANGED <<live, answered>>
          ELSE /\ live' = live \ {h} /\ answered' = answered \ {h}
               /\ UNCHANGED recycling

\* recycle: dead peers and those being recycled are left alone, those that
\* are of no more use are destroyed, and the others get a new offer.
recycle(h) ==
  \/ /\ h \notin live \/ h \in recycling
     /\ UNCHANGED <<live, answered, recycling>>
  \/ /\ h \in live \ recycling
     /\ h \in answered \/ phase # "active"
     /\ live' = live \ {h} /\ answered' = answered \ {h}
     /\ UNCHANGED recycling
  \/ /\ h \in live \ (recycling \union answered)
     /\ phase = "active"
     /\ recycling' = recycling \union {h}
     /\ UNCHANGED <<live, answered>>

\* recycle, once getOffer(true) has settled: the peer is pushed if it has an
\* offer and the pool is still there, and destroyed otherwise.
renewed(h) ==
  /\ h \in recycling
  /\ recycling' = recycling \ {h}
  /\ \/ /\ h \in live /\ phase = "active"
        /\ IF h \in pooled \union leased
             THEN UNCHANGED <<pool, pooled>>
             ELSE pool' = Append(pool, h) /\ pooled' = pooled \union {h}
        /\ UNCHANGED live
     \/ live' = live \ {h} /\ UNCHANGED <<pool, pooled>>
  /\ UNCHANGED <<phase, answered, leased, job, owned>>

\* claimLeased: an answer to a leased offer has arrived.
claimLeased(h) ==
  /\ h \in leased
  /\ leased' = leased \ {h}
  /\ owned' = owned \union {h}
  /\ UNCHANGED <<phase, live, answered, pool, pooled, recycling, job>>

\* Mutant of reclaimLeased: the lease is not ended.
reclaimKeepsLease(h) ==
  /\ h \in leased
  /\ recycle(h)
  /\ UNCHANGED <<phase, leased, pool, pooled, job, owned>>

\* Another mutant: a pool that is gone takes nothing back.
reclaimWhileActive(h) ==
  /\ phase = "active"
  /\ h \in leased
  /\ leased' = leased \ {h}
  /\ recycle(h)
  /\ UNCHANGED <<phase, pool, pooled, job, owned>>

\* reclaimLeased, by the caller or by the lease timer.
reclaimLeased(h) ==
  /\ h \in leased
  /\ leased' = leased \ {h}
  /\ recycle(h)
  /\ UNCHANGED <<phase, pool, pooled, job, owned>>

\* resetOfferState: the owner gives up an offer that was not answered.
giveBack(h) ==
  /\ h \in owned
  /\ owned' = owned \ {h}
  /\ recycle(h)
  /\ UNCHANGED <<phase, pool, pooled, leased, job>>

\* The owner applies an answer.
answer(h) ==
  /\ h \in owned \intersect live
  /\ answered' = answered \union {h}
  /\ UNCHANGED <<phase, live, pool, pooled, leased, recycling, job, owned>>

\* The owner destroys the peer, or hands it on once it is connected.
finish(h) ==
  /\ h \in owned
  /\ owned' = owned \ {h}
  /\ live' = live \ {h} /\ answered' = answered \ {h}
  /\ UNCHANGED <<phase, pool, pooled, leased, recycling, job>>

\* The browser closes a connection.
die(h) ==
  /\ h \in live
  /\ live' = live \ {h} /\ answered' = answered \ {h}
  /\ UNCHANGED <<phase, pool, pooled, leased, recycling, job, owned>>

\* destroy, when the last room is left.
destroy ==
  /\ phase # "gone"
  /\ phase' = "gone"
  /\ live' = live \ (InPool \union leased \union recycling)
  /\ answered' = answered \ (InPool \union leased \union recycling)
  /\ pool' = <<>> /\ pooled' = {}
  /\ leased' = {} /\ recycling' = {}
  /\ UNCHANGED <<job, owned>>

-----------------------------------------------------------------------------
Next ==
  \/ warmup \/ cleanup \/ destroy
  \/ \E kind \in {"lease", "plain"} : checkout(kind)
  \/ \E h \in Handles :
       \/ encrypted(h) \/ encryptFails(h) \/ renewed(h)
       \/ claimLeased(h) \/ reclaimLeased(h)
       \/ giveBack(h) \/ answer(h) \/ finish(h) \/ die(h)

Spec == Init /\ [][Next]_vars

\* Promises settle and lease timers fire.
Fairness ==
  \A h \in Handles :
    /\ WF_vars(encrypted(h) \/ encryptFails(h))
    /\ WF_vars(renewed(h))
    /\ WF_vars(reclaimLeased(h))

FairSpec == Spec /\ Fairness

-----------------------------------------------------------------------------
TypeOK ==
  /\ phase \in {"cold", "active", "gone"}
  /\ live \subseteq Handles /\ answered \subseteq live
  /\ pool \in Seq(Handles) /\ pooled \subseteq Handles
  /\ leased \subseteq Handles /\ recycling \subseteq Handles
  /\ owned \subseteq Handles
  /\ job \in [Handles -> Jobs]

\* A peer is offered to one party at a time: it is never in the hands of a
\* room, leased, being encrypted, being recycled or in the pool, once or
\* twice, and in a second of these places as well.
SingleCustody ==
  /\ \A i, j \in DOMAIN pool : pool[i] = pool[j] => i = j
  /\ InPool \intersect (leased \union recycling \union Encrypting
                          \union owned) = {}
  /\ leased \intersect (recycling \union Encrypting \union owned) = {}
  /\ recycling \intersect (Encrypting \union owned) = {}
  /\ Encrypting \intersect owned = {}

\* No RTCPeerConnection leaks: one that is neither closed nor in the hands of
\* a room is somewhere the pool will find it again.
Accounted ==
  live \subseteq InPool \union leased \union recycling \union Encrypting
                  \union owned

\* After the last room is left the pool keeps nothing, what was under way
\* then included: a checkout that ends later gives a lease, and the lease
\* ends in the destruction of the peer.
ReleasedAfterDestroy ==
  \A h \in Handles :
    [](phase = "gone" =>
         <>(h \notin InPool \union leased \union recycling \union Encrypting))

\* Where a peer is, to whoever sees the pool from outside: one that is closed
\* is nowhere as soon as it is a room's.
Place(h) ==
  IF h \in pooled \/ h \in recycling THEN "ready"
  ELSE IF h \in leased \/ job[h] # NoJob THEN "out"
  ELSE IF h \in owned /\ h \in answered THEN "spent"
  ELSE IF h \in owned /\ h \in live THEN "room"
  ELSE "none"

Offers == INSTANCE OfferCustody
  WITH over <- phase = "gone", place <- [h \in Handles |-> Place(h)]

\* The pool keeps what it promises its callers: an offer that is answered is
\* never offered again, one that is out comes back before it goes to somebody
\* else, and nothing comes back to a pool that has ended.
KeepsCustody == Offers!Spec

=============================================================================
