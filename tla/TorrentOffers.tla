--------------------------- MODULE TorrentOffers ---------------------------
(***************************************************************************)
(* The offers a room has outstanding at torrent trackers                   *)
(* (torrent/src/index.ts), over the pool they are leased from.  All        *)
(* trackers of a room are told of the same offers: the announcement that   *)
(* finds some missing gets them, and those that come meanwhile wait for    *)
(* it.  A record that is deleted while it waits for offers never gets      *)
(* them: they are left to their leases.                                    *)
(*                                                                         *)
(* Abstracted: one room, which is alone in its app; its trackers are woken *)
(* and put to sleep together.  Offers are answered while their lease       *)
(* lasts; those listed are outstanding for 120 s before an announcement    *)
(* takes them back, leases last for 180, and a room that is awake          *)
(* announces itself every 20 at the latest.                                *)
(***************************************************************************)
EXTENDS OfferPool

CONSTANTS
  Strategies,  \* who leases offers: "torrent", or "any" that does it right
  Wanted,      \* offerPoolSize
  Trackers     \* how many relays the room has

ASSUME StrategiesAssumption == Strategies \subseteq {"any", "torrent"}
ASSUME CountsAssumption == {Wanted, Trackers} \subseteq Nat

VARIABLES
  strategy,    \* one of Strategies, the same all along
  unready,     \* relays that are not connected yet
  subscribed,  \* roomSubscriberCounts
  active,      \* topicState.isActive
  listed,      \* roomOutstandingOffers, by their peers
  old,         \* those of them past offerRetentionMs
  generating,  \* whether roomOfferGenerationPromises has a promise
  asked,       \* offers that are yet to be checked out for it
  coming,      \* peers that were
  waiting,     \* whether an announcement waits: for the promise that is there
               \* ("latest"), or for one that was deleted
  stray        \* peers whose offers are still being made for that one

roomVars == <<strategy, unready, subscribed, active>>
waits == <<waiting, stray>>
recordVars == <<listed, old, generating, asked, coming, waits>>
allVars == <<vars, roomVars, recordVars>>

TorrentInit ==
  /\ Init
  /\ strategy \in Strategies
  /\ unready = Trackers /\ subscribed = 0
  /\ active \in BOOLEAN
  /\ listed = {} /\ old = {}
  /\ generating = FALSE /\ asked = 0 /\ coming = {}
  /\ waiting = "no" /\ stray = {}

Torrent == strategy = "torrent" /\ asked = 0

\* A peer that is in a record, or to be, is not free to be another.
FreshPeers == (live' \ live) \intersect (listed \union coming) = {}

-----------------------------------------------------------------------------
\* reclaimOutstandingOffer for each of some entries: those whose lease is over
\* are only deleted.
reclaim(entries) ==
  LET back == entries \intersect leased
  IN  /\ leased' = leased \ back
      /\ recycling' =
           IF phase = "active" THEN recycling \union (back \intersect live)
                               ELSE recycling
      /\ live' = IF phase = "active" THEN live ELSE live \ back
      /\ UNCHANGED <<phase, answered, pool, pooled, job, owned>>

\* ensureOutstandingOffers, when nobody else is at it: the old ones are pruned,
\* and the missing ones asked for.  (There are peers for them: a bound.)
ensureOutstandingOffers ==
  LET missing == Wanted - Cardinality(listed \ old)
  IN  /\ missing <= Len(pool) + Cardinality(Free \ (listed \union coming))
      /\ reclaim(old)
      /\ listed' = listed \ old /\ old' = {}
      /\ asked' = asked + missing
      /\ generating' = (missing > 0)
      /\ UNCHANGED coming

\* topicState.announce, of a room that is awake.  (One waits at a time: a
\* bound.)
fn ==
  IF generating
    THEN /\ waiting = "no"
         /\ waiting' = "latest"
         /\ UNCHANGED <<vars, listed, old, generating, asked, coming, stray>>
    ELSE ensureOutstandingOffers /\ UNCHANGED waits

\* reclaimAllOutstandingOffers: the promise is deleted as well, but not for
\* whoever waits for it.
reclaimAllOutstandingOffers ==
  /\ reclaim(listed)
  /\ listed' = {} /\ old' = {}
  /\ generating' = FALSE /\ coming' = {}
  /\ IF generating /\ waiting = "latest"
       THEN waiting' = "deleted" /\ stray' = coming \intersect Encrypting
       ELSE UNCHANGED waits
  /\ UNCHANGED asked

-----------------------------------------------------------------------------
subscribe ==
  /\ Torrent
  /\ unready > 0
  /\ unready' = unready - 1
  /\ subscribed' = subscribed + 1
  /\ IF active THEN fn ELSE UNCHANGED <<vars, recordVars>>
  /\ UNCHANGED <<strategy, active>>

\* By its timer, or announce of the strategy.
announce ==
  /\ Torrent
  /\ subscribed > 0 /\ active /\ phase # "gone"
  /\ fn
  /\ UNCHANGED roomVars

\* announce of a strategy whose room is asleep.
activate ==
  /\ Torrent
  /\ subscribed > 0 /\ ~active /\ phase # "gone"
  /\ active' = TRUE
  /\ fn
  /\ UNCHANGED <<strategy, unready, subscribed>>

deactivate ==
  /\ Torrent
  /\ subscribed > 0 /\ active /\ phase # "gone"
  /\ active' = FALSE
  /\ reclaimAllOutstandingOffers
  /\ UNCHANGED <<strategy, unready, subscribed>>

\* One of the peers that getOffers checks out at once.
getOffer ==
  /\ strategy = "torrent" /\ asked > 0
  /\ asked' = asked - 1
  /\ checkout("lease") /\ FreshPeers
  /\ coming' = coming \union {h \in Handles : job'[h] # job[h]}
  /\ UNCHANGED <<roomVars, listed, old, generating, waits>>

\* getOffers settles: the offers are added to the record.
generated ==
  /\ Torrent
  /\ generating /\ \A h \in coming : job[h] = NoJob
  /\ listed' = listed \union coming
  /\ generating' = FALSE /\ coming' = {}
  /\ UNCHANGED <<vars, roomVars, old, asked, waits>>

\* An offer is made.
offerMade(h) ==
  /\ Torrent
  /\ encrypted(h)
  /\ stray' = stray \ {h}
  /\ UNCHANGED <<roomVars, listed, old, generating, asked, coming, waiting>>

\* An offer cannot be made: a second time it is the end of the generation, and
\* of the announcement that waits for it.
offerFails(h) ==
  /\ Torrent
  /\ encryptFails(h) /\ FreshPeers
  /\ LET new == {g \in Handles \ {h} : job'[g] # job[g]}
         kept(peers) == (peers \ {h}) \union (IF h \in peers THEN new ELSE {})
         over == job[h].attempt = 1
     IN  /\ generating' = (generating /\ ~(over /\ h \in coming))
         /\ coming' = IF over /\ h \in coming THEN {} ELSE kept(coming)
         /\ stray' = IF over /\ h \in stray THEN {} ELSE kept(stray)
         /\ waiting' = IF over /\ \/ waiting = "latest" /\ h \in coming
                                  \/ waiting = "deleted" /\ h \in stray
                         THEN "no" ELSE waiting
  /\ UNCHANGED <<roomVars, listed, old, asked>>

\* Mutant of resume: it waits once, and not again for who came first.
resumeAtOnce ==
  /\ Torrent
  /\ waiting # "no" /\ stray = {}
  /\ waiting' = "no"
  /\ ensureOutstandingOffers
  /\ UNCHANGED <<roomVars, stray>>

\* An announcement that waited goes on, or waits for the next promise, asleep
\* though its room may be, or left.
resume ==
  /\ Torrent
  /\ stray = {}
  /\ \/ /\ waiting # "no" /\ ~generating
        /\ waiting' = "no"
        /\ ensureOutstandingOffers
     \/ /\ waiting = "deleted" /\ generating
        /\ waiting' = "latest"
        /\ UNCHANGED <<vars, listed, old, generating, asked, coming>>
  /\ UNCHANGED <<roomVars, stray>>

\* claimOutstandingOffer: an answer arrives.
claim(h) ==
  /\ Torrent
  /\ subscribed > 0 /\ phase # "gone" /\ h \in listed
  /\ claimLeased(h)
  /\ listed' = listed \ {h} /\ old' = old \ {h}
  /\ UNCHANGED <<roomVars, generating, asked, coming, waits>>

\* The cleanup that subscribe returned, once the pool has been destroyed.
cleanupSubscription ==
  /\ Torrent
  /\ phase = "gone" /\ subscribed > 0
  /\ subscribed' = subscribed - 1
  /\ IF subscribed = 1 THEN reclaimAllOutstandingOffers
                       ELSE UNCHANGED <<vars, recordVars>>
  /\ UNCHANGED <<strategy, unready, active>>

\* An offer is listed for 120 s.
age(h) ==
  /\ Torrent
  /\ h \in listed \ old
  /\ old' = old \union {h}
  /\ UNCHANGED <<vars, roomVars, listed, generating, asked, coming, waits>>

\* A lease ends after 180 s.
leaseTimer(h) ==
  /\ Torrent
  /\ h \notin coming
  /\ h \in listed => h \in old /\ ~(active /\ subscribed > 0)
  /\ reclaimLeased(h)
  /\ UNCHANGED <<roomVars, recordVars>>

-----------------------------------------------------------------------------
\* What the pool and the owners of peers do beside.
Beside ==
  \/ warmup /\ FreshPeers
  \/ cleanup \/ destroy
  \/ \E h \in Handles :
       \/ renewed(h)
       \/ giveBack(h) \/ answer(h) \/ finish(h) \/ die(h)

TorrentNext ==
  \/ strategy = "any" /\ Next /\ UNCHANGED <<roomVars, recordVars>>
  \/ Torrent /\ Beside /\ UNCHANGED <<roomVars, recordVars>>
  \/ subscribe \/ announce \/ activate \/ deactivate
  \/ getOffer \/ generated \/ resume \/ cleanupSubscription
  \/ \E h \in Handles :
       offerMade(h) \/ offerFails(h) \/ claim(h) \/ age(h) \/ leaseTimer(h)

TorrentSpec == TorrentInit /\ [][TorrentNext]_allVars

\* Promises settle, and timers fire.
settles(h) ==
  \/ offerMade(h) \/ offerFails(h)
  \/ /\ strategy = "any"
     /\ encrypted(h) \/ encryptFails(h)
     /\ UNCHANGED <<roomVars, recordVars>>

renewal(h) ==
  /\ strategy = "any" \/ Torrent
  /\ renewed(h) /\ UNCHANGED <<roomVars, recordVars>>

leaseEnds(h) ==
  \/ leaseTimer(h)
  \/ strategy = "any" /\ reclaimLeased(h) /\ UNCHANGED <<roomVars, recordVars>>

TorrentFairness ==
  /\ \A h \in Handles :
       /\ WF_allVars(settles(h)) /\ WF_allVars(renewal(h))
       /\ WF_allVars(leaseEnds(h)) /\ WF_allVars(age(h))
  /\ WF_allVars(getOffer) /\ WF_allVars(generated) /\ WF_allVars(resume)
  /\ WF_allVars(cleanupSubscription)

TorrentFairSpec == TorrentSpec /\ TorrentFairness

-----------------------------------------------------------------------------
\* However announcements of several trackers, a room that falls asleep and
\* offers that cannot be made cross: the trackers are never told of more
\* offers than there are to be, and each that is not overdue is the room's to
\* be answered, leased and nobody else's.
OutstandingOffers ==
  /\ Cardinality(listed) <= Wanted
  /\ phase # "gone" => listed \ old \subseteq leased

=============================================================================
