----------------------------- MODULE NostrRelay -----------------------------
(***************************************************************************)
(* The subscriptions of the Nostr strategy (nostr/src/index.ts), which     *)
(* are batched: the topics of all rooms of a relay are cut into chunks of  *)
(* ChunkSize, one REQ for each; a timer collects changes.                  *)
(*                                                                         *)
(* External: the relay keeps one filter for each subscription id of a      *)
(* socket, as the strategy expects of REQ, CLOSE and EVENT.                *)
(***************************************************************************)
EXTENDS RelaySocket

CONSTANTS
  ChunkSize, \* maxTopicsPerSubscription
  MaxSubIds  \* subscription ids in use at a time (bound)

ASSUME ChunkAssumption == {ChunkSize, MaxSubIds} \subseteq Nat \ {0}

VARIABLES
  batch,   \* batchers[url]; without topics: there is none
  filters  \* filters[c][s]: what the relay sends over socket c for id s

-----------------------------------------------------------------------------
SubIds == 1..MaxSubIds

NoBatch == [topics |-> <<>>, subIds |-> <<>>, timer |-> FALSE]

NoFilters == [s \in SubIds |-> {}]

Req(s, topics) == [op |-> "req", sub |-> s, topics |-> topics]
CloseReq(s) == [op |-> "close", sub |-> s]

NostrFrames ==
  [op : {"req"}, sub : SubIds, topics : SUBSET Topics]
    \union [op : {"close"}, sub : SubIds]

NostrInit ==
  /\ batch = NoBatch
  /\ filters = [c \in Conns |-> NoFilters]

\* What subscribing and unsubscribing change, and the frames they send.
Client == [handlers |-> handlers, batch |-> batch, out |-> <<>>]

Becomes(c) ==
  /\ handlers' = c.handlers
  /\ batch' = c.batch
  /\ up' = Sent(c.out)

\* Mutant of FreshIds: only what is on its way or at the relay counts as used.
IdsUnknownToRelay(ids) ==
  LET inUse == {s \in SubIds : \E c \in Conns :
                  \/ filters[c][s] # {}
                  \/ \E f \in ToSet(up[c]) : f.sub = s}
  IN  SetToSortSeq(SubIds \ inUse, <)

\* genId(64): ids that nothing mentions, those of the batch included.
FreshIds(ids) ==
  LET inUse == ToSet(ids) \union {m.sub : m \in ToSet(down)}
                 \union {s \in SubIds : \E c \in Conns :
                           \/ filters[c][s] # {}
                           \/ \E f \in ToSet(up[c]) : f.sub = s}
  IN  SetToSortSeq(SubIds \ inUse, <)

batchAdd(c, t, is) ==
  [c EXCEPT !.handlers[t] = is,
            !.batch.topics = IF t \in ToSet(@) THEN @ ELSE Append(@, t),
            !.batch.timer = TRUE]

\* Mutant of batchRemove: subscriptions are only closed by the next flush.
RemoveWithoutClose(c, t) ==
  LET rest == RemoveFirst(c.batch.topics, t)
  IN  IF rest = <<>>
        THEN [c EXCEPT !.handlers[t] = {}, !.batch = NoBatch]
        ELSE [c EXCEPT !.handlers[t] = {}, !.batch.topics = rest,
                       !.batch.timer = TRUE]

\* batchRemove goes by the topic, whoever has subscribed to it since.
batchRemove(c, t) ==
  LET rest == RemoveFirst(c.batch.topics, t)
  IN  IF rest = <<>>
        THEN [c EXCEPT !.handlers[t] = {}, !.batch = NoBatch,
                       !.out = @ \o [k \in DOMAIN c.batch.subIds |->
                                       CloseReq(c.batch.subIds[k])]]
        ELSE [c EXCEPT !.handlers[t] = {}, !.batch.topics = rest,
                       !.batch.timer = TRUE]

\* The k-th chunk of a sequence of topics.
Chunk(topics, k) ==
  {topics[j] : j \in {n \in DOMAIN topics : 1 + (n - 1) \div ChunkSize = k}}

flushBatch(c) ==
  LET count == (Len(c.batch.topics) + ChunkSize - 1) \div ChunkSize
      ids == SubSeq(c.batch.subIds \o FreshIds(c.batch.subIds), 1, count)
      surplus == Reverse(SubSeq(c.batch.subIds, count + 1,
                                Len(c.batch.subIds)))
  IN  IF count = 0
        THEN c
        ELSE [c EXCEPT !.batch.subIds = ids,
                       !.out = @ \o [k \in DOMAIN surplus |->
                                       CloseReq(surplus[k])]
                                 \o [k \in 1..count |->
                                       Req(ids[k], Chunk(c.batch.topics, k))]]

\* The timer of scheduleBatchFlush.
flushTimer ==
  /\ batch.timer
  /\ Becomes(flushBatch([Client EXCEPT !.batch.timer = FALSE]))
  /\ UNCHANGED <<socketVars, down, filters>>

\* Mutant of resubscribeOnReconnect: nothing is sent again.
forgetOnReconnect == Client

\* onReconnect.
resubscribeOnReconnect == flushBatch(Client)

-----------------------------------------------------------------------------
\* What a relay has after a REQ or CLOSE.
Filtered(f, frame) ==
  [f EXCEPT ![frame.sub] = IF frame.op = "req" THEN frame.topics ELSE {}]

nostrReads(c) ==
  /\ filters' = [filters EXCEPT ![c] = Filtered(@, Head(up[c]))]
  /\ up' = [up EXCEPT ![c] = Tail(@)]

nostrForgets(c) == filters' = [filters EXCEPT ![c] = NoFilters]

\* The events for a message to topic t, one for each filter it matches.
Events(t) ==
  LET subs == {s \in SubIds : t \in filters[conn][s]}
  IN  SetToSeq({[topic |-> t, sub |-> s] : s \in subs})

\* The data callback of makeSocket: whom an event is dispatched to.
NostrReceivers(m) ==
  IF m.sub \in ToSet(batch.subIds) THEN handlers[m.topic] ELSE {}

\* Unless the socket is down or a flush is due, the relay will in the end have
\* the topics the client has handlers for, in filters of a size it accepts, and
\* under subscription ids whose events the client takes.
NostrAgrees ==
  (sock = "open" /\ ~batch.timer) =>
    LET final == FoldLeft(Filtered, filters[conn], up[conn])
    IN  /\ UNION {final[s] : s \in SubIds} = {t \in Topics : handlers[t] # {}}
        /\ {s \in SubIds : final[s] # {}} = ToSet(batch.subIds)
        /\ \A s \in SubIds : Cardinality(final[s]) <= ChunkSize

=============================================================================
