----------------------------- MODULE ActionWire -----------------------------
(***************************************************************************)
(* The action wire (action-wire.ts): messages cut into chunks, sent while  *)
(* the data channel has room, and put together again at the other side.    *)
(*                                                                         *)
(* A message goes to one peer and has metadata, sent as part 0 before its  *)
(* data, as the requests and responses of module Requests do.  While the   *)
(* channel has room its chunks are sent at once; a loop is one that waits  *)
(* for the channel to drain.  The rooms of two peers become active for     *)
(* each other together, in a numbered session, which stands for the        *)
(* identity of the PeerHandle; Admission shows that nothing is dropped     *)
(* while they do.  A session starts with empty channels: what an earlier   *)
(* one left arrives before the handshake that starts the next.             *)
(***************************************************************************)
EXTENDS Integers, Sequences

CONSTANTS
  Peers,
  Actions,   \* the types of the actions
  Chunks,    \* how many data chunks the messages of each action have
  NonceMod,  \* number of nonces, 2^16 in the code (bound)
  MaxSessions,  \* how often two peers meet (bound)
  Stalls,    \* whether a channel may take longer than 10 s to drain
  None

ASSUME ChunksAssumption == Chunks \in [Actions -> Nat \ {0}]
ASSUME WireAssumption ==
  NonceMod \in Nat \ {0} /\ MaxSessions \in Nat /\ Stalls \in BOOLEAN

VARIABLES
  session,   \* session[p][q]: p's active handle for q, 0 without one
  sessions,  \* how many there were
  nonce,     \* nonce[p][a]: of p's next message of action a
  loops,     \* loops of send() that wait for their channel to drain
  chan,      \* chan[p][q]: chunks on their way from p to q, in order
  partial,   \* partial[q][p][a][n]: what q has of p's message with nonce n
  aborted,   \* messages whose AbortSignal was raised
  cut,       \* history: messages not sent to the end in their session
  spoiled    \* history: messages whose data could not be parsed

wireVars == <<session, sessions, nonce, loops, chan, partial, aborted, cut,
              spoiled>>

-----------------------------------------------------------------------------
\* The part of a message that is tagged as the last.
LastPart(m) == Chunks[m.action]

\* The next k chunks of loop l.
chunksOf(l, k) ==
  [i \in 1..k |-> [msg |-> l.msg, nonce |-> l.nonce, part |-> l.next + i - 1]]

\* What remains of l after k chunks: nothing when it was the last one.
Remaining(l, k) ==
  {x \in {[l EXCEPT !.next = @ + k]} : x.next <= LastPart(l.msg)}

\* Sends k chunks of l; the channel is full then, or the message at its end.
push(l, k) ==
  /\ chan' = [chan EXCEPT ![l.from][l.to] = @ \o chunksOf(l, k)]
  /\ loops' = (loops \ {l}) \cup Remaining(l, k)

\* Bound: the nonces do not come round while a message is being sent.
NonceFree(p, a) ==
  \A l \in loops :
    l.from = p /\ l.msg.action = a => l.nonce # nonce[p][a]

\* Mutant of nextNonce: it does not wrap.
nextNonceUnbounded(n) == n + 1

nextNonce(n) == (n + 1) % NonceMod

\* send() to a peer that is there: as many chunks as there is room for.
send(p, q, m) ==
  LET l == [msg |-> m, from |-> p, to |-> q, session |-> session[p][q],
            nonce |-> nonce[p][m.action], next |-> 0]
  IN  /\ session[p][q] # 0
      /\ NonceFree(p, m.action)
      /\ \E k \in 0..LastPart(m) + 1 : push(l, k)
      /\ nonce' = [nonce EXCEPT ![p][m.action] = nextNonce(@)]

\* Mutant of MayContinue: the handle is not compared.
MayContinueOnAny(l) ==
  /\ l.msg \notin aborted
  /\ session[l.from][l.to] # 0

\* Whether a loop may go on: not aborted, and the handle is still the one.
MayContinue(l) ==
  /\ l.msg \notin aborted
  /\ session[l.from][l.to] = l.session

\* The channel has drained: at least one chunk, without a further look at it.
drained(l) ==
  /\ MayContinue(l)
  /\ \E k \in 1..LastPart(l.msg) - l.next + 1 : push(l, k)
  /\ UNCHANGED <<session, sessions, nonce, partial, aborted, cut, spoiled>>

\* The loop finds that it was aborted, that the peer has gone, or that the
\* channel does not drain in time; send() rejects in the first case only.
stopped(l) ==
  /\ ~MayContinue(l) \/ Stalls
  /\ loops' = loops \ {l}
  /\ cut' = cut \cup {l.msg}
  /\ UNCHANGED <<session, sessions, nonce, chan, partial, aborted, spoiled>>

-----------------------------------------------------------------------------
Nothing == [meta |-> None, chunks |-> <<>>]
Fresh == [a \in Actions |-> [n \in 0..NonceMod - 1 |-> Nothing]]

\* handleData: the entry of a chunk c from p at q, with c added.
assembled(p, q, c) ==
  LET target == partial[q][p][c.msg.action][c.nonce]
  IN  IF c.part = 0 THEN [target EXCEPT !.meta = c.msg]
                    ELSE [target EXCEPT !.chunks = Append(@, c)]

IsLast(c) == c.part = LastPart(c.msg)

\* handleData: what is left of the entry of c when c has been handled.
kept(p, q, c) == IF IsLast(c) THEN Nothing ELSE assembled(p, q, c)

\* handleData: canReceiveFromPeer, then reassembly.  The entry of a message
\* goes with its last chunk, before its data is parsed.
handleData(p, q) ==
  LET c == Head(chan[p][q])
  IN  /\ chan' = [chan EXCEPT ![p][q] = Tail(@)]
      /\ IF session[q][p] = 0
           THEN UNCHANGED partial
           ELSE partial' =
                  [partial EXCEPT
                     ![q][p][c.msg.action][c.nonce] = kept(p, q, c)]
      /\ UNCHANGED <<session, sessions, nonce, loops, aborted, cut>>

\* Whether the next chunk from p completes a message at q.
Completes(p, q) ==
  chan[p][q] # <<>> /\ session[q][p] # 0 /\ IsLast(Head(chan[p][q]))

\* What q then makes of it.
payload(p, q) == assembled(p, q, Head(chan[p][q]))

\* Data of another message is in it.
Garbled(p, q) ==
  \E i \in DOMAIN payload(p, q).chunks :
    payload(p, q).chunks[i].msg # Head(chan[p][q]).msg

\* fromJson throws on what the next chunk completes, as it mostly does on JSON
\* with other data in it: handleData ends there, and nobody is told.
throws(p, q) ==
  /\ Completes(p, q) /\ Garbled(p, q)
  /\ spoiled' = spoiled \cup {Head(chan[p][q]).msg}

\* clearPeer, when p's room loses q.
clearTransmissions(p, q) ==
  partial' = [partial EXCEPT ![p][q] = Fresh]

\* p's room exits q: q has left, the connection closed, or p did.
exitPeer(p, q) ==
  /\ session[p][q] # 0
  /\ sessions < MaxSessions \/ session[q][p] = 0
  /\ session' = [session EXCEPT ![p][q] = 0]
  /\ clearTransmissions(p, q)
  /\ UNCHANGED <<sessions, nonce, loops, chan, aborted, cut, spoiled>>

\* Both rooms have admitted each other.
activate(p, q) ==
  /\ p # q /\ sessions < MaxSessions
  /\ session[p][q] = 0 /\ session[q][p] = 0
  /\ sessions' = sessions + 1
  /\ session' = [session EXCEPT ![p][q] = sessions + 1, ![q][p] = sessions + 1]
  /\ chan' = [chan EXCEPT ![p][q] = <<>>, ![q][p] = <<>>]
  /\ UNCHANGED <<nonce, loops, partial, aborted, cut, spoiled>>

\* What is left of a message of which the last chunk was never sent.
Leftover(m) ==
  [meta |-> m,
   chunks |-> [i \in 1..LastPart(m) - 1 |->
                 [msg |-> m, nonce |-> 0, part |-> i]]]

\* Peers that may have met, and then sent so many messages that who's nonces have
\* come round, to that of one in past that was aborted.
WireInit(who, past) ==
  /\ nonce = [p \in Peers |-> [a \in Actions |-> 0]]
  /\ loops = {} /\ cut = past /\ aborted = past /\ spoiled = {}
  /\ chan = [p \in Peers |-> [q \in Peers |-> <<>>]]
  /\ IF past = {}
       THEN /\ sessions = 0
            /\ session = [p \in Peers |-> [q \in Peers |-> 0]]
            /\ partial = [q \in Peers |-> [p \in Peers |-> Fresh]]
       ELSE /\ sessions = 1
            /\ session = [p \in Peers |-> [q \in Peers |->
                            IF p # q THEN 1 ELSE 0]]
            /\ \E q \in Peers, m \in past :
                 who # q /\ partial = [x \in Peers |-> [y \in Peers |->
                   IF <<x, y>> = <<q, who>>
                     THEN [Fresh EXCEPT ![m.action][0] = Leftover(m)]
                     ELSE Fresh]]

-----------------------------------------------------------------------------
Chunk(Messages) ==
  {c \in [msg : Messages, nonce : 0..NonceMod - 1, part : Nat] :
     c.part <= LastPart(c.msg)}

WireTypeOK(Messages) ==
  /\ session \in [Peers -> [Peers -> 0..MaxSessions]]
  /\ sessions \in 0..MaxSessions
  /\ nonce \in [Peers -> [Actions -> 0..NonceMod - 1]]
  /\ loops \subseteq [msg : Messages, from : Peers, to : Peers,
                      session : 1..MaxSessions, nonce : 0..NonceMod - 1,
                      next : Nat]
  /\ \A l \in loops : l.next <= LastPart(l.msg)
  /\ chan \in [Peers -> [Peers -> Seq(Chunk(Messages))]]
  /\ partial \in [Peers -> [Peers -> [Actions -> [0..NonceMod - 1 ->
                    [meta : Messages \cup {None}, chunks : Seq(Chunk(Messages))]]]]]
  /\ aborted \subseteq Messages /\ cut \subseteq Messages

\* A message that is complete has its own metadata and its own data, all of
\* it and in order.  Nonces come round, connections come and go and chunks of
\* different messages alternate, but the data of another message gets into it
\* only when that one was never sent to its end (action-wire.ts:427-447).
Whole ==
  \A p, q \in Peers :
    Completes(p, q) =>
      LET m == Head(chan[p][q]).msg
          chunks == payload(p, q).chunks
          own == {i \in DOMAIN chunks : chunks[i].msg = m}
      IN  /\ payload(p, q).meta = m
          /\ \A i \in DOMAIN chunks \ own : chunks[i].msg \in cut
          /\ {chunks[i].part : i \in own} = 1..LastPart(m)
          /\ \A i, k \in own : i < k => chunks[i].part < chunks[k].part
=============================================================================
