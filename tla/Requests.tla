------------------------------ MODULE Requests ------------------------------
(***************************************************************************)
(* Requests and responses (actions.ts) over the action wire.               *)
(*                                                                         *)
(* A request is a message whose metadata is its id.  Its promise is        *)
(* settled by the response with that id, by its AbortSignal, by its timer, *)
(* which runs from the moment the request has been sent, or when the room  *)
(* loses the peer.  The other side hands it to the action's onRequest;     *)
(* while there is none it keeps it for a while and then refuses it.  The   *)
(* handler is the application's: it may take any time, return or fail.     *)
(*                                                                         *)
(* One action of kind "request"; values are told apart by the message they *)
(* come with.                                                              *)
(***************************************************************************)
EXTENDS ActionWire

CONSTANTS
  Requesters,  \* peers that make requests
  Ids,         \* the requests made in a behaviour (bound)
  Timed,       \* those with a timeoutMs
  Past         \* requests that were aborted half-sent before

ASSUME RequestsAssumption ==
  /\ Requesters \subseteq Peers
  /\ Timed \subseteq Ids /\ Past \cap Ids = {}
  /\ Actions = {"request", "@_response"}
  /\ Past # {} => MaxSessions > 0

VARIABLES
  promise,    \* what became of each request
  asked,      \* who asked whom, in which session
  waiters,    \* pendingRequestWaiters: ids, each with a promise to settle
  onRequest,  \* who has a handler
  queued,     \* pendingRequests: <<q, p, id>>, kept at q
  running,    \* handlers that run: <<q, p, id>>
  taken       \* history: what was done about each request at the other side

vars == <<wireVars, promise, asked, waiters, onRequest, queued, running, taken>>

\* A request that was not made, or whose promise is pending, or how it settled.
Outcomes == {"fulfilled", "rejected", "timeout", "disconnected", "aborted"}

Request(id) == [action |-> "request", id |-> id, failed |-> FALSE]
Response(id, failed) == [action |-> "@_response", id |-> id, failed |-> failed]
Messages == [action : {"request"}, id : Ids \cup Past, failed : {FALSE}]
              \cup [action : {"@_response"}, id : Ids, failed : BOOLEAN]

\* Peers that can be asked: the handlers of others make no difference.
Asked == {q \in Peers : Requesters \ {q} # {}}

Sending(m) == \E l \in loops : l.msg = m

-----------------------------------------------------------------------------
\* Settles the promises of ids: clearPendingRequestWaiter, resolve or reject.
settle(ids, outcome) ==
  /\ waiters' = waiters \ ids
  /\ promise' = [id \in Ids |-> IF id \in ids THEN outcome ELSE promise[id]]

\* requestOne
requestOne(p, q, id) ==
  /\ promise[id] = "none"
  /\ asked' = [asked EXCEPT ![id] = [by |-> p, of |-> q, session |-> session[p][q]]]
  /\ promise' = [promise EXCEPT ![id] = "pending"]
  /\ waiters' = waiters \cup {id}
  /\ send(p, q, Request(id))
  /\ UNCHANGED <<session, sessions, partial, aborted, cut, spoiled>>
  /\ UNCHANGED <<onRequest, queued, running, taken>>

\* rejectAsAborted, for a request whose signal is raised before it settled.
rejectAsAborted(id) ==
  /\ id \in waiters
  /\ settle({id}, "aborted")
  /\ aborted' = aborted \cup {Request(id)}
  /\ UNCHANGED <<session, sessions, nonce, loops, chan, partial, cut, spoiled>>
  /\ UNCHANGED <<asked, onRequest, queued, running, taken>>

\* Mutant of TimerRuns: only a message sent to its end starts the timer.
TimerRunsIfSent(id) ==
  /\ id \in Timed \cap waiters
  /\ ~Sending(Request(id)) /\ Request(id) \notin cut

\* The timer of a request, armed when send() has resolved, which it also does
\* when it has given up.
TimerRuns(id) == id \in Timed \cap waiters /\ ~Sending(Request(id))

timeOut(id) ==
  /\ TimerRuns(id)
  /\ settle({id}, "timeout")
  /\ UNCHANGED wireVars
  /\ UNCHANGED <<asked, onRequest, queued, running, taken>>

-----------------------------------------------------------------------------
\* The id in the metadata of what is completed, as getRequestMetadata and
\* getResponseMetadata read it.
Meta(p, q) == payload(p, q).meta

\* Mutant of settledBy: the waiter of whoever asked this peer.
settledByPeer(p, q) == {id \in waiters : asked[id].of = p /\ asked[id].by = q}

\* The waiter a response from p at q is for.
settledBy(p, q) ==
  {id \in waiters : id = Meta(p, q).id /\ asked[id].of = p}

\* responseAction.onMessage
receiveResponse(p, q) ==
  /\ settle(settledBy(p, q), IF Meta(p, q).failed THEN "rejected" ELSE "fulfilled")
  /\ UNCHANGED <<queued, running, taken>>

\* The handler of q takes requests: respondToIncomingRequest of each.
handle(requests) ==
  /\ running' = running \cup requests
  /\ taken' = [id \in Ids |-> IF \E x \in requests : x[3] = id
                                THEN Append(taken[id], "handled") ELSE taken[id]]

\* queueIncomingRequest
queueIncomingRequest(p, q) ==
  LET x == <<q, p, Meta(p, q).id>>
  IN  /\ IF onRequest[q] THEN handle({x}) /\ UNCHANGED queued
                         ELSE /\ queued' = queued \cup {x}
                              /\ UNCHANGED <<running, taken>>
      /\ UNCHANGED <<promise, waiters>>

\* A message is complete: onComplete of its action.
complete(p, q) ==
  IF Head(chan[p][q]).msg.action = "request" THEN queueIncomingRequest(p, q)
                                             ELSE receiveResponse(p, q)

\* A chunk from p arrives at q.  It may complete a message, which is handed on
\* unless its data cannot be parsed.
receive(p, q) ==
  /\ chan[p][q] # <<>>
  /\ handleData(p, q)
  /\ \/ /\ Completes(p, q)
        /\ complete(p, q)
        /\ UNCHANGED spoiled
     \/ /\ ~Completes(p, q)
        /\ UNCHANGED <<spoiled, promise, waiters, queued, running, taken>>
     \/ /\ throws(p, q)
        /\ UNCHANGED <<promise, waiters, queued, running, taken>>
  /\ UNCHANGED <<asked, onRequest>>

Of(q) == {x \in queued : x[1] = q}

\* The setter of onRequest, with a handler: flushRequests.
setHandler(q) ==
  /\ ~onRequest[q]
  /\ onRequest' = [onRequest EXCEPT ![q] = TRUE]
  /\ handle(Of(q))
  /\ queued' = queued \ Of(q)
  /\ UNCHANGED wireVars /\ UNCHANGED <<promise, asked, waiters>>

\* And with null.
unsetHandler(q) ==
  /\ onRequest[q]
  /\ onRequest' = [onRequest EXCEPT ![q] = FALSE]
  /\ UNCHANGED wireVars
  /\ UNCHANGED <<promise, asked, waiters, queued, running, taken>>

\* responseAction.send: nothing is sent to a peer that has gone.
respond(q, p, m) ==
  /\ IF session[q][p] # 0 THEN send(q, p, m)
                          ELSE UNCHANGED <<nonce, loops, chan>>
  /\ UNCHANGED <<session, sessions, partial, aborted, cut, spoiled>>

\* The handler returns a value, or fails: it throws, or returns undefined.
handlerReturns(x) ==
  /\ \E failed \in BOOLEAN :
       /\ respond(x[1], x[2], Response(x[3], failed))
       /\ taken' = [taken EXCEPT ![x[3]] =
                      Append(@, IF failed THEN "failed" ELSE "returned")]
  /\ running' = running \ {x}
  /\ UNCHANGED <<promise, asked, waiters, onRequest, queued>>

\* Mutant of dequeued: a request that is refused stays in the queue.
dequeuedNot(x) == queued

\* removePendingIncomingRequest
dequeued(x) == queued \ {x}

\* No handler was set in time: "request handler unavailable".
refuse(x) ==
  /\ respond(x[1], x[2], Response(x[3], TRUE))
  /\ queued' = dequeued(x)
  /\ taken' = [taken EXCEPT ![x[3]] = Append(@, "refused")]
  /\ UNCHANGED <<promise, asked, waiters, onRequest, running>>

\* Mutant of rejected: those that wait for a response only.
rejectedIfSent(p, q) ==
  {id \in waiters : asked[id].by = p /\ asked[id].of = q /\ ~Sending(Request(id))}

\* rejectPendingRequestsForPeer
rejected(p, q) == {id \in waiters : asked[id].by = p /\ asked[id].of = q}

\* clearPeer: p's room loses q.
clearPeer(p, q) ==
  /\ exitPeer(p, q)
  /\ settle(rejected(p, q), "disconnected")
  /\ UNCHANGED <<asked, onRequest, queued, running, taken>>

-----------------------------------------------------------------------------
Init ==
  /\ \E p \in Requesters : WireInit(p, {Request(id) : id \in Past})
  /\ promise = [id \in Ids |-> "none"]
  /\ asked = [id \in Ids |-> None]
  /\ onRequest = [q \in Peers |-> FALSE]
  /\ waiters = {} /\ queued = {} /\ running = {}
  /\ taken = [id \in Ids |-> <<>>]

rest == <<promise, asked, waiters, onRequest, queued, running, taken>>

Next ==
  \/ \E p, q \in Peers : activate(p, q) /\ UNCHANGED rest
  \/ \E p, q \in Peers : clearPeer(p, q)
  \/ \E p \in Requesters, q \in Peers, id \in Ids : requestOne(p, q, id)
  \/ \E id \in Ids : rejectAsAborted(id)
  \/ \E id \in Ids : timeOut(id)
  \/ \E l \in loops : drained(l) /\ UNCHANGED rest
  \/ \E l \in loops : stopped(l) /\ UNCHANGED rest
  \/ \E p, q \in Peers : receive(p, q)
  \/ \E q \in Asked : setHandler(q)
  \/ \E q \in Asked : unsetHandler(q)
  \/ \E x \in running : handlerReturns(x)
  \/ \E x \in queued : refuse(x)

Spec == Init /\ [][Next]_vars

\* Channels deliver while both sides are there; a loop goes on when its channel
\* drains or its 10 s are over; timers fire; handlers return; and a peer that
\* left is noticed.
Fairness ==
  /\ \A p, q \in Peers : WF_vars(receive(p, q))
  /\ \A p, q \in Peers : WF_vars(session[q][p] = 0 /\ clearPeer(p, q))
  /\ \A m \in Messages :
       WF_vars(\E l \in loops :
                 l.msg = m /\ (drained(l) \/ stopped(l)) /\ UNCHANGED rest)
  /\ \A id \in Ids :
       /\ WF_vars(timeOut(id))
       /\ WF_vars(\E x \in running : x[3] = id /\ handlerReturns(x))
       /\ WF_vars(\E x \in queued : x[3] = id /\ refuse(x))

FairSpec == Spec /\ Fairness

-----------------------------------------------------------------------------
Dones == {<<>>, <<"handled">>, <<"handled", "returned">>, <<"handled", "failed">>,
          <<"refused">>}

TypeOK ==
  /\ WireTypeOK(Messages) /\ spoiled \subseteq Messages
  /\ promise \in [Ids -> Outcomes \cup {"none", "pending"}]
  /\ asked \in [Ids -> [by : Peers, of : Peers, session : Nat] \cup {None}]
  /\ waiters = {id \in Ids : promise[id] = "pending"}
  /\ onRequest \in [Peers -> BOOLEAN]
  /\ queued \subseteq Peers \X Peers \X Ids
  /\ running \subseteq Peers \X Peers \X Ids

\* The other side deals with a request at most once: it is handed to one
\* handler or refused, never both, whenever handlers are set and unset and
\* however late the 500 ms timer of its queue is (actions.ts:359-412).
HandledOnce == \A id \in Ids : taken[id] \in Dones

\* A promise is fulfilled only if the handler of the very peer that was asked
\* returned for this request, and rejected only if it failed or the request
\* was refused: late responses, and those to other requests, settle nothing
\* (actions.ts:216-237).
OutcomeTrue ==
  \A id \in Ids :
    /\ promise[id] = "fulfilled" => taken[id] = <<"handled", "returned">>
    /\ promise[id] = "rejected" =>
         taken[id] \in {<<"handled", "failed">>, <<"refused">>}

\* Nobody waits for a peer its room has lost, nor for an answer in a session
\* after the one the question was asked in (actions.ts:192-214, 488-515).
PendingHasPeer ==
  \A id \in waiters :
    session[asked[id].by][asked[id].of] = asked[id].session

\* Every request settles, except one without a timeout of which the question
\* or the answer was given up half-sent, or met what another such message had
\* left at its nonce and could not be parsed: nobody is told of either
\* (action-wire.ts:356-360, 440-446).
RequestsSettle ==
  \A id \in Ids :
    promise[id] = "pending" ~>
      \/ promise[id] \in Outcomes
      \/ id \notin Timed /\ \E m \in cut \cup spoiled : m.id = id
=============================================================================
