------------------------- MODULE SubscriptionClient -------------------------
(***************************************************************************)
(* The subscription core composed: callers holding Subscription handles,   *)
(* the driver task that owns the SubscriptionRouter, and the remote        *)
(* endpoint, connected by channels.                                        *)
(*                                                                         *)
(*   caller --cmds (subscribe)--> driver --outbound--> server              *)
(*   caller --ctl (TerminateSubscription)--> driver                        *)
(*   server --inbound (responses and events, one ordered stream)--> driver *)
(*   driver --event / result channels (router state)--> caller             *)
(*                                                                         *)
(* Every subscription id is used by one caller for one subscribe call      *)
(* (SubscriptionId::default() is a fresh random UUID) and is also the      *)
(* JSON-RPC id of its subscribe and of its unsubscribe request.  The       *)
(* driver is single-threaded: each driver action runs one router method    *)
(* to completion.  The driver can be closed (spec section 4.4), and the    *)
(* inbound stream may deliver up to MaxDup duplicates of responses.        *)
(***************************************************************************)
EXTENDS SubscriptionRouter

SeqExt == INSTANCE SequencesExt

CONSTANTS
    MaxDup,        \* bound on the duplicated responses the stream delivers
    BlockingSends, \* a send to a full bounded event channel waits for room
    OneSubPerQuery \* the server refuses a subscribe to a query it serves

ASSUME MaxDup \in Nat /\ BlockingSends \in BOOLEAN /\ OneSubPerQuery \in BOOLEAN

VARIABLES
    caller,      \* caller[id]: where the caller of subscription id is
    query,       \* query[id]: the query that caller subscribes to
    cmds,        \* subscribe commands, caller -> driver
    ctl,         \* TerminateSubscription messages, caller -> driver
    outbound,    \* JSON-RPC requests, driver -> server
    inbound,     \* responses and events, server -> driver
    serverSubs,  \* queries the server holds a subscription for
    evCount,     \* events the server has pushed so far
    closed,      \* the driver has been closed and the router dropped
    dupCount,    \* duplicated responses delivered so far
    serverLog    \* history: every response the server produced

faultVars  == <<closed, dupCount, serverLog>>
clientVars == <<caller, query, cmds, ctl, outbound, inbound, serverSubs, evCount,
                faultVars>>
vars == <<rvars, clientVars>>

CallerStates == {"idle", "subscribing", "holding", "terminating", "done"}
Request  == [kind : Kinds, id : Ids, query : Queries]
\* A response carries the request id and the outcome; `kind` records which
\* request it answers, for the properties only: the driver never reads it.
Response == [type : {"response"}, id : Ids, kind : Kinds, ok : BOOLEAN]
EventMsg == [type : {"event"}, ev : Event]

\* struct TerminateSubscription { id, query, result_tx }; the subscribe
\* command carries the same fields.
TerminateSubscription == [id : Ids, query : Queries]

TypeOK ==
    /\ RouterTypeOK
    /\ \A id \in Ids : SubscriptionState(id) \in SubscriptionStates
    /\ caller \in [Ids -> CallerStates]
    /\ query \in [Ids -> Queries]
    /\ cmds \in Seq(TerminateSubscription)
    /\ ctl \in Seq(TerminateSubscription)
    /\ outbound \in Seq(Request)
    /\ inbound \in Seq(Response \cup EventMsg)
    /\ serverSubs \subseteq Queries
    /\ evCount \in 0..MaxEvents
    /\ closed \in BOOLEAN
    /\ dupCount \in 0..MaxDup
    /\ serverLog \subseteq Response

Init ==
    /\ RouterInit
    /\ caller = [id \in Ids |-> "idle"]
    /\ query \in [Ids -> Queries]
    /\ cmds = <<>> /\ ctl = <<>> /\ outbound = <<>> /\ inbound = <<>>
    /\ serverSubs = {}
    /\ evCount = 0
    /\ closed = FALSE /\ dupCount = 0 /\ serverLog = {}

-----------------------------------------------------------------------------
(* Callers.  A caller's event channel (with its capacity) and its result   *)
(* channels exist from the start; the caller only uses them from its       *)
(* subscribe call on.                                                      *)

SubChan(id)   == <<id, "subscribe">>
UnsubChan(id) == <<id, "unsubscribe">>

\* Some task still holds the sender of result channel r: the command that
\* carries it is queued for the driver, or the router keeps it in a pending
\* entry.  When none does, recv on r returns None once r is empty.
ResultTxHeld(r) ==
    LET id == r[1] IN
    IF r[2] = "subscribe"
    THEN id \in DOMAIN pendingSubscribe \/ \E i \in 1..Len(cmds) : cmds[i].id = id
    ELSE id \in DOMAIN pendingUnsubscribe \/ \E i \in 1..Len(ctl) : ctl[i].id = id

\* The caller's wait on result channel r is over: a value arrived, or every
\* sender is gone.
ResultReady(r) == resq[r] # <<>> \/ ~ResultTxHeld(r)

\* subscribe_with_buf_size: hand event_tx and result_tx to the driver.
CallSubscribe(id) ==
    /\ ~closed
    /\ caller[id] = "idle"
    /\ caller' = [caller EXCEPT ![id] = "subscribing"]
    /\ cmds' = Append(cmds, [id |-> id, query |-> query[id]])
    /\ UNCHANGED <<rvars, query, ctl, outbound, inbound, serverSubs, evCount,
                   faultVars>>

\* The subscribe call returns with the router's answer, or with an error
\* when its result_tx was dropped unanswered.  On Err the caller drops
\* event_rx; in both cases result_rx goes out of scope.
SubscribeReturns(id) ==
    /\ caller[id] = "subscribing"
    /\ ResultReady(SubChan(id))
    /\ LET ok == resq[SubChan(id)] # <<>> /\ Head(resq[SubChan(id)]) = "Ok" IN
       /\ caller' = [caller EXCEPT ![id] = IF ok THEN "holding" ELSE "done"]
       /\ rxOpen' = [rxOpen EXCEPT ![id] = ok]
       /\ evq' = IF ok THEN evq ELSE [evq EXCEPT ![id] = <<>>]
    /\ resq' = [resq EXCEPT ![SubChan(id)] = <<>>]
    /\ resOpen' = [resOpen EXCEPT ![SubChan(id)] = FALSE]
    /\ UNCHANGED <<routerVars, cap, historyVars, query, cmds, ctl,
                   outbound, inbound, serverSubs, evCount, faultVars>>

\* A caller racing the subscribe against a timer gives up and drops both
\* receivers (spec section 5, "Cancellation and timeouts").
SubscribeTimeout(id) ==
    /\ caller[id] = "subscribing"
    /\ caller' = [caller EXCEPT ![id] = "done"]
    /\ rxOpen' = [rxOpen EXCEPT ![id] = FALSE]
    /\ evq' = [evq EXCEPT ![id] = <<>>]
    /\ resOpen' = [resOpen EXCEPT ![SubChan(id)] = FALSE]
    /\ resq' = [resq EXCEPT ![SubChan(id)] = <<>>]
    /\ UNCHANGED <<routerVars, cap, historyVars, query, cmds, ctl,
                   outbound, inbound, serverSubs, evCount, faultVars>>

\* Stream::poll_next on the handle.
NextEvent(id) ==
    /\ caller[id] = "holding"
    /\ RecvEvent(id)
    /\ UNCHANGED clientVars

\* Dropping the handle without terminate: only event_rx goes away.
DropHandle(id) ==
    /\ caller[id] = "holding"
    /\ caller' = [caller EXCEPT ![id] = "done"]
    /\ DropEventRx(id)
    /\ UNCHANGED <<query, cmds, ctl, outbound, inbound, serverSubs, evCount,
                   faultVars>>

\* Subscription::terminate, first half: send TerminateSubscription on the
\* control channel.  The handle, event_rx included, now lives inside the
\* terminate future, which no longer polls it.  When the driver is gone
\* the send fails, terminate returns the error and the handle is dropped.
Terminate(id) ==
    /\ caller[id] = "holding"
    /\ \/ /\ ~closed
          /\ caller' = [caller EXCEPT ![id] = "terminating"]
          /\ ctl' = Append(ctl, [id |-> id, query |-> query[id]])
          /\ UNCHANGED <<rvars, query, cmds, outbound, inbound, serverSubs,
                         evCount, faultVars>>
       \/ /\ closed
          /\ caller' = [caller EXCEPT ![id] = "done"]
          /\ DropEventRx(id)
          /\ UNCHANGED <<query, cmds, ctl, outbound, inbound, serverSubs,
                         evCount, faultVars>>

\* Subscription::terminate, second half: result_rx.recv() yields the
\* driver's answer, or None ("failed to hear back ...") when the result_tx
\* was dropped unanswered; the consumed handle is dropped.
TerminateReturns(id) ==
    /\ caller[id] = "terminating"
    /\ ResultReady(UnsubChan(id))
    /\ caller' = [caller EXCEPT ![id] = "done"]
    /\ resq' = [resq EXCEPT ![UnsubChan(id)] = <<>>]
    /\ resOpen' = [resOpen EXCEPT ![UnsubChan(id)] = FALSE]
    /\ rxOpen' = [rxOpen EXCEPT ![id] = FALSE]
    /\ evq' = [evq EXCEPT ![id] = <<>>]
    /\ UNCHANGED <<routerVars, cap, historyVars, query, cmds, ctl,
                   outbound, inbound, serverSubs, evCount, faultVars>>

-----------------------------------------------------------------------------
(* The driver: one step per message taken from one of its inputs.          *)

\* SubscriptionTransport::subscribe / unsubscribe: the request, with the
\* subscription id as its JSON-RPC id, goes out on the connection.
TransportSubscribe(id, q) ==
    outbound' = Append(outbound, [kind |-> "subscribe", id |-> id, query |-> q])
TransportUnsubscribe(id, q) ==
    outbound' = Append(outbound, [kind |-> "unsubscribe", id |-> id, query |-> q])

\* A subscribe command: send the request, then pending_add keyed by the id.
DriverSubscribe ==
    /\ ~closed
    /\ cmds # <<>>
    /\ LET c == Head(cmds) IN
       /\ TransportSubscribe(c.id, c.query)
       /\ PendingAdd(c.id, c.id, c.query)
    /\ cmds' = Tail(cmds)
    /\ UNCHANGED <<caller, query, ctl, inbound, serverSubs, evCount, faultVars>>

\* A TerminateSubscription: send the unsubscribe request, then
\* pending_remove keyed by the id.
DriverTerminate ==
    /\ ~closed
    /\ ctl # <<>>
    /\ LET t == Head(ctl) IN
       /\ TransportUnsubscribe(t.id, t.query)
       /\ PendingRemove(t.id, t.id, t.query)
    /\ ctl' = Tail(ctl)
    /\ UNCHANGED <<caller, query, cmds, inbound, serverSubs, evCount, faultVars>>

\* A response carries only the request id; subscription_state tells a
\* subscribe answer from an unsubscribe answer.
HandleResponse(m) ==
    CASE SubscriptionState(m.id) = "Pending" ->
             IF m.ok THEN ConfirmAdd(m.id) ELSE CancelAdd(m.id)
      [] SubscriptionState(m.id) = "Cancelling" ->
             IF m.ok THEN ConfirmRemove(m.id) ELSE CancelRemove(m.id)
      [] OTHER -> UNCHANGED rvars

DriverInbound ==
    /\ ~closed
    /\ inbound # <<>>
    /\ LET m == Head(inbound) IN
       CASE m.type = "event" /\ ~BlockingSends -> Publish(m.ev)
         [] m.type = "event" /\ BlockingSends  -> PublishBlocking(m.ev)
         [] OTHER                              -> HandleResponse(m)
    /\ inbound' = Tail(inbound)
    /\ UNCHANGED <<caller, query, cmds, ctl, outbound, serverSubs, evCount,
                   faultVars>>

\* ClosableTransport::close: the driver stops and drops the router with
\* every event sink and every pending result_tx (spec section 4.4), and its
\* queues and connection with it.
Close ==
    /\ ~closed
    /\ closed' = TRUE
    /\ subscriptions' = <<>>
    /\ pendingSubscribe' = <<>>
    /\ pendingUnsubscribe' = <<>>
    /\ cmds' = <<>> /\ ctl' = <<>> /\ outbound' = <<>> /\ inbound' = <<>>
    /\ UNCHANGED <<chanVars, historyVars, caller, query, serverSubs, evCount,
                   dupCount, serverLog>>

-----------------------------------------------------------------------------
(* The remote endpoint.  It answers requests in order.  An unsubscribe     *)
(* for a query it does not serve fails, and, when OneSubPerQuery holds (a  *)
(* Tendermint node: "already subscribed"), so does a subscribe for a query *)
(* it already serves; any request may also fail for reasons of its own.   *)
(* It keeps one subscription per query, pushes one event per query, and   *)
(* an unsubscribe ends the query's subscription.  Without OneSubPerQuery  *)
(* two callers can be routed under one query and publish fans out.        *)

ServerRequest ==
    /\ ~closed
    /\ outbound # <<>>
    /\ LET r == Head(outbound)
           held == r.query \in serverSubs
       IN \E ok \in BOOLEAN :
            LET resp == [type |-> "response", id |-> r.id, kind |-> r.kind,
                         ok |-> ok]
            IN
            /\ ok => (IF r.kind = "subscribe" THEN OneSubPerQuery => ~held
                                             ELSE held)
            /\ serverSubs' = CASE ~ok                  -> serverSubs
                               [] r.kind = "subscribe" -> serverSubs \cup {r.query}
                               [] OTHER                -> serverSubs \ {r.query}
            /\ inbound' = Append(inbound, resp)
            /\ serverLog' = serverLog \cup {resp}
    /\ outbound' = Tail(outbound)
    /\ UNCHANGED <<rvars, caller, query, cmds, ctl, evCount, closed, dupCount>>

\* The stream delivers again a response it already delivered (confirm_add
\* and the other confirm/cancel methods are no-ops for an unknown req_id,
\* spec section 4.3.4, to tolerate this).
ServerDuplicate ==
    /\ ~closed
    /\ dupCount < MaxDup
    /\ \E m \in serverLog : inbound' = Append(inbound, m)
    /\ dupCount' = dupCount + 1
    /\ UNCHANGED <<rvars, caller, query, cmds, ctl, outbound, serverSubs,
                   evCount, closed, serverLog>>

ServerEvent(q) ==
    /\ ~closed
    /\ q \in serverSubs
    /\ evCount < MaxEvents
    /\ evCount' = evCount + 1
    /\ inbound' = Append(inbound, [type |-> "event",
                                   ev |-> [n |-> evCount + 1, query |-> q]])
    /\ UNCHANGED <<rvars, caller, query, cmds, ctl, outbound, serverSubs,
                   faultVars>>

-----------------------------------------------------------------------------

\* Every caller has finished (or, after close, never started) and every
\* channel between the tasks is empty: the client sits idle.
Quiescent ==
    /\ \A id \in Ids : caller[id] = "done" \/ (closed /\ caller[id] = "idle")
    /\ cmds = <<>> /\ ctl = <<>> /\ outbound = <<>> /\ inbound = <<>>

Next ==
    \/ \E id \in Ids :
          \/ CallSubscribe(id) \/ SubscribeReturns(id) \/ SubscribeTimeout(id)
          \/ NextEvent(id) \/ DropHandle(id)
          \/ Terminate(id) \/ TerminateReturns(id)
    \/ DriverSubscribe \/ DriverTerminate \/ DriverInbound \/ Close
    \/ ServerRequest \/ ServerDuplicate
    \/ \E q \in Queries : ServerEvent(q)
    \/ Quiescent /\ UNCHANGED vars

Spec == Init /\ [][Next]_vars

\* The driver task and the server are scheduled fairly; a caller awaiting
\* a result is woken when it arrives.  What callers choose to do (call,
\* drop, terminate, time out), closing the client, duplicates and when the
\* server pushes events are left unconstrained.
FairSpec ==
    /\ Spec
    /\ WF_vars(DriverSubscribe) /\ WF_vars(DriverTerminate)
    /\ WF_vars(DriverInbound) /\ WF_vars(ServerRequest)
    /\ \A id \in Ids : WF_vars(SubscribeReturns(id)) /\ WF_vars(TerminateReturns(id))

-----------------------------------------------------------------------------
(* Properties.                                                             *)

\* The numbers of the events on query q that publish was called with after
\* the first k calls.
PublishedSince(q, k) ==
    LET later == SelectSeq(SubSeq(pubLog, k + 1, Len(pubLog)),
                           LAMBDA e : e.query = q)
    IN [i \in 1..Len(later) |-> later[i].n]

\* Delivery is exact (spec sections 4.3.1, 5 and 8): what publish ever put
\* on a subscription's event channel is, in publish order and without gaps,
\* a prefix of the events published on its query since confirm_add made it
\* active -- nothing from its pending phase, nothing twice, nothing after a
\* skipped one -- and while it is still in the routing table it is all of
\* them.  A failed send that left the sink in place, or a sink installed
\* before the server's acknowledgement, breaks it.
DeliveryExact ==
    \A id \in Ids :
        LET since == PublishedSince(query[id], addedAt[id]) IN
        /\ SeqExt!IsPrefix(delivered[id], since)
        /\ IsActive(id) => delivered[id] = since

\* Subscription::terminate returns: once a caller has sent its
\* TerminateSubscription, the driver routes the server's answer back to it
\* (through subscription_state and confirm_remove / cancel_remove).
TerminateCompletes ==
    \A id \in Ids : caller[id] = "terminating" ~> caller[id] = "done"

\* subscribe returns: the driver's pending_add and the server's answer
\* through confirm_add / cancel_add always reach the waiting caller.
SubscribeResolves ==
    \A id \in Ids : caller[id] = "subscribing" ~> caller[id] # "subscribing"

\* The router keeps no pending subscribe forever: the server's late answer
\* reaches confirm_add or cancel_add even when the caller has timed out and
\* dropped its receivers, and the entry (with the event_tx and result_tx it
\* owns) leaves pending_subscribe.
PendingEventuallyCleared ==
    \A id \in Ids : id \in DOMAIN pendingSubscribe ~> id \notin DOMAIN pendingSubscribe

\* Every answer a caller is sent is the server's answer to that caller's
\* own request: an Ok or Err on the result channel of id's unsubscribe was
\* produced by the server for id's unsubscribe request, and likewise for
\* subscribe.  The driver cannot tell which request a response answers; it
\* asks subscription_state, and the subscribe and the unsubscribe of a
\* subscription share the request id.
AnswersGenuine ==
    \A r \in ResultChans : \A i \in DOMAIN answered[r] :
        [type |-> "response", id |-> r[1], kind |-> r[2],
         ok |-> answered[r][i] = "Ok"] \in serverLog

-----------------------------------------------------------------------------
(* Refinement of the abstract lifecycle.                                   *)

\* The driver has run pending_add for id: the caller has called subscribe
\* and its command is no longer queued.
Born(id) == caller[id] # "idle" /\ \A i \in 1..Len(cmds) : cmds[i].id # id

\* The abstract phase of id, read off subscription_state and is_active.
Phase(id) ==
    CASE SubscriptionState(id) = "Pending"    -> "Pending"
      [] SubscriptionState(id) = "Cancelling" ->
             IF IsActive(id) THEN "Cancelling" ELSE "CancellingGone"
      [] SubscriptionState(id) = "Active"     -> "Active"
      [] OTHER -> IF Born(id) THEN "Closed" ELSE "NotFound"

Lifecycle == INSTANCE SubscriptionLifecycle
                 WITH phase <- [id \in Ids |-> Phase(id)], answers <- answered

\* The composed client implements the abstract lifecycle: every step of
\* the driver moves a subscription only along the lifecycle's transitions,
\* and exactly the router's sends on result channels are the answers that
\* go with them -- Ok to a subscribe exactly when it becomes routed, Ok to
\* an unsubscribe exactly when it stops being routed, Err when nothing
\* changes.  It ties confirm_add, cancel_add, confirm_remove, cancel_remove,
\* subscription_state and the driver's routing of answers together.
LifecycleRefined == Lifecycle!Spec

\* A subscriber that still holds its handle -- it has neither dropped it nor
\* called terminate -- is still routed to while the driver runs.  The TODO in publish says full
\* channels must be handled differently from disconnected ones; spec
\* section 9 asks that a transiently full sink not be evicted silently.
HeldSubscriptionRouted ==
    \A id \in Ids : caller[id] = "holding" /\ ~closed => IsActive(id)

=============================================================================
