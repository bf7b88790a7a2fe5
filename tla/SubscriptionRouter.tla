------------------------- MODULE SubscriptionRouter -------------------------
(***************************************************************************)
(* The SubscriptionRouter of rpc/src/client/subscription.rs together with  *)
(* the channels it writes to.                                              *)
(*                                                                         *)
(* Router state (struct SubscriptionRouter):                               *)
(*   subscriptions      query -> set of subscription ids.  The inner       *)
(*                      HashMap<SubscriptionId, ChannelTx> is a set of ids *)
(*                      because every subscription id owns exactly one     *)
(*                      event channel, created with it, and every sink     *)
(*                      stored under an id is that id's channel.  Query    *)
(*                      keys are inserted by add and never removed.        *)
(*   pendingSubscribe   req id -> [id, query]  (PendingSubscribe)          *)
(*   pendingUnsubscribe req id -> [id, query]  (PendingUnsubscribe)        *)
(* Channel state (ChannelTx / ChannelRx, crate::client::sync):             *)
(*   evq[c], rxOpen[c], cap[c]   buffer, receiver alive, capacity (0 is    *)
(*                               unbounded) of event channel c             *)
(*   resq[r], resOpen[r]         buffer and receiver of result channel r;  *)
(*                               r = <<req id, "subscribe"|"unsubscribe">> *)
(* History variables, written only for the properties:                     *)
(*   pubLog        the events publish was called with, in order            *)
(*   delivered[c]  every event ever enqueued on event channel c            *)
(*   addedAt[c]    Len(pubLog) when c was last added to the routing table  *)
(*   answered[r]   every result the router sent, or tried to send, on r     *)
(***************************************************************************)
EXTENDS Naturals, Sequences, FiniteSets, Functions, TLC

CONSTANTS
    Ids,        \* subscription ids; also the JSON-RPC request ids
    Queries,    \* query strings
    BufSizes,   \* buf_size values a channel may be created with (0 = unbounded)
    MaxEvents   \* bound on the number of events published

ASSUME /\ BufSizes \subseteq Nat
       /\ MaxEvents \in Nat

VARIABLES subscriptions, pendingSubscribe, pendingUnsubscribe,
          evq, rxOpen, cap, resq, resOpen,
          pubLog, delivered, addedAt, answered

routerVars  == <<subscriptions, pendingSubscribe, pendingUnsubscribe>>
chanVars    == <<evq, rxOpen, cap, resq, resOpen>>
eventHistory == <<pubLog, delivered, addedAt>>
historyVars == <<eventHistory, answered>>
rvars       == <<routerVars, chanVars, historyVars>>

Kinds       == {"subscribe", "unsubscribe"}
ResultChans == Ids \X Kinds
Results     == {"Ok", "Err"}
EventNums   == 1..MaxEvents
Event       == [n : EventNums, query : Queries]
Pending     == [id : Ids, query : Queries]
\* enum SubscriptionState: the answers of subscription_state.
SubscriptionStates == {"Pending", "Active", "Cancelling", "NotFound"}

\* The partial functions of the router: domain a subset of keys.
PartialFns(K, V) == UNION {[D -> V] : D \in SUBSET K}

\* The fields of SubscriptionRouter and of the channels it holds.
RouterTypeOK ==
    /\ subscriptions \in PartialFns(Queries, SUBSET Ids)
    /\ pendingSubscribe \in PartialFns(Ids, Pending)
    /\ pendingUnsubscribe \in PartialFns(Ids, Pending)
    /\ evq \in [Ids -> Seq(EventNums)]
    /\ rxOpen \in [Ids -> BOOLEAN]
    /\ cap \in [Ids -> BufSizes]
    /\ resq \in [ResultChans -> Seq(Results)]
    /\ resOpen \in [ResultChans -> BOOLEAN]
    /\ pubLog \in Seq(Event)
    /\ delivered \in [Ids -> Seq(EventNums)]
    /\ addedAt \in [Ids -> 0..MaxEvents]
    /\ answered \in [ResultChans -> Seq(Results)]

-----------------------------------------------------------------------------
(* Helpers on the router's maps.                                           *)

\* HashMap::remove on a partial function.
Forget(f, k) == Restrict(f, DOMAIN f \ {k})

\* HashMap::insert on a partial function (overwrites).
Put(f, k, v) == (k :> v) @@ f

\* The routing table after add(id, query, _): the inner map is created
\* when the query is absent, then the id is inserted.
AddTo(subs, id, q) ==
    IF q \in DOMAIN subs THEN [subs EXCEPT ![q] = @ \cup {id}]
                         ELSE Put(subs, q, {id})

\* The routing table after remove(id, query): a no-op for an unknown query.
RemoveFrom(subs, id, q) ==
    IF q \in DOMAIN subs THEN [subs EXCEPT ![q] = @ \ {id}] ELSE subs

\* ChannelTx::send of a result: it fails, leaving nothing behind, when the
\* receiver is gone; the router returns that failure to its caller.
SendResult(r, v) ==
    /\ resq' = IF resOpen[r] THEN [resq EXCEPT ![r] = Append(@, v)] ELSE resq
    /\ answered' = [answered EXCEPT ![r] = Append(@, v)]

\* ChannelTx::send of an event succeeds when the receiver is alive and a
\* bounded channel has room (the TODO in publish: full is treated like
\* disconnected).
HasRoom(c) == cap[c] = 0 \/ Len(evq[c]) < cap[c]

CanSend(c) == rxOpen[c] /\ HasRoom(c)

-----------------------------------------------------------------------------
(* Router operations.                                                      *)

\* Mutation of Publish: sinks whose send failed are left in place.
PublishKeepsFailed(ev) ==
    /\ pubLog' = Append(pubLog, ev)
    /\ IF ev.query \notin DOMAIN subscriptions
       THEN UNCHANGED <<routerVars, chanVars, delivered, addedAt, answered>>
       ELSE LET ok == {c \in subscriptions[ev.query] : CanSend(c)} IN
            /\ evq' = [c \in Ids |-> IF c \in ok THEN Append(evq[c], ev.n)
                                                 ELSE evq[c]]
            /\ delivered' = [c \in Ids |-> IF c \in ok THEN Append(delivered[c], ev.n)
                                                       ELSE delivered[c]]
            /\ UNCHANGED <<routerVars, rxOpen, cap, resq, resOpen, addedAt, answered>>

\* publish(ev): fan the event out to every sink of ev.query, then evict
\* the sinks whose send failed.
Publish(ev) ==
    /\ pubLog' = Append(pubLog, ev)
    /\ IF ev.query \notin DOMAIN subscriptions
       THEN UNCHANGED <<routerVars, chanVars, delivered, addedAt, answered>>
       ELSE LET subs         == subscriptions[ev.query]
                disconnected == {c \in subs : ~CanSend(c)}
                ok           == subs \ disconnected
            IN /\ evq' = [c \in Ids |-> IF c \in ok THEN Append(evq[c], ev.n)
                                                    ELSE evq[c]]
               /\ delivered' = [c \in Ids |->
                                 IF c \in ok THEN Append(delivered[c], ev.n)
                                             ELSE delivered[c]]
               /\ subscriptions' = [subscriptions EXCEPT ![ev.query] = ok]
               /\ UNCHANGED <<pendingSubscribe, pendingUnsubscribe,
                              rxOpen, cap, resq, resOpen, addedAt, answered>>

\* publish(ev) when a send to a full bounded channel waits for room (spec
\* section 5: the enqueue on a bounded, full channel suspends) instead of
\* failing: the driver cannot finish the fan-out, and takes no other
\* input, until every live sink of ev.query has room.  Only sinks whose
\* receiver is gone fail, and they are evicted.
PublishBlocking(ev) ==
    /\ ev.query \in DOMAIN subscriptions =>
           \A c \in subscriptions[ev.query] : rxOpen[c] => HasRoom(c)
    /\ Publish(ev)

\* add(id, query, event_tx)
Add(id, q) ==
    /\ subscriptions' = AddTo(subscriptions, id, q)
    /\ addedAt' = [addedAt EXCEPT ![id] = Len(pubLog)]
    /\ UNCHANGED <<pendingSubscribe, pendingUnsubscribe, chanVars,
                   pubLog, delivered, answered>>

\* pending_add(req_id, subs_id, query, event_tx, result_tx)
PendingAdd(req, id, q) ==
    /\ pendingSubscribe' = Put(pendingSubscribe, req, [id |-> id, query |-> q])
    /\ UNCHANGED <<subscriptions, pendingUnsubscribe, chanVars, historyVars>>

\* confirm_add(req_id): promote the pending entry through add, then send
\* Ok(()) to its result_tx; a no-op for an unknown req_id.
ConfirmAdd(req) ==
    IF req \in DOMAIN pendingSubscribe
    THEN LET p == pendingSubscribe[req] IN
         /\ pendingSubscribe' = Forget(pendingSubscribe, req)
         /\ subscriptions' = AddTo(subscriptions, p.id, p.query)
         /\ addedAt' = [addedAt EXCEPT ![p.id] = Len(pubLog)]
         /\ SendResult(<<req, "subscribe">>, "Ok")
         /\ UNCHANGED <<pendingUnsubscribe, evq, rxOpen, cap, resOpen,
                        pubLog, delivered>>
    ELSE UNCHANGED rvars

\* Mutation of CancelAdd: the pending entry is looked up in the
\* pending-unsubscribe table, as cancel_remove does.
CancelAddWrongTable(req) ==
    IF req \in DOMAIN pendingUnsubscribe
    THEN /\ pendingUnsubscribe' = Forget(pendingUnsubscribe, req)
         /\ SendResult(<<req, "subscribe">>, "Err")
         /\ UNCHANGED <<subscriptions, pendingSubscribe, evq, rxOpen, cap,
                        resOpen, eventHistory>>
    ELSE UNCHANGED rvars

\* cancel_add(req_id, err): drop the pending entry (and with it its
\* event_tx) and send Err(err) to its result_tx.
CancelAdd(req) ==
    IF req \in DOMAIN pendingSubscribe
    THEN /\ pendingSubscribe' = Forget(pendingSubscribe, req)
         /\ SendResult(<<req, "subscribe">>, "Err")
         /\ UNCHANGED <<subscriptions, pendingUnsubscribe, evq, rxOpen, cap,
                        resOpen, eventHistory>>
    ELSE UNCHANGED rvars

\* remove(id, query)
Remove(id, q) ==
    /\ subscriptions' = RemoveFrom(subscriptions, id, q)
    /\ UNCHANGED <<pendingSubscribe, pendingUnsubscribe, chanVars, historyVars>>

\* pending_remove(req_id, subs_id, query, result_tx)
PendingRemove(req, id, q) ==
    /\ pendingUnsubscribe' = Put(pendingUnsubscribe, req, [id |-> id, query |-> q])
    /\ UNCHANGED <<subscriptions, pendingSubscribe, chanVars, historyVars>>

\* Mutation of ConfirmRemove: Ok is sent but the subscription is not
\* removed from the routing table.
ConfirmRemoveKeeps(req) ==
    IF req \in DOMAIN pendingUnsubscribe
    THEN /\ pendingUnsubscribe' = Forget(pendingUnsubscribe, req)
         /\ SendResult(<<req, "unsubscribe">>, "Ok")
         /\ UNCHANGED <<subscriptions, pendingSubscribe, evq, rxOpen, cap,
                        resOpen, eventHistory>>
    ELSE UNCHANGED rvars

\* confirm_remove(req_id): remove the subscription, then send Ok(()).
ConfirmRemove(req) ==
    IF req \in DOMAIN pendingUnsubscribe
    THEN LET p == pendingUnsubscribe[req] IN
         /\ pendingUnsubscribe' = Forget(pendingUnsubscribe, req)
         /\ subscriptions' = RemoveFrom(subscriptions, p.id, p.query)
         /\ SendResult(<<req, "unsubscribe">>, "Ok")
         /\ UNCHANGED <<pendingSubscribe, evq, rxOpen, cap, resOpen, eventHistory>>
    ELSE UNCHANGED rvars

\* cancel_remove(req_id, err): the subscription stays; send Err(err).
CancelRemove(req) ==
    IF req \in DOMAIN pendingUnsubscribe
    THEN /\ pendingUnsubscribe' = Forget(pendingUnsubscribe, req)
         /\ SendResult(<<req, "unsubscribe">>, "Err")
         /\ UNCHANGED <<subscriptions, pendingSubscribe, evq, rxOpen, cap,
                        resOpen, eventHistory>>
    ELSE UNCHANGED rvars

\* is_active(id)
IsActive(id) == \E q \in DOMAIN subscriptions : id \in subscriptions[q]

\* Mutation of SubscriptionState: the routing table is consulted before
\* the pending-unsubscribe table.
StateActiveFirst(req) ==
    CASE req \in DOMAIN pendingSubscribe   -> "Pending"
      [] IsActive(req)                     -> "Active"
      [] req \in DOMAIN pendingUnsubscribe -> "Cancelling"
      [] OTHER                             -> "NotFound"

\* subscription_state(req_id), in the code's priority order; the id
\* consulted in the routing table is SubscriptionId::from(req_id).
SubscriptionState(req) ==
    CASE req \in DOMAIN pendingSubscribe   -> "Pending"
      [] req \in DOMAIN pendingUnsubscribe -> "Cancelling"
      [] IsActive(req)                     -> "Active"
      [] OTHER                             -> "NotFound"

-----------------------------------------------------------------------------
(* The consumer ends of the channels (ChannelRx).                          *)

\* ChannelRx::recv of a buffered event.
RecvEvent(c) ==
    /\ rxOpen[c] /\ evq[c] # <<>>
    /\ evq' = [evq EXCEPT ![c] = Tail(@)]
    /\ UNCHANGED <<routerVars, rxOpen, cap, resq, resOpen, historyVars>>

\* Dropping the event receiver discards what it buffered.
DropEventRx(c) ==
    /\ rxOpen[c]
    /\ rxOpen' = [rxOpen EXCEPT ![c] = FALSE]
    /\ evq' = [evq EXCEPT ![c] = <<>>]
    /\ UNCHANGED <<routerVars, cap, resq, resOpen, historyVars>>

RecvResult(r) ==
    /\ resOpen[r] /\ resq[r] # <<>>
    /\ resq' = [resq EXCEPT ![r] = Tail(@)]
    /\ UNCHANGED <<routerVars, evq, rxOpen, cap, resOpen, historyVars>>

DropResultRx(r) ==
    /\ resOpen[r]
    /\ resOpen' = [resOpen EXCEPT ![r] = FALSE]
    /\ resq' = [resq EXCEPT ![r] = <<>>]
    /\ UNCHANGED <<routerVars, evq, rxOpen, cap, historyVars>>

-----------------------------------------------------------------------------
(* The state of a freshly built router (SubscriptionRouter::default) and  *)
(* of its channels.                                                        *)
RouterInit ==
    /\ subscriptions = <<>>
    /\ pendingSubscribe = <<>>
    /\ pendingUnsubscribe = <<>>
    /\ evq = [c \in Ids |-> <<>>]
    /\ rxOpen = [c \in Ids |-> TRUE]
    /\ cap \in [Ids -> BufSizes]
    /\ resq = [r \in ResultChans |-> <<>>]
    /\ resOpen = [r \in ResultChans |-> TRUE]
    /\ pubLog = <<>>
    /\ delivered = [c \in Ids |-> <<>>]
    /\ addedAt = [c \in Ids |-> 0]
    /\ answered = [r \in ResultChans |-> <<>>]

=============================================================================
