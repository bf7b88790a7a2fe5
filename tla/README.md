# TLA+ models of the tendermint-rs RPC subscription core

These modules model the subscription routing core of the RPC client in
`src/rpc/src/client/subscription.rs`, together with the parts of the client that use
it: the callers that hold `Subscription` handles, the driver task that owns the router,
and the remote endpoint behind the transport (`src/rpc/src/client/transport.rs`). The
natural-language description is `spec.md`.

## 1. Inventory

### Components

| Component | Source | State | Operations |
|---|---|---|---|
| SubscriptionRouter | subscription.rs:231-442 | `subscriptions: query -> {id -> event_tx}`, `pending_subscribe: req_id -> {id, query, event_tx, result_tx}`, `pending_unsubscribe: req_id -> {id, query, result_tx}` | `publish`, `add`, `pending_add`, `confirm_add`, `cancel_add`, `remove`, `pending_remove`, `confirm_remove`, `cancel_remove`, `is_active`, `get_active_subscription_mut`, `subscription_state`, `default` |
| Subscription handle | subscription.rs:79-132 | query, id, `event_rx`, `terminate_tx` | `poll_next`, `terminate` (send `TerminateSubscription`, await the reply), drop |
| Channels (`crate::client::sync`, not under src/) | spec §3 | buffer, receiver alive, capacity (`buf_size`, 0 = unbounded) | `send` (fails when the receiver is gone or, per the TODO in `publish`, the bounded buffer is full), `recv`, drop |
| SubscriptionId | subscription.rs:146-205 | a string | `default` (random UUIDv4), `Display`, `Into<Id>`, `TryInto<SubscriptionId> for Id`, `From<&str>` |
| Driver task (`transport/http_ws.rs`, not under src/) | spec §2, §4.4, §5 | owns the router | takes subscribe commands, `TerminateSubscription` messages and inbound server messages one at a time and runs router methods for them |
| Transport traits | transport.rs:21-77 | none (interfaces) | `request`, `subscription_transport`, `subscribe`, `unsubscribe`, `close` |
| Router unit tests | subscription.rs:444-617 | a router, ids and unbounded channels per test | `router_basic_pub_sub`, `router_pending_subscription`, `router_cancel_pending_subscription` |
| Remote endpoint | outside the repository | queries it serves | answers subscribe/unsubscribe, pushes events |

### How they interact

Callers never touch the router. A caller sends a subscribe command (with its fresh
`SubscriptionId`, its `event_tx` and a `result_tx`) to the driver and waits on the result
channel; `Subscription::terminate` sends a `TerminateSubscription` on the control
channel and waits on its own result channel. The driver sends the JSON-RPC request to
the server (the subscription id is the request id), records it with `pending_add` or
`pending_remove`, and later reads the server's messages in order from one stream:
an event goes to `publish`; a response carries only the request id, so the driver asks
`subscription_state(req_id)` whether it answers a subscribe (`Pending`: `confirm_add` /
`cancel_add`) or an unsubscribe (`Cancelling`: `confirm_remove` / `cancel_remove`).
The router answers callers through their result channels and feeds events into their
event channels; it notices a gone or full consumer only when a send fails, and evicts it.

### What is hard

* Interleavings of the driver's three inputs with the callers: events arrive on the
  same stream as acknowledgements, callers consume, drop, terminate or time out at any
  moment, and the driver only ever sees the router's tables.
* Failure inside a fan-out: a send to one sink fails (gone or full) and the sink is
  evicted while the others get the event.
* Two-step handshakes keyed by one id for both directions, answered asynchronously, with
  the answer routed by a state lookup.
* Progress: a caller blocked in `subscribe` or `terminate` is woken only if the driver
  routes the right answer to the right result channel.

### What makes each component correct

* Router: an id is routed under one query (spec §3 invariant 1); per-sink delivery is in
  publish order, exactly the events since the subscription became active, with no gap
  while it stays routed; pending subscriptions receive nothing; evicted sinks receive
  nothing more; the lifecycle moves only along spec §3's transitions.
* Subscription handle / driver: every `subscribe` and every `terminate` returns; a
  subscriber that still holds its handle keeps being routed to.

## 2. Modules

| Module | Models | Kind |
|---|---|---|
| `SubscriptionRouter` | the router's three tables and every router method (with `publish` in two channel semantics: a full bounded send fails, or waits), the sending and receiving ends of event and result channels, and history variables (`pubLog`, `delivered`, `addedAt`, `answered`) for the properties | operators, no behaviour of its own |
| `RouterLibrary` | the router used as a library: any call of any public method with any arguments, interleaved with consumers (spec §8, "for all sequences of router operations") | `Init`, `Next`, `Spec` |
| `SubscriptionLifecycle` | the abstract promise: per id, the lifecycle of spec §3 (made one-shot with `Closed`, plus the eviction moves `publish` makes and the shutdown `close` makes) and the answers sent to the waiting callers | `Init`, `Next`, `Spec` |
| `SubscriptionClient` | the composition: callers, driver (with `close`), server (with up to `MaxDup` duplicated responses, and with or without one subscription per query), channels; EXTENDS `SubscriptionRouter` | `Init`, `Next`, `Spec`, `FairSpec` |
| `MCSubscriptionRouter`, `MCSubscriptionClient` | model values for TLC | MC modules |

Correspondence with the code:

* `subscriptions` is `query -> set of ids`: each id owns exactly one event channel,
  created with it, so the sink stored under an id is always that id's channel. Query keys
  are added by `add` and never removed, as in the code.
* `pendingSubscribe` / `pendingUnsubscribe` are partial functions `req id -> [id, query]`;
  `Put` is `HashMap::insert` (overwrites) and `Forget` is `HashMap::remove`.
* Each router method is one operator that does the whole method: `ConfirmAdd` removes the
  pending entry, adds the subscription and sends `Ok` (or, when the receiver is gone,
  sends nothing and the error goes back to the driver). `Publish` sends to every sink of
  the query and evicts the ones whose send failed, in one step, because the driver owns
  the router exclusively (spec §5) and nothing else can run between those sends.
* An event channel send fails when the receiver is dropped or when the bounded buffer
  is full, as the code's `publish` does (the TODO at subscription.rs:259-261, spec
  §4.3.1). Every run but one uses this, the code's semantics (`BlockingSends = FALSE`).
  `PublishBlocking` is not the code: it is spec §5's description of a send that
  suspends on a full channel, marked `spec_modelled`, and only `client_blockdeadlock`
  uses it, to show what that description would lead to. It is enabled only once
  every live sink has room. The driver cannot take any other input while it waits, so
  this is the same as suspending part-way through the fan-out, except that a sink early
  in the loop cannot see the event before a later sink has room. No property here tells
  those apart.
* `recv` on a result channel returns a value, or `None` once every sender is gone
  (`ResultTxHeld`: the sender lives in the queued command or in the router's pending
  entry). `Subscription::terminate` therefore returns when it is answered, or with
  "failed to hear back" when the `result_tx` was dropped unanswered (subscription.rs:126-130).
  After `close`, its send on `terminate_tx` fails (line 125).
* `Close` is the driver's shutdown as spec §4.4 describes it: the router, with every
  sink and pending `result_tx`, and the driver's queues and connection are dropped.
  `ClosableTransport::close` in transport.rs is only a trait signature, so this is
  modelled from the spec.
* `TransportSubscribe` and `TransportUnsubscribe` append the request, whose JSON-RPC id
  is the subscription id, to the ordered connection (spec §2). transport.rs declares
  the `SubscriptionTransport` trait but holds no code for it, so these too are
  `spec_modelled`. The same goes for `CallSubscribe`: `subscribe_with_buf_size` is a
  trait signature, and what the caller hands the driver is spec §4.1.
* A driver step takes one message from one input, runs the router methods for it, and
  sends what it sends. The driver code is not under src/, so these actions are modelled
  from the spec and marked `spec_modelled`.
* The server answers requests in order on the same stream as its events. Unsubscribing
  from a query it does not serve fails. With `OneSubPerQuery = TRUE` (a Tendermint node
  answers "already subscribed") subscribing to a query it already serves fails too;
  with `OneSubPerQuery = FALSE` it accepts, so two callers can be routed under one query
  and `publish` fans out. Any request may also fail nondeterministically, so that `cancel_add` and `cancel_remove`
  get exercised. A response carries the request id and the outcome; its `kind` field
  records, for the properties only, which request it answers. `ServerDuplicate`
  re-delivers one of the responses already produced, at any later point, at most
  `MaxDup` times. Spec §4.3.4 says the router's no-ops for unknown ids exist to tolerate
  this.

## 3. Runs

| Run | Config | Expect | Checks |
|---|---|---|---|
| `router_unique` | `MCSubscriptionRouter_unique.cfg` | violation | `Uniqueness`: under arbitrary call sequences `add(s1,q1); add(s1,q2)` lists `s1` under two queries. Spec §8 claims the property for all sequences of router operations. The driver never does this (it uses fresh ids), but nothing in the router stops it. |
| `client_delivery` | `MCSubscriptionClient_delivery.cfg` | pass | `DeliveryExact` with two subscribers, two queries, channels of capacity 0 (unbounded) or 1, three events, close, and a server that lets both subscribe to one query (`OneSubPerQuery = FALSE`). Both can be routed under one query, and one sink can be gone or full while the other still gets the event, so a failure inside the fan-out is covered. |
| `client_liveness` | `MCSubscriptionClient_liveness.cfg` | pass | `SubscribeResolves`, `TerminateCompletes`, `PendingEventuallyCleared` under `FairSpec`, two events. Callers are answered, or get an error once `close` dropped their `result_tx`. A pending subscribe whose caller timed out is still cleared by the late answer. |
| `client_lifecycle` | `MCSubscriptionClient_lifecycle.cfg` | pass | `LifecycleRefined`: `SubscriptionClient` implements `SubscriptionLifecycle`, with one duplicated response, `close`, capacity-1 channels and two events. With two events a sink can be evicted while its unsubscribe is in flight, so Cancelling -> CancellingGone, Closed -> CancellingGone and `cancel_remove` from CancellingGone all occur. The refinement maps `phase <- Phase(id)` (read off `subscription_state` and `is_active`; `NotFound` splits into not-yet-requested and `Closed`) and `answers <- answered` (every result the router sent). |
| `client_fullevict` | `MCSubscriptionClient_fullevict.cfg` | violation | `HeldSubscriptionRouted`: with capacity-1 channels, a subscriber that has not drained its first event is evicted by the second publish while it still holds its handle. Its stream then just ends. |
| `client_duplicate` | `MCSubscriptionClient_duplicate.cfg` | violation | `AnswersGenuine`, with one duplicate. Ten steps: `s1` subscribes and is confirmed; the stream then re-delivers the subscribe acknowledgement after `terminate`'s `pending_remove`. `subscription_state` says `Cancelling`, so `confirm_remove` tells the caller `Ok` before the server has seen the unsubscribe. The real answer is later dropped as `NotFound`. |
| `client_blockdeadlock` | `MCSubscriptionClient_blockdeadlock.cfg` | violation | `TerminateCompletes` with waiting sends. The driver blocks publishing event 2 to the full channel of a caller that is inside `terminate` and no longer reads it. That caller's unsubscribe answer is queued behind event 2, so `terminate` never returns. |

Each property of a passing run has a mutant in PROJECT.json, a plausible bug that TLC
must catch:
* `publish` not evicting failed sinks leaves a gap and breaks `DeliveryExact`.
* `subscription_state` consulting the routing table before the pending-unsubscribe table
  ignores the unsubscribe answer, so `terminate` hangs.
* `cancel_add` looking in the pending-unsubscribe table (the body of `cancel_remove`)
  leaves the entry and its `result_tx` in place. The caller then hangs and the entry is
  never cleared.
* `confirm_remove` answering `Ok` without removing the subscription makes the lifecycle
  go from Cancelling back to Active with an `Ok`.

Confirming without replying is no such bug: the dropped `result_tx` makes the caller's
`recv` return `None`, so `subscribe` still returns.

The abstract lifecycle extends spec §3's table with moves the code makes:
* Eviction takes a subscription from Active to Closed.
* Eviction during an unsubscribe takes it from Cancelling to CancellingGone.
* A terminate of an already-evicted subscription takes it from Closed to CancellingGone,
  because the driver still sends the unsubscribe.
* `close` ends everything at once.

The table in spec §3 lists none of these, though §4.3.1, §4.4 and §8 describe them.

Bounds. Two subscription ids and two queries cover the cases that matter: the same
query with two subscribers (fan-out in `client_delivery`; a server refusing the second
subscription elsewhere), different queries, one bounded and one unbounded channel. Three events are enough for
the gap scenario (deliver, fail on full, drain, deliver) and for a second fill while
blocked. One duplicate is enough for every misrouting of an answer, since each id has
exactly two requests. The liveness and lifecycle runs use two events: enough for a
capacity-1 sink to fill and be evicted while its unsubscribe is pending. The lifecycle
run fixes every capacity at 1 to stay within a few minutes. Symmetry over ids is used
only in the safety run.

Fairness. `FairSpec` gives weak fairness to each of the driver's inputs (the driver is a
dedicated task looping over them), to the server answering requests (requests are not
lost on the ordered stream), and to a caller waiting on its result channel (an awaited
receive is woken when a value arrives or the last sender goes away). Callers' own
choices, `close`, duplicates and the server's events get no fairness. `Quiescent` lets a
finished or closed client idle, so deadlock checking stays on for every other state.

## 4. Not modelled, and why

* `SubscriptionId` (subscription.rs:146-205): `default` formats 16 random bytes as a
  UUIDv4, and the conversions to and from `Id` are field moves and calls of `format!`
  and `to_string`. None of them has any control flow worth checking. The models use a
  model value per id, fresh for each caller, which is also the request id of its
  subscribe and unsubscribe. The RNG failure panics, and spec §7 calls it fatal.
* The unit tests in `mod test`: they are deterministic scripts, so replaying them on the
  router model would check the model, not the code. The client runs reach every
  situation they set up.
* The transport traits (transport.rs): they are signatures without bodies. What the
  driver does through them is spec-modelled, as described above.
* `get_active_subscription_mut`: a read-only lookup, used only by transport code outside
  src/; no modelled actor calls it.
* `Transport::request` (ordinary RPC, outside the subscription core) and
  `subscription_transport` (it only builds the connection the model starts with).
* Errors from sending a request: the driver code that would handle them is not in the
  repository. Spec §4.4 and §7 say only that the error reaches the caller through
  `cancel_add` or `cancel_remove`. To the router that is a server error answered at
  once, and the model already has server errors at every point.
* Releasing the server-side subscription of a dropped handle: `Subscription` has no
  `Drop` impl, so `DropHandle` leaves the server serving the query, and with the server
  modelled here every later subscribe to that query fails. Nothing in the spec, a comment
  or a test promises otherwise, so it is a listed hazard with no property.
* Reclaiming the orphan a timed-out subscribe leaves behind (its sink and the server-side
  subscription): spec §5 says the router does not act on the failed send, so no property
  requires it. `PendingEventuallyCleared` shows the pending entry itself does go away.

## 5. Plan

1. (done) `SubscriptionRouter` + `RouterLibrary`: the router under arbitrary calls;
   `Uniqueness` violation.
2. (done) `SubscriptionClient`: composition with the driver, callers and server;
   `DeliveryExact`, `SubscribeResolves`, `TerminateCompletes`; the full-channel
   eviction violation.
3. (done) `SubscriptionLifecycle`: the abstract per-id lifecycle with the callers'
   answers; `SubscriptionClient` refines it (`client_lifecycle`).
4. (done) Duplicated responses (`MaxDup`): `client_duplicate` violation; the refinement
   still holds with one duplicate.
5. (done) Waiting sends as spec §5 describes them (`BlockingSends`):
   `client_blockdeadlock` is the deadlock.
6. (done) Timed-out subscribe racing a late answer: `PendingEventuallyCleared`.
7. (done) Fan-out (`OneSubPerQuery = FALSE` in `client_delivery`), and evictions while
   an unsubscribe is in flight in `client_lifecycle`.
8. Not pursued: a driver that uses distinct request ids for subscribe and unsubscribe (or checks
   the response's method), shown to satisfy `AnswersGenuine` with duplicates. This is a
   proposed fix rather than the code, so it belongs beside the finding. Three ids in the
   safety runs, which would let a fan-out and a separate query coexist.
