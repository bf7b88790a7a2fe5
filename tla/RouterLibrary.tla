---------------------------- MODULE RouterLibrary ----------------------------
(***************************************************************************)
(* The router used as a library: any sequence of calls of its public       *)
(* methods, with any arguments, interleaved with the consumers of its      *)
(* channels.  Every channel exists from the start with a capacity picked   *)
(* by its creator.                                                         *)
(***************************************************************************)
EXTENDS SubscriptionRouter

Init == RouterInit

Next ==
    \/ \E q \in Queries :
          /\ Len(pubLog) < MaxEvents
          /\ Publish([n |-> Len(pubLog) + 1, query |-> q])
    \/ \E id \in Ids, q \in Queries : Add(id, q) \/ Remove(id, q)
    \/ \E req, id \in Ids, q \in Queries :
          PendingAdd(req, id, q) \/ PendingRemove(req, id, q)
    \/ \E req \in Ids :
          \/ ConfirmAdd(req) \/ CancelAdd(req)
          \/ ConfirmRemove(req) \/ CancelRemove(req)
    \/ \E c \in Ids : RecvEvent(c) \/ DropEventRx(c)
    \/ \E r \in ResultChans : RecvResult(r) \/ DropResultRx(r)

Spec == Init /\ [][Next]_rvars

-----------------------------------------------------------------------------
(* Invariant 1 of the router (spec section 3, and the first property of    *)
(* section 8, "for all sequences of router operations"): a subscription id *)
(* is listed under at most one query.  add and confirm_add insert the id   *)
(* under the given query without looking at the other queries.            *)
Uniqueness ==
    \A id \in Ids :
        Cardinality({q \in DOMAIN subscriptions : id \in subscriptions[q]}) <= 1

=============================================================================
