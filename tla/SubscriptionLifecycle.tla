------------------------ MODULE SubscriptionLifecycle ------------------------
(***************************************************************************)
(* What the router promises about one subscription, abstractly: the        *)
(* lifecycle of spec section 3 (NotFound, Pending, Active, Cancelling) and *)
(* the answers its waiting callers get on the way.                         *)
(*                                                                         *)
(* Each id is used for one subscription, so the lifecycle is one-shot:     *)
(* "NotFound" is an id not yet requested and "Closed" one whose            *)
(* subscription has ended.  The table of section 3 lacks two moves that    *)
(* publish makes: eviction of a sink whose send failed, from Active to     *)
(* Closed, and, while an unsubscribe is in flight, from Cancelling to      *)
(* "CancellingGone" (pending but no longer routed).  A TerminateSubscription*)
(* for an evicted subscription goes from Closed to CancellingGone.  Close *)
(* of the driver (spec section 4.4) ends every subscription at once.       *)
(*                                                                         *)
(* answers[<<id, kind>>] is every result the router sent for the subscribe *)
(* or the unsubscribe request of id.                                       *)
(***************************************************************************)
EXTENDS Sequences

CONSTANTS Ids

VARIABLES phase, answers

Phases == {"NotFound", "Pending", "Active", "Cancelling", "CancellingGone", "Closed"}
Kinds  == {"subscribe", "unsubscribe"}

Init ==
    /\ phase = [id \in Ids |-> "NotFound"]
    /\ answers = [r \in Ids \X Kinds |-> <<>>]

\* Move id from one of the phases `from` to phase `to`.
Move(id, from, to) ==
    /\ phase[id] \in from
    /\ phase' = [phase EXCEPT ![id] = to]

\* Append result v to the answers for the `kind` request of id.
Answer(id, kind, v) ==
    answers' = [answers EXCEPT ![<<id, kind>>] = Append(@, v)]

Request(id) ==
    /\ Move(id, {"NotFound"}, "Pending")
    /\ UNCHANGED answers

Confirm(id) ==
    /\ Move(id, {"Pending"}, "Active")
    /\ Answer(id, "subscribe", "Ok")

Reject(id) ==
    /\ Move(id, {"Pending"}, "Closed")
    /\ Answer(id, "subscribe", "Err")

StartCancel(id) ==
    /\ \/ Move(id, {"Active"}, "Cancelling")
       \/ Move(id, {"Closed"}, "CancellingGone")
    /\ UNCHANGED answers

\* The unsubscribe succeeded: the subscription is no longer routed.
Unsubscribed(id) ==
    /\ Move(id, {"Cancelling", "CancellingGone"}, "Closed")
    /\ Answer(id, "unsubscribe", "Ok")

\* The unsubscribe failed: a subscription still routed stays routed.
UnsubscribeFailed(id) ==
    /\ \/ Move(id, {"Cancelling"}, "Active")
       \/ Move(id, {"CancellingGone"}, "Closed")
    /\ Answer(id, "unsubscribe", "Err")

\* One publish evicts every sink in S at once.
Evict(S) ==
    /\ S # {}
    /\ \A id \in S : phase[id] \in {"Active", "Cancelling"}
    /\ phase' = [id \in Ids |->
                    CASE id \notin S               -> phase[id]
                      [] phase[id] = "Active"      -> "Closed"
                      [] OTHER                     -> "CancellingGone"]
    /\ UNCHANGED answers

\* The driver is closed: every subscription it knew ends at once, and a
\* subscribe still queued for it (a subset S of the ids not yet requested)
\* ends with it; no caller is answered.
Shutdown(S) ==
    /\ \A id \in S : phase[id] = "NotFound"
    /\ phase' = [id \in Ids |->
                    IF phase[id] = "NotFound" /\ id \notin S THEN "NotFound"
                                                          ELSE "Closed"]
    /\ UNCHANGED answers

Next ==
    \/ \E id \in Ids :
          \/ Request(id) \/ Confirm(id) \/ Reject(id) \/ StartCancel(id)
          \/ Unsubscribed(id) \/ UnsubscribeFailed(id)
    \/ \E S \in SUBSET Ids : Evict(S) \/ Shutdown(S)

Spec == Init /\ [][Next]_<<phase, answers>>

=============================================================================
