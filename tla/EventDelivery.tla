---------------------------- MODULE EventDelivery ----------------------------
(***************************************************************************)
(* What the outbox promises about the events it is given.  An event is in  *)
(* the hands of one sender at a time; only that sender sends it, and only  *)
(* while it is open; a sender takes new events when it has finished with   *)
(* those it has.  A delivered event was received, an event is given up     *)
(* only after MaxAttempts attempts, and neither is ever sent again.        *)
(* GovernanceOutbox, which does it with expiring leases and statements     *)
(* that look at the id only, implements this specification when senders    *)
(* are prompt and their batches fit into the lease.                        *)
(***************************************************************************)
EXTENDS Integers

CONSTANTS Event, Sender, MaxAttempts

VARIABLES
    fate,       \* unpublished, open, delivered or dead_letter
    tries,      \* attempts an event was given, up to MaxAttempts
    hands,      \* the senders that have the event
    received    \* the events the endpoint has taken

deliveryVars == <<fate, tries, hands, received>>

DeliveryInit ==
    /\ fate = [e \in Event |-> "unpublished"]
    /\ tries = [e \in Event |-> 0]
    /\ hands = [e \in Event |-> {}]
    /\ received = {}

Open(e) ==
    /\ fate[e] = "unpublished"
    /\ fate' = [fate EXCEPT ![e] = "open"]
    /\ tries' = [tries EXCEPT ![e] = 0]
    /\ UNCHANGED <<hands, received>>

Take(w, B) ==
    /\ \A e \in Event : w \notin hands[e]
    /\ \A e \in B : fate[e] = "open" /\ hands[e] = {}
    /\ tries' = [e \in Event |->
           IF e \in B /\ tries[e] < MaxAttempts THEN tries[e] + 1 ELSE tries[e]]
    /\ hands' = [e \in Event |-> IF e \in B THEN {w} ELSE hands[e]]
    /\ UNCHANGED <<fate, received>>

(* The endpoint takes it, whether the sender learns of that or not. *)
Receive(w, e) ==
    /\ hands[e] = {w} /\ fate[e] = "open" /\ tries[e] > 0
    /\ received' = received \cup {e}
    /\ UNCHANGED <<fate, tries, hands>>

(* The sender is done with e, whose fate is now f. *)
Finish(w, e, f) ==
    /\ hands[e] = {w} /\ fate[e] = "open"
    /\ fate' = [fate EXCEPT ![e] = f]
    /\ hands' = [hands EXCEPT ![e] = {}]
    /\ UNCHANGED <<tries, received>>

Deliver(w, e) == e \in received /\ Finish(w, e, "delivered")

GiveUp(w, e) == tries[e] = MaxAttempts /\ Finish(w, e, "dead_letter")

PutBack(w, e) == tries[e] < MaxAttempts /\ Finish(w, e, "open")

(* The sender's process dies with what it has. *)
Die(w) ==
    /\ hands' = [e \in Event |-> hands[e] \ {w}]
    /\ UNCHANGED <<fate, tries, received>>

DeliveryNext ==
    \/ \E e \in Event : Open(e)
    \/ \E w \in Sender :
           \/ \E B \in SUBSET Event : Take(w, B)
           \/ \E e \in Event : \/ Receive(w, e)
                               \/ Deliver(w, e) \/ GiveUp(w, e) \/ PutBack(w, e)
           \/ Die(w)

DeliverySpec == DeliveryInit /\ [][DeliveryNext]_deliveryVars

=============================================================================
