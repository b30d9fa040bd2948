------------------------- MODULE MCGovernanceOutbox -------------------------
(***************************************************************************)
(* Instances of GovernanceOutbox for TLC.  The time unit is the request    *)
(* timeout (5 s) where SendTimeout is 1: then a lease (15 s) lasts three   *)
(* units.  With SendTimeout 0 the endpoint answers or refuses at once.     *)
(***************************************************************************)
EXTENDS GovernanceOutbox, TLC

CONSTANTS v, w         \* senders
CONSTANTS e1, e2, e3, e4   \* events

TwoSenders == {v, w}
TwoEvents == {e1, e2}
FourEvents == {e1, e2, e3, e4}

EventSymmetry == Permutations(TwoSenders) \cup Permutations(TwoEvents)
SlowSymmetry == Permutations(TwoSenders) \cup Permutations(FourEvents)

(* nextOutboxAttemptAt: the base delay doubled once per attempt after the  *)
(* first, but never more than maxDelay (5 min).                            *)
baseDelay == 1
maxDelay == 2
nextOutboxAttemptAt[n \in Nat] ==
    IF n <= 1 THEN baseDelay
    ELSE LET d == 2 * nextOutboxAttemptAt[n - 1]
         IN  IF d >= maxDelay THEN maxDelay ELSE d

Delays == [n \in 1..MaxAttempts |-> nextOutboxAttemptAt[n]]

NoHazards == {}
CrashOnly == {"crash"}
AllHazards == HazardKinds

=============================================================================
