-------------------------- MODULE GovernanceOutbox --------------------------
(***************************************************************************)
(* The outbox of governance events (internal/service/governance_event.go   *)
(* over the table governance_outbox): Publish stores an event, and         *)
(* ProcessOutbox, called by Publish and by a background dispatcher in      *)
(* every process, claims rows that are due, posts each to the external     *)
(* endpoint and marks the row delivered, to be retried or dead.            *)
(*                                                                         *)
(* Several goroutines are inside ProcessOutbox at once.  A claim puts a    *)
(* lease on each row of a batch; the requests of the batch are sent one    *)
(* after the other, and the statement that marks a row looks at its id     *)
(* only.  lease_owner is written and never read, so it is left out.        *)
(*                                                                         *)
(* Times are kept as what is left of them: wait is next_attempt_at - now   *)
(* and lease is lease_until - now, 0 once they are reached (a NULL         *)
(* lease_until claims like an expired one).  So time has no bound.         *)
(***************************************************************************)
EXTENDS Integers, FiniteSets

CONSTANTS
    Event,         \* event_id of the events published
    NoEvent,       \* what a sender between two requests is sending
    Sender,        \* goroutines that run ProcessOutbox
    Limit,         \* rows of one claim: 8 in Publish, 16 in the dispatcher
    LeaseTTL,      \* outboxLeaseTTL
    SendTimeout,   \* how long a request may take (client.Timeout)
    MaxAttempts,   \* outboxMaxAttempts
    RetryDelay,    \* nextOutboxAttemptAt: the delay after the n-th attempt
    Hazards        \* what may go wrong in this run, a subset of HazardKinds

HazardKinds == {
    "delay",      \* a process may be paused between any two of its steps
    "dberror",    \* a marking statement may fail
    "crash",      \* a process may die; one survives
    "replay" }    \* the administrator calls replay_governance_outbox_event

ASSUME OutboxAssumption ==
    /\ NoEvent \notin Event
    /\ Limit \in Nat \ {0} /\ LeaseTTL \in Nat \ {0}
    /\ SendTimeout \in Nat
    /\ MaxAttempts \in Nat \ {0}
    /\ RetryDelay \in [1..MaxAttempts -> Nat \ {0}]
    /\ Hazards \subseteq HazardKinds

VARIABLES
    row,        \* the table: one row per event, "none" before its insertion
    batch,      \* attempt_count as claimed, of the rows a sender has to send
    job,        \* what each sender is doing, and with which row
    alive,      \* the senders whose process runs
    accepted    \* history: the events the endpoint has taken

vars == <<row, batch, job, alive, accepted>>

-----------------------------------------------------------------------------

(* attempt_count is read only to be compared with MaxAttempts, so it stops *)
(* counting there.                                                         *)
Attempts == 0..MaxAttempts

Row == [st : {"none", "pending", "processing", "delivered", "dead_letter"},
        attempts : Attempts, wait : Nat, lease : Nat, err : {"null", "error"}]

Job == [st : {"idle", "flush", "batch", "sending", "ok", "failed"},
        ev : Event \cup {NoEvent}, left : Nat]

TypeOK ==
    /\ row \in [Event -> Row]
    /\ batch \in [Sender -> [Event -> Attempts]]
    /\ job \in [Sender -> Job]
    /\ alive \subseteq Sender
    /\ accepted \subseteq Event

NewRow == [st |-> "pending", attempts |-> 0, wait |-> 0, lease |-> 0,
           err |-> "null"]

IsIn(w, st) == job[w].st = st

Sets(w, st, e, left) ==
    job' = [job EXCEPT ![w] = [st |-> st, ev |-> e, left |-> left]]

Becomes(w, st) == Sets(w, st, NoEvent, 0)

-----------------------------------------------------------------------------

(* Publish: INSERT OR IGNORE on event_id, then a flush by ProcessOutbox. *)
Publish(w, e) ==
    /\ w \in alive
    /\ IsIn(w, "idle")
    /\ row' = IF row[e].st = "none" THEN [row EXCEPT ![e] = NewRow] ELSE row
    /\ Becomes(w, "flush")
    /\ UNCHANGED <<batch, alive, accepted>>

(* Mutants of Due: a clause of the WHERE is missing. *)
DueLeased ==
    {e \in Event : /\ row[e].st \in {"pending", "processing"}
                   /\ row[e].wait = 0}

DueAnyStatus ==
    {e \in Event : row[e].st # "none" /\ row[e].wait = 0 /\ row[e].lease = 0}

DuePending ==
    {e \in Event : /\ row[e].st = "pending"
                   /\ row[e].wait = 0
                   /\ row[e].lease = 0}

(* The WHERE clause of the claim. *)
Due ==
    {e \in Event : /\ row[e].st \in {"pending", "processing"}
                   /\ row[e].wait = 0
                   /\ row[e].lease = 0}

(* LIMIT: the oldest due rows.  Which ones these are is left open. *)
Batches ==
    {B \in SUBSET Due : /\ Cardinality(B) <= Limit
                        /\ B = Due \/ Cardinality(B) = Limit}

Attempted(e) ==
    IF row[e].attempts < MaxAttempts THEN row[e].attempts + 1 ELSE MaxAttempts

(* The time the caller read before the statement may be that old. *)
ReadingAge == IF "delay" \in Hazards THEN {0, 1} ELSE {0}

ClaimBatch(w, B, age) ==
    /\ row' = [e \in Event |->
           IF e \in B
           THEN [row[e] EXCEPT !.st = "processing", !.attempts = Attempted(e),
                               !.lease = LeaseTTL - age]
           ELSE row[e]]
    /\ batch' = [batch EXCEPT ![w] =
           [e \in Event |-> IF e \in B THEN Attempted(e) ELSE 0]]
    /\ Becomes(w, IF B = {} THEN "idle" ELSE "batch")

(* ProcessOutbox up to the end of the claim's transaction; the dispatcher  *)
(* comes by itself, a flush because of Publish.                            *)
Claim(w) ==
    /\ w \in alive
    /\ IsIn(w, "idle") \/ IsIn(w, "flush")
    /\ \E B \in Batches, age \in ReadingAge : ClaimBatch(w, B, age)
    /\ UNCHANGED <<alive, accepted>>

(* The loop over the claimed rows: sendEvent posts the next one. *)
StartSend(w) ==
    /\ IsIn(w, "batch")
    /\ \E e \in Event :
           /\ batch[w][e] > 0
           /\ Sets(w, "sending", e, SendTimeout)
    /\ UNCHANGED <<row, batch, alive, accepted>>

(* A 2xx answer, or 409/208 for an event the endpoint has already. *)
Acknowledged(w) ==
    /\ IsIn(w, "sending")
    /\ accepted' = accepted \cup {job[w].ev}
    /\ Sets(w, "ok", job[w].ev, 0)
    /\ UNCHANGED <<row, batch, alive>>

(* Mutant of SendFails: an unknown outcome counts as an acknowledgement. *)
SendAssumed(w) ==
    /\ IsIn(w, "sending")
    /\ accepted' \in {accepted, accepted \cup {job[w].ev}}
    /\ Sets(w, "ok", job[w].ev, 0)
    /\ UNCHANGED <<row, batch, alive>>

(* Another answer, no connection, or a timeout: the endpoint may have      *)
(* taken the event all the same.                                           *)
SendFails(w) ==
    /\ IsIn(w, "sending")
    /\ accepted' \in {accepted, accepted \cup {job[w].ev}}
    /\ Sets(w, "failed", job[w].ev, 0)
    /\ UNCHANGED <<row, batch, alive>>

(* The row is done with, and the loop goes on or ProcessOutbox returns. *)
NextOfBatch(w) ==
    /\ batch' = [batch EXCEPT ![w][job[w].ev] = 0]
    /\ Becomes(w, IF \E e \in Event \ {job[w].ev} : batch[w][e] > 0
                  THEN "batch" ELSE "idle")
    /\ UNCHANGED <<alive, accepted>>

(* UPDATE ... WHERE id, whatever has become of the row since the claim. *)
Mark(w, new) ==
    /\ \/ row' = [row EXCEPT ![job[w].ev] = new]
       \/ "dberror" \in Hazards /\ UNCHANGED row
    /\ NextOfBatch(w)

MarkDelivered(w) ==
    /\ IsIn(w, "ok")
    /\ Mark(w, [row[job[w].ev] EXCEPT !.st = "delivered", !.lease = 0,
                                      !.err = "null"])

(* Mutant of OutOfAttempts: the attempt after this one is counted. *)
OutOfAttemptsEarly(w) == batch[w][job[w].ev] + 1 >= MaxAttempts

(* handleOutboxFailure goes by the attempt_count of the claim. *)
OutOfAttempts(w) == batch[w][job[w].ev] >= MaxAttempts

MarkDeadLetter(w) ==
    /\ IsIn(w, "failed")
    /\ OutOfAttempts(w)
    /\ Mark(w, [row[job[w].ev] EXCEPT !.st = "dead_letter", !.lease = 0,
                                      !.err = "error"])

(* Mutant of MarkRetry: a status no other statement knows. *)
MarkRetryStatus(w) ==
    /\ IsIn(w, "failed")
    /\ ~OutOfAttempts(w)
    /\ Mark(w, [row[job[w].ev] EXCEPT
                    !.st = "retry", !.lease = 0, !.err = "error",
                    !.wait = RetryDelay[batch[w][job[w].ev]]])

MarkRetry(w) ==
    /\ IsIn(w, "failed")
    /\ ~OutOfAttempts(w)
    /\ Mark(w, [row[job[w].ev] EXCEPT
                    !.st = "pending", !.lease = 0, !.err = "error",
                    !.wait = RetryDelay[batch[w][job[w].ev]]])

-----------------------------------------------------------------------------

(* ReplayOutboxEvent: dead rows, and rows with a last_error. *)
Replay(e) ==
    /\ "replay" \in Hazards
    /\ row[e].st = "dead_letter" \/ row[e].err = "error"
    /\ row' = [row EXCEPT ![e] = NewRow]
    /\ UNCHANGED <<batch, job, alive, accepted>>

(* The process dies; the rows it claimed stay "processing". *)
Crash(w) ==
    /\ "crash" \in Hazards
    /\ w \in alive
    /\ alive # {w}
    /\ alive' = alive \ {w}
    /\ batch' = [batch EXCEPT ![w] = [e \in Event |-> 0]]
    /\ Becomes(w, "idle")
    /\ UNCHANGED <<row, accepted>>

Less(n) == IF n = 0 THEN 0 ELSE n - 1

(* A prompt sender that has claimed rows lets time pass only while a       *)
(* request is under way.                                                   *)
Prompt(w) ==
    \/ IsIn(w, "idle") \/ IsIn(w, "flush")
    \/ IsIn(w, "sending") /\ job[w].left > 0

Tick ==
    /\ "delay" \in Hazards \/ \A w \in Sender : Prompt(w)
    /\ row' = [e \in Event |-> [row[e] EXCEPT !.wait = Less(@),
                                              !.lease = Less(@)]]
    /\ job' = [w \in Sender |-> [job[w] EXCEPT !.left = Less(@)]]
    /\ UNCHANGED <<batch, alive, accepted>>

-----------------------------------------------------------------------------

Init ==
    /\ row = [e \in Event |-> [NewRow EXCEPT !.st = "none"]]
    /\ batch = [w \in Sender |-> [e \in Event |-> 0]]
    /\ job = [w \in Sender |-> [st |-> "idle", ev |-> NoEvent, left |-> 0]]
    /\ alive = Sender
    /\ accepted = {}

Sending(w) ==
    \/ Claim(w) \/ StartSend(w)
    \/ Acknowledged(w) \/ SendFails(w)
    \/ MarkDelivered(w) \/ MarkDeadLetter(w) \/ MarkRetry(w)

Next ==
    \/ \E w \in Sender : Sending(w) \/ Crash(w) \/ \E e \in Event : Publish(w, e)
    \/ \E e \in Event : Replay(e)
    \/ Tick

Spec == Init /\ [][Next]_vars

(* The dispatcher's ticker keeps calling ProcessOutbox, which goes on when *)
(* it can, and time passes.                                                *)
Fairness == WF_vars(Tick) /\ \A w \in Sender : WF_vars(Sending(w))

FairSpec == Spec /\ Fairness

-----------------------------------------------------------------------------
(* Properties. *)

(* An event the table calls delivered has been taken by the endpoint: no   *)
(* failed request, late mark, replay or crash lets ProcessOutbox record a  *)
(* delivery that did not happen.                                           *)
DeliveredWasAccepted ==
    \A e \in Event : row[e].st = "delivered" => e \in accepted

(* The lease of a row keeps it in one batch: two ProcessOutbox never hold, *)
(* and so never send, the same event at the same time.                     *)
ClaimedOnce ==
    \A e \in Event, v, w \in Sender :
        (batch[v][e] > 0 /\ batch[w][e] > 0) => v = w

(* Without a replay a delivered or dead event stays what it is: no mark of *)
(* another sender puts it back among the rows that are sent.               *)
SettledIsFinal ==
    [][\A e \in Event : row[e].st \in {"delivered", "dead_letter"}
                            => row'[e].st = row[e].st]_vars

(* An event dies only after MaxAttempts claims since it was published or   *)
(* replayed, although handleOutboxFailure goes by the count of its claim.  *)
DeadLetterEarned ==
    \A e \in Event : row[e].st = "dead_letter" => row[e].attempts = MaxAttempts

(* Every published event is delivered or declared dead in the end, also    *)
(* when the process that claimed it has died (background compensation).    *)
EveryEventSettles ==
    \A e \in Event :
        row[e].st = "pending" ~> row[e].st \in {"delivered", "dead_letter"}

(* What the table says of an event, in the words of EventDelivery. *)
Fate(st) ==
    IF st = "none" THEN "unpublished"
    ELSE IF st \in {"pending", "processing"} THEN "open" ELSE st

FateOf == [e \in Event |-> Fate(row[e].st)]
TriesOf == [e \in Event |-> row[e].attempts]
HandsOf == [e \in Event |-> {w \in Sender : batch[w][e] > 0}]

Delivery == INSTANCE EventDelivery WITH
    fate <- FateOf, tries <- TriesOf, hands <- HandsOf, received <- accepted

(* The outbox keeps the promise of EventDelivery: an event is sent only by *)
(* the one sender that claimed it and only while it is open, and what a    *)
(* mark, which looks at nothing but the id, makes of the row follows from  *)
(* the attempt of the sender that makes it.                                *)
ImplementsDelivery == Delivery!DeliverySpec

-----------------------------------------------------------------------------
(* Inductive invariants the proofs use. *)

(* A sender between two calls has no batch, and one with a request has its *)
(* row in the batch; an acknowledged event has been taken.                 *)
JobInv == \A w \in Sender :
    /\ IsIn(w, "idle") \/ IsIn(w, "flush") => \A e \in Event : batch[w][e] = 0
    /\ IsIn(w, "sending") \/ IsIn(w, "ok") \/ IsIn(w, "failed")
           => job[w].ev \in Event /\ batch[w][job[w].ev] > 0
    /\ IsIn(w, "ok") => job[w].ev \in accepted
    /\ ~IsIn(w, "sending") => job[w].left = 0

Unsent(w) == {e \in Event : batch[w][e] > 0}

(* The time a prompt sender may still take for its batch. *)
Need(w) ==
    IF IsIn(w, "batch") THEN Cardinality(Unsent(w)) * SendTimeout
    ELSE job[w].left + (Cardinality(Unsent(w)) - 1) * SendTimeout

(* A row in a batch is as its claim left it, and leased for longer than    *)
(* the rest of the batch takes.                                            *)
BatchInv == \A w \in Sender, e \in Event :
    batch[w][e] > 0 => /\ row[e].st = "processing"
                       /\ row[e].attempts = batch[w][e]
                       /\ row[e].wait = 0
                       /\ row[e].lease > Need(w)

(* What keeps a row in one batch: prompt processes, statements that        *)
(* succeed, no replay, and requests that end before the lease does.        *)
PromptProcesses == Hazards \subseteq {"crash"}

BatchFitsLease == Limit * SendTimeout < LeaseTTL

=============================================================================
