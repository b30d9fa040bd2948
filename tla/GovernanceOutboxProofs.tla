----------------------- MODULE GovernanceOutboxProofs -----------------------
(***************************************************************************)
(* Theorems about GovernanceOutbox, for every set of events and senders    *)
(* and all values of the limits and times.                                 *)
(***************************************************************************)
EXTENDS GovernanceOutbox, FiniteSetTheorems, TLAPS

-----------------------------------------------------------------------------

LEMMA ClaimTypes ==
    ASSUME TypeOK, NEW e \in Event
    PROVE  Attempted(e) \in 1..MaxAttempts
  BY OutboxAssumption DEF TypeOK, Row, Attempts, Attempted

(* The updates of a row that the statements make keep its type. *)
LEMMA RowTypes ==
    ASSUME NEW r \in Row
    PROVE  /\ \A n \in Attempts, l \in Nat :
                  [r EXCEPT !.st = "processing", !.attempts = n, !.lease = l]
                      \in Row
           /\ [r EXCEPT !.st = "delivered", !.lease = 0, !.err = "null"] \in Row
           /\ [r EXCEPT !.st = "dead_letter", !.lease = 0, !.err = "error"]
                  \in Row
           /\ \A d \in Nat :
                  [r EXCEPT !.st = "pending", !.lease = 0, !.err = "error",
                            !.wait = d] \in Row
           /\ [r EXCEPT !.wait = Less(@), !.lease = Less(@)] \in Row
<1>1. Less(r.wait) \in Nat /\ Less(r.lease) \in Nat
  BY DEF Row, Less
<1>2. QED
  BY <1>1 DEF Row

(* Type correctness, with the invariant about the senders' jobs that the   *)
(* index of RetryDelay needs, whatever goes wrong.                         *)
THEOREM TypeAndJobs == Spec => [](TypeOK /\ JobInv)
<1> USE OutboxAssumption DEF TypeOK, JobInv, IsIn
<1>1. Init => TypeOK /\ JobInv
  <2> SUFFICES ASSUME Init PROVE TypeOK /\ JobInv
    OBVIOUS
  <2>1. [NewRow EXCEPT !.st = "none"] \in Row
    BY DEF NewRow, Row, Attempts
  <2>2. row \in [Event -> Row]
    BY <2>1 DEF Init
  <2>3. job \in [Sender -> Job]
    BY DEF Init, Job
  <2>4. TypeOK
    <3>1. batch \in [Sender -> [Event -> Attempts]]
      <4>1. 0 \in Attempts
        BY DEF Attempts
      <4>2. [e \in Event |-> 0] \in [Event -> Attempts]
        BY <4>1
      <4>3. QED
        BY <4>2 DEF Init
    <3>2. QED
      BY <2>2, <2>3, <3>1 DEF Init
  <2>5. JobInv
    BY DEF Init
  <2>6. QED
    BY <2>4, <2>5
<1>2. TypeOK /\ JobInv /\ [Next]_vars => (TypeOK /\ JobInv)'
  <2> SUFFICES ASSUME TypeOK, JobInv, [Next]_vars
               PROVE  TypeOK' /\ JobInv'
    OBVIOUS
  <2>1. ASSUME NEW w \in Sender, NEW e \in Event, Publish(w, e)
        PROVE  TypeOK' /\ JobInv'
    <3>1. NewRow \in Row
      BY DEF NewRow, Row, Attempts
    <3>2. TypeOK'
      BY <2>1, <3>1 DEF Publish, Becomes, Sets, Job
    <3>3. JobInv'
      BY <2>1 DEF Publish, Becomes, Sets, Job
    <3>4. QED
      BY <3>2, <3>3
  <2>2. ASSUME NEW w \in Sender, Claim(w) PROVE TypeOK' /\ JobInv'
    <3>1. PICK B \in Batches, age \in ReadingAge : ClaimBatch(w, B, age)
      BY <2>2 DEF Claim
    <3>2. \A e \in Event : Attempted(e) \in Attempts
      BY ClaimTypes DEF Attempts
    <3>3. row' \in [Event -> Row]
      <4>1. \A e \in Event : [row[e] EXCEPT !.st = "processing",
                                            !.attempts = Attempted(e),
                                            !.lease = LeaseTTL - age] \in Row
        <5>1. age \in {0, 1} /\ LeaseTTL - age \in Nat
          BY <3>1 DEF ReadingAge
        <5>2. QED
          BY <3>2, <5>1, RowTypes
      <4>2. QED
        BY <3>1, <4>1 DEF ClaimBatch
    <3>4. batch' \in [Sender -> [Event -> Attempts]]
      <4>1. [e \in Event |-> IF e \in B THEN Attempted(e) ELSE 0]
              \in [Event -> Attempts]
        BY <3>2 DEF Attempts
      <4>2. QED
        BY <3>1, <4>1 DEF ClaimBatch
    <3>5. job' \in [Sender -> Job]
      <4>1. PICK st \in {"idle", "batch"} : Becomes(w, st)
        BY <3>1 DEF ClaimBatch
      <4>2. QED
        BY <4>1 DEF Becomes, Sets, Job
    <3>6. TypeOK'
      BY <2>2, <3>3, <3>4, <3>5 DEF Claim
    <3>7. JobInv'
      BY <2>2, <3>1 DEF Claim, ClaimBatch, Becomes, Sets, Job
    <3>8. QED
      BY <3>6, <3>7
  <2>3. ASSUME NEW w \in Sender, StartSend(w) PROVE TypeOK' /\ JobInv'
    BY <2>3 DEF StartSend, Sets, Job
  <2>4. ASSUME NEW w \in Sender, Acknowledged(w) PROVE TypeOK' /\ JobInv'
    BY <2>4 DEF Acknowledged, Sets, Job
  <2>5. ASSUME NEW w \in Sender, SendFails(w) PROVE TypeOK' /\ JobInv'
    BY <2>5 DEF SendFails, Sets, Job
  <2>6. ASSUME NEW w \in Sender, NEW new, new \in Row, Mark(w, new),
               job[w].ev \in Event
        PROVE  TypeOK' /\ JobInv'
    <3>1. row' \in [Event -> Row]
      BY <2>6 DEF Mark
    <3>2. batch' \in [Sender -> [Event -> Attempts]]
      BY <2>6 DEF Mark, NextOfBatch, Attempts
    <3> DEFINE st == IF \E e \in Event \ {job[w].ev} : batch[w][e] > 0
                     THEN "batch" ELSE "idle"
    <3>a. st \in {"batch", "idle"} /\ Becomes(w, st)
      BY <2>6 DEF Mark, NextOfBatch
    <3>b. st = "idle" => \A e \in Event \ {job[w].ev} : ~(batch[w][e] > 0)
      OBVIOUS
    <3> HIDE DEF st
    <3>3. job' \in [Sender -> Job]
      BY <3>a DEF Becomes, Sets, Job
    <3>4. TypeOK'
      BY <2>6, <3>1, <3>2, <3>3 DEF Mark, NextOfBatch
    <3>5. \A v \in Sender \ {w} : batch'[v] = batch[v] /\ job'[v] = job[v]
      BY <2>6, <3>a DEF Mark, NextOfBatch, Becomes, Sets
    <3>6. job'[w].st = "idle" => \A e \in Event : batch'[w][e] = 0
      BY <2>6, <3>a, <3>b DEF Mark, NextOfBatch, Becomes, Sets, Attempts
    <3>7. job'[w].st \in {"idle", "batch"} /\ job'[w].left = 0
      BY <3>a DEF Becomes, Sets
    <3>8. accepted' = accepted
      BY <2>6 DEF Mark, NextOfBatch
    <3>9. JobInv'
      BY <3>5, <3>6, <3>7, <3>8
    <3>10. QED
      BY <3>4, <3>9
  <2>7. ASSUME NEW w \in Sender, MarkDelivered(w) PROVE TypeOK' /\ JobInv'
    <3> DEFINE new == [row[job[w].ev] EXCEPT !.st = "delivered", !.lease = 0,
                                 !.err = "null"]
    <3>1. job[w].ev \in Event
      BY <2>7 DEF MarkDelivered
    <3>2. new \in Row
      BY <3>1, RowTypes
    <3>3. Mark(w, new)
      BY <2>7 DEF MarkDelivered
    <3>4. QED
      BY <2>6, <3>1, <3>2, <3>3
  <2>8. ASSUME NEW w \in Sender, MarkDeadLetter(w) PROVE TypeOK' /\ JobInv'
    <3> DEFINE new == [row[job[w].ev] EXCEPT !.st = "dead_letter", !.lease = 0,
                                 !.err = "error"]
    <3>1. job[w].ev \in Event
      BY <2>8 DEF MarkDeadLetter
    <3>2. new \in Row
      BY <3>1, RowTypes
    <3>3. Mark(w, new)
      BY <2>8 DEF MarkDeadLetter
    <3>4. QED
      BY <2>6, <3>1, <3>2, <3>3
  <2>9. ASSUME NEW w \in Sender, MarkRetry(w) PROVE TypeOK' /\ JobInv'
    <3> DEFINE new == [row[job[w].ev] EXCEPT
                          !.st = "pending", !.lease = 0, !.err = "error",
                          !.wait = RetryDelay[batch[w][job[w].ev]]]
    <3>1. job[w].ev \in Event /\ batch[w][job[w].ev] \in 1..MaxAttempts
      BY <2>9 DEF MarkRetry, Attempts
    <3>2. RetryDelay[batch[w][job[w].ev]] \in Nat
      BY <3>1
    <3>3. new \in Row
      BY <3>1, <3>2, RowTypes
    <3>4. Mark(w, new)
      BY <2>9 DEF MarkRetry
    <3>5. QED
      BY <2>6, <3>1, <3>3, <3>4
  <2>10. ASSUME NEW e \in Event, Replay(e) PROVE TypeOK' /\ JobInv'
    BY <2>10 DEF Replay, NewRow, Row, Attempts
  <2>11. ASSUME NEW w \in Sender, Crash(w) PROVE TypeOK' /\ JobInv'
    BY <2>11 DEF Crash, Becomes, Sets, Job, Attempts
  <2>12. ASSUME Tick PROVE TypeOK' /\ JobInv'
    <3>1. row' \in [Event -> Row]
      <4>1. \A e \in Event :
               [row[e] EXCEPT !.wait = Less(@), !.lease = Less(@)] \in Row
        BY RowTypes
      <4>2. QED
        BY <2>12, <4>1 DEF Tick
    <3> DEFINE next(j) == [j EXCEPT !.left = Less(@)]
    <3>2. \A j \in Job :
             /\ next(j) \in Job /\ next(j).st = j.st /\ next(j).ev = j.ev
             /\ j.left = 0 => next(j).left = 0
      <4>1. \A j \in Job : Less(j.left) \in Nat
        BY DEF Job, Less
      <4>2. QED
        BY <4>1 DEF Job, Less
    <3>3. job' = [w \in Sender |-> next(job[w])]
      BY <2>12 DEF Tick
    <3> HIDE DEF next
    <3>4. job' \in [Sender -> Job]
      BY <3>2, <3>3
    <3>5. \A w \in Sender : /\ job'[w].st = job[w].st
                            /\ job'[w].ev = job[w].ev
                            /\ job[w].left = 0 => job'[w].left = 0
      BY <3>2, <3>3
    <3>6. QED
      <4>1. UNCHANGED <<batch, alive, accepted>>
        BY <2>12 DEF Tick
      <4>2. TypeOK'
        BY <3>1, <3>4, <4>1
      <4>3. JobInv'
        BY <3>5, <4>1
      <4>4. QED
        BY <4>2, <4>3
  <2>13. CASE UNCHANGED vars
    BY <2>13 DEF vars
  <2>14. QED
    BY <2>1, <2>2, <2>3, <2>4, <2>5, <2>7, <2>8, <2>9, <2>10, <2>11, <2>12,
       <2>13
    DEF Next, Sending
<1>3. QED
  BY <1>1, <1>2, PTL DEF Spec

(* Type correctness: every variable of the outbox keeps its type, whatever *)
(* goes wrong.                                                             *)
THEOREM OutboxTypeCorrect == Spec => []TypeOK
  BY TypeAndJobs, PTL

-----------------------------------------------------------------------------

(* No delivery is recorded that did not happen (ProcessOutbox): a row is   *)
(* marked delivered only with an acknowledgement, and the endpoint never   *)
(* gives an event back.  It holds whatever goes wrong.                     *)
THEOREM DeliveredWasAcceptedHolds == Spec => []DeliveredWasAccepted
<1> USE DEF DeliveredWasAccepted, TypeOK, IsIn
<1>1. Init => DeliveredWasAccepted
  BY DEF Init, NewRow
<1>2. DeliveredWasAccepted /\ TypeOK /\ JobInv /\ [Next]_vars
        => DeliveredWasAccepted'
  <2> SUFFICES ASSUME DeliveredWasAccepted, TypeOK, JobInv, [Next]_vars
               PROVE  DeliveredWasAccepted'
    OBVIOUS
  <2>1. ASSUME NEW w \in Sender, NEW e \in Event, Publish(w, e)
        PROVE  DeliveredWasAccepted'
    BY <2>1 DEF Publish, NewRow
  <2>2. ASSUME NEW w \in Sender, Claim(w) PROVE DeliveredWasAccepted'
    <3>1. \A e \in Event :
             row'[e].st = "processing" \/ row'[e].st = row[e].st
      <4>1. PICK B \in Batches, age \in ReadingAge : ClaimBatch(w, B, age)
        BY <2>2 DEF Claim
      <4>2. QED
        BY <4>1 DEF ClaimBatch, Row
    <3>2. QED
      BY <2>2, <3>1 DEF Claim
  <2>3. ASSUME NEW w \in Sender, StartSend(w) PROVE DeliveredWasAccepted'
    BY <2>3 DEF StartSend
  <2>4. ASSUME NEW w \in Sender, Acknowledged(w) \/ SendFails(w)
        PROVE  DeliveredWasAccepted'
    BY <2>4 DEF Acknowledged, SendFails
  <2>5. ASSUME NEW w \in Sender, MarkDelivered(w)
        PROVE  DeliveredWasAccepted'
    <3>1. job[w].ev \in accepted
      BY <2>5 DEF MarkDelivered, JobInv
    <3>2. QED
      BY <2>5, <3>1 DEF MarkDelivered, Mark, NextOfBatch
  <2>6. ASSUME NEW w \in Sender, MarkDeadLetter(w) \/ MarkRetry(w)
        PROVE  DeliveredWasAccepted'
    <3>1. job[w].ev \in Event /\ row[job[w].ev] \in Row
      BY <2>6 DEF MarkDeadLetter, MarkRetry, JobInv
    <3>2. ASSUME NEW new, Mark(w, new), new.st # "delivered"
          PROVE  DeliveredWasAccepted'
      BY <3>1, <3>2 DEF Mark, NextOfBatch
    <3>3. CASE MarkDeadLetter(w)
      <4> DEFINE new == [row[job[w].ev] EXCEPT !.st = "dead_letter",
                                               !.lease = 0, !.err = "error"]
      <4>1. Mark(w, new) /\ new.st # "delivered"
        BY <3>1, <3>3 DEF MarkDeadLetter, Row
      <4>2. QED
        BY <3>2, <4>1
    <3>4. CASE MarkRetry(w)
      <4> DEFINE new == [row[job[w].ev] EXCEPT
                            !.st = "pending", !.lease = 0, !.err = "error",
                            !.wait = RetryDelay[batch[w][job[w].ev]]]
      <4>1. Mark(w, new) /\ new.st # "delivered"
        BY <3>1, <3>4 DEF MarkRetry, Row
      <4>2. QED
        BY <3>2, <4>1
    <3>5. QED
      BY <2>6, <3>3, <3>4
  <2>7. ASSUME NEW e \in Event, Replay(e) PROVE DeliveredWasAccepted'
    BY <2>7 DEF Replay, NewRow
  <2>8. ASSUME NEW w \in Sender, Crash(w) PROVE DeliveredWasAccepted'
    BY <2>8 DEF Crash
  <2>9. ASSUME Tick PROVE DeliveredWasAccepted'
    BY <2>9 DEF Tick, Row
  <2>10. CASE UNCHANGED vars
    BY <2>10 DEF vars
  <2>11. QED
    BY <2>1, <2>2, <2>3, <2>4, <2>5, <2>6, <2>7, <2>8, <2>9, <2>10
    DEF Next, Sending
<1>3. QED
  BY <1>1, <1>2, TypeAndJobs, PTL DEF Spec

-----------------------------------------------------------------------------

(* Sums of request times. *)
LEMMA Products ==
    ASSUME NEW s \in Nat
    PROVE  /\ \A n \in Nat : n * s \in Nat
           /\ \A n \in Nat \ {0} : n * s = s + (n - 1) * s
           /\ \A n, l \in Nat : n <= l => n * s <= l * s
<1>1. \A n \in Nat : n * s \in Nat
  OBVIOUS
<1>2. \A n \in Nat \ {0} : n * s = s + (n - 1) * s
  OBVIOUS
<1>3. \A n, l \in Nat : n <= l => n * s <= l * s
  OBVIOUS
<1>4. QED
  BY <1>1, <1>2, <1>3

LEMMA UnsentFinite ==
    ASSUME IsFiniteSet(Event), NEW w \in Sender
    PROVE  /\ IsFiniteSet(Unsent(w)) /\ Cardinality(Unsent(w)) \in Nat
           /\ \A e \in Event : batch[w][e] > 0 => Cardinality(Unsent(w)) >= 1
<1>1. Unsent(w) \subseteq Event
  BY DEF Unsent
<1>2. IsFiniteSet(Unsent(w)) /\ Cardinality(Unsent(w)) \in Nat
  BY <1>1, FS_Subset, FS_CardinalityType
<1>3. ASSUME NEW e \in Event, batch[w][e] > 0
      PROVE  Cardinality(Unsent(w)) >= 1
  <2>1. Unsent(w) # {}
    BY <1>3 DEF Unsent
  <2>2. Cardinality(Unsent(w)) # 0
    BY <1>2, <2>1, FS_EmptySet
  <2>3. QED
    BY <1>2, <2>2
<1>4. QED
  BY <1>2, <1>3

(* A sender with rows left to send needs no negative time for them. *)
LEMMA NeedNat ==
    ASSUME IsFiniteSet(Event), TypeOK, NEW w \in Sender,
           NEW e \in Event, batch[w][e] > 0
    PROVE  Need(w) \in Nat
<1>1. Cardinality(Unsent(w)) \in Nat \ {0}
  BY UnsentFinite
<1>2. /\ Cardinality(Unsent(w)) * SendTimeout \in Nat
      /\ (Cardinality(Unsent(w)) - 1) * SendTimeout \in Nat
  BY <1>1, Products, OutboxAssumption
<1>3. job[w].left \in Nat
  BY DEF TypeOK, Job
<1>4. QED
  BY <1>2, <1>3 DEF Need

LEMMA NeedUnchanged ==
    ASSUME NEW w \in Sender, batch'[w] = batch[w], job'[w] = job[w]
    PROVE  Need(w)' = Need(w)
<1>1. Unsent(w)' = Unsent(w)
  BY DEF Unsent
<1>2. QED
  BY <1>1 DEF Need, IsIn

(* The induction step of the invariant about batches, for a step that      *)
(* leaves all senders but w alone.                                         *)
LEMMA OthersKeepBatches ==
    ASSUME BatchInv, NEW w \in Sender,
           \A v \in Sender \ {w} : batch'[v] = batch[v] /\ job'[v] = job[v],
           \A v \in Sender \ {w}, e \in Event :
               batch[v][e] > 0 => row'[e] = row[e]
    PROVE  \A v \in Sender \ {w}, e \in Event :
               batch'[v][e] > 0 => /\ row'[e].st = "processing"
                                   /\ row'[e].attempts = batch'[v][e]
                                   /\ row'[e].wait = 0
                                   /\ row'[e].lease > Need(v)'
  BY NeedUnchanged DEF BatchInv

OutboxInv == BatchInv /\ ClaimedOnce /\ DeadLetterEarned

(* The step cases share these assumptions. *)
PromptOutbox == PromptProcesses /\ BatchFitsLease /\ IsFiniteSet(Event)

OutboxState == TypeOK /\ JobInv /\ OutboxInv

LEMMA PublishKeeps ==
    ASSUME OutboxState, NEW w \in Sender, NEW e \in Event, Publish(w, e)
    PROVE  OutboxInv'
<1> USE DEF OutboxState, OutboxInv
<1>1. \A v \in Sender \ {w} : batch'[v] = batch[v] /\ job'[v] = job[v]
  BY DEF Publish, Becomes, Sets, TypeOK
<1>2. \A f \in Event : row[f].st # "none" => row'[f] = row[f]
  BY DEF Publish, TypeOK
<1>3. \A v \in Sender, f \in Event : batch[v][f] > 0 => row'[f] = row[f]
  BY <1>2 DEF BatchInv
<1>4. batch' = batch /\ \A f \in Event : batch[w][f] = 0
  BY DEF Publish, JobInv, TypeOK, IsIn
<1>5. BatchInv'
  BY <1>1, <1>3, <1>4, OthersKeepBatches DEF BatchInv
<1>6. ClaimedOnce'
  BY <1>4 DEF ClaimedOnce
<1>7. \A f \in Event : row'[f].st = "dead_letter" => row'[f] = row[f]
  BY DEF Publish, NewRow, TypeOK
<1>8. DeadLetterEarned'
  BY <1>7 DEF DeadLetterEarned
<1>9. QED
  BY <1>5, <1>6, <1>8

(* What a claim of the rows B leaves: they are leased and in the batch of  *)
(* w, and nothing else has changed.                                        *)
Claimed(w, B) ==
    /\ B \subseteq Event /\ Cardinality(B) <= Limit
    /\ \A e \in B : /\ row[e].st \in {"pending", "processing"}
                   /\ row[e].wait = 0 /\ row[e].lease = 0
    /\ \A e \in B : /\ row'[e].st = "processing"
                   /\ row'[e].attempts = Attempted(e)
                   /\ row'[e].wait = row[e].wait
                   /\ row'[e].lease = LeaseTTL
    /\ \A e \in Event \ B : row'[e] = row[e]
    /\ \A e \in B : batch'[w][e] = Attempted(e)
    /\ \A e \in Event \ B : batch'[w][e] = 0
    /\ \A v \in Sender \ {w} : batch'[v] = batch[v] /\ job'[v] = job[v]
    /\ B # {} => job'[w].st = "batch"

LEMMA ClaimLeases ==
    ASSUME PromptOutbox, OutboxState, NEW w \in Sender, Claim(w)
    PROVE  \E B : Claimed(w, B)
<1> USE DEF OutboxState, OutboxInv
<1>1. PICK B \in Batches, age \in ReadingAge : ClaimBatch(w, B, age)
  BY DEF Claim
<1>2. age = 0
  BY <1>1 DEF PromptOutbox, PromptProcesses, ReadingAge
<1>3. /\ B \subseteq Due /\ B \subseteq Event
      /\ Cardinality(B) <= Limit
  BY <1>1 DEF Batches, Due
<1>4. \A e \in B : /\ row[e].st \in {"pending", "processing"}
                   /\ row[e].wait = 0 /\ row[e].lease = 0
  BY <1>3 DEF Due
<1>5. /\ \A e \in B : /\ row'[e].st = "processing"
                      /\ row'[e].attempts = Attempted(e)
                      /\ row'[e].wait = row[e].wait
                      /\ row'[e].lease = LeaseTTL
      /\ \A e \in Event \ B : row'[e] = row[e]
  <2>1. \A e \in B : row'[e] = [row[e] EXCEPT !.st = "processing",
                                             !.attempts = Attempted(e),
                                             !.lease = LeaseTTL - age]
    BY <1>1, <1>3 DEF ClaimBatch
  <2>2. LeaseTTL - age = LeaseTTL
    BY <1>2, OutboxAssumption
  <2>3. \A e \in B : row[e] \in Row
    BY <1>3 DEF TypeOK
  <2>4. \A e \in Event \ B : row'[e] = row[e]
    BY <1>1 DEF ClaimBatch
  <2>5. QED
    BY <2>1, <2>2, <2>3, <2>4 DEF Row
<1>6. /\ \A e \in B : batch'[w][e] = Attempted(e)
      /\ \A e \in Event \ B : batch'[w][e] = 0
      /\ \A v \in Sender \ {w} : batch'[v] = batch[v] /\ job'[v] = job[v]
  BY <1>1, <1>3 DEF ClaimBatch, Becomes, Sets, TypeOK
<1>7. B # {} => job'[w].st = "batch"
  BY <1>1 DEF ClaimBatch, Becomes, Sets, TypeOK
<1>8. QED
  BY <1>3, <1>4, <1>5, <1>6, <1>7 DEF Claimed

(* A row in a batch has a live lease, so no claim takes it. *)
LEMMA ClaimTakesFree ==
    ASSUME PromptOutbox, OutboxState, NEW w \in Sender, NEW B, Claimed(w, B)
    PROVE  \A v \in Sender, e \in Event : batch[v][e] > 0 => e \notin B
<1> USE DEF OutboxState, OutboxInv
<1> SUFFICES ASSUME NEW v \in Sender, NEW e \in Event, batch[v][e] > 0,
                    e \in B
             PROVE  FALSE
  OBVIOUS
<1>1. Need(v) \in Nat
  BY NeedNat DEF PromptOutbox
<1>2. row[e].lease > Need(v)
  BY DEF BatchInv
<1>3. row[e].lease = 0
  BY DEF Claimed
<1>4. QED
  BY <1>1, <1>2, <1>3

(* A claim takes only rows without a live lease, so none of another        *)
(* sender's batch, and leases them for longer than the batch takes.        *)
LEMMA ClaimKeeps ==
    ASSUME PromptOutbox, OutboxState, NEW w \in Sender, Claim(w)
    PROVE  OutboxInv'
<1> USE DEF OutboxState, OutboxInv
<1>1. PICK B : Claimed(w, B)
  BY ClaimLeases
<1>2. B \subseteq Event /\ Cardinality(B) <= Limit
  BY <1>1 DEF Claimed
<1>3. \A e \in B : /\ row[e].st \in {"pending", "processing"}
                   /\ row[e].wait = 0 /\ row[e].lease = 0
  BY <1>1 DEF Claimed
<1>4. /\ \A e \in B : /\ row'[e].st = "processing"
                      /\ row'[e].attempts = Attempted(e)
                      /\ row'[e].wait = row[e].wait
                      /\ row'[e].lease = LeaseTTL
      /\ \A e \in Event \ B : row'[e] = row[e]
  BY <1>1 DEF Claimed
<1>5. /\ \A e \in B : batch'[w][e] = Attempted(e)
      /\ \A e \in Event \ B : batch'[w][e] = 0
      /\ \A v \in Sender \ {w} : batch'[v] = batch[v] /\ job'[v] = job[v]
  BY <1>1 DEF Claimed
<1>6. B # {} => job'[w].st = "batch"
  BY <1>1 DEF Claimed
<1>7. \A v \in Sender, e \in Event : batch[v][e] > 0 => e \notin B
  BY <1>1, ClaimTakesFree
<1>8. \A e \in B : Attempted(e) \in 1..MaxAttempts
  BY <1>2, ClaimTypes
<1>9. Unsent(w)' = B
  BY <1>2, <1>5, <1>8 DEF Unsent
<1>10. B # {} => Need(w)' < LeaseTTL
  <2>1. B # {} => Need(w)' = Cardinality(B) * SendTimeout
    BY <1>6, <1>9 DEF Need, IsIn
  <2>2. Cardinality(B) \in Nat
    BY <1>2, FS_Subset, FS_CardinalityType DEF PromptOutbox
  <2>3. Cardinality(B) * SendTimeout <= Limit * SendTimeout
    BY <1>2, <2>2, Products, OutboxAssumption
  <2>4. Cardinality(B) * SendTimeout \in Nat /\ Limit * SendTimeout \in Nat
    BY <2>2, Products, OutboxAssumption
  <2>5. QED
    BY <2>1, <2>3, <2>4, OutboxAssumption DEF PromptOutbox, BatchFitsLease
<1>11. \A e \in Event :
          batch'[w][e] > 0 => /\ row'[e].st = "processing"
                              /\ row'[e].attempts = batch'[w][e]
                              /\ row'[e].wait = 0
                              /\ row'[e].lease > Need(w)'
  <2> SUFFICES ASSUME NEW e \in Event, batch'[w][e] > 0
               PROVE  /\ row'[e].st = "processing"
                      /\ row'[e].attempts = batch'[w][e]
                      /\ row'[e].wait = 0
                      /\ row'[e].lease > Need(w)'
    OBVIOUS
  <2>1. e \in B
    BY <1>5
  <2>2. /\ row'[e].st = "processing" /\ row'[e].attempts = Attempted(e)
        /\ row'[e].wait = row[e].wait /\ row'[e].lease = LeaseTTL
    BY <1>4, <2>1
  <2>3. QED
    BY <1>3, <1>5, <1>10, <2>1, <2>2, OutboxAssumption
<1>12. BatchInv'
  <2>1. \A v \in Sender \ {w}, e \in Event :
           batch[v][e] > 0 => row'[e] = row[e]
    BY <1>4, <1>7
  <2>2. QED
    BY <1>5, <1>11, <2>1, OthersKeepBatches DEF BatchInv
<1>13. ClaimedOnce'
  <2> SUFFICES ASSUME NEW e \in Event, NEW u \in Sender, NEW v \in Sender,
                      batch'[u][e] > 0, batch'[v][e] > 0
               PROVE  u = v
    BY DEF ClaimedOnce
  <2>1. CASE e \in B
    BY <1>5, <1>7, <2>1
  <2>2. CASE e \notin B
    BY <1>5, <2>2 DEF ClaimedOnce
  <2>3. QED
    BY <2>1, <2>2
<1>14. DeadLetterEarned'
  BY <1>4 DEF DeadLetterEarned
<1>15. QED
  BY <1>12, <1>13, <1>14

(* Starting a request and its end need no more time than was left. *)
LEMMA RequestKeeps ==
    ASSUME PromptOutbox, OutboxState, NEW w \in Sender,
           StartSend(w) \/ Acknowledged(w) \/ SendFails(w)
    PROVE  OutboxInv'
<1> USE DEF OutboxState, OutboxInv
<1>1. /\ row' = row /\ batch' = batch
      /\ \A v \in Sender \ {w} : job'[v] = job[v]
  BY DEF StartSend, Acknowledged, SendFails, Sets, TypeOK
<1>2. ASSUME NEW e \in Event, batch[w][e] > 0 PROVE Need(w)' <= Need(w)
  <2>1. Cardinality(Unsent(w)) \in Nat \ {0} /\ Unsent(w)' = Unsent(w)
    BY <1>1, <1>2, UnsentFinite DEF PromptOutbox, Unsent
  <2> DEFINE n == Cardinality(Unsent(w))
  <2>2. /\ n * SendTimeout = SendTimeout + (n - 1) * SendTimeout
        /\ (n - 1) * SendTimeout \in Nat
    BY <2>1, Products, OutboxAssumption
  <2>3. CASE StartSend(w)
    <3>1. /\ job[w].st = "batch" /\ job'[w].st = "sending"
          /\ job'[w].left = SendTimeout
      BY <2>3 DEF StartSend, Sets, IsIn, TypeOK
    <3>2. Need(w) = n * SendTimeout
      BY <3>1 DEF Need, IsIn
    <3>3. Need(w)' = SendTimeout + (n - 1) * SendTimeout
      BY <2>1, <3>1 DEF Need, IsIn
    <3>4. QED
      BY <2>2, <3>2, <3>3, OutboxAssumption
  <2>4. CASE Acknowledged(w) \/ SendFails(w)
    <3>1. /\ job[w].st = "sending" /\ job'[w].st \in {"ok", "failed"}
          /\ job'[w].left = 0 /\ job[w].left \in Nat
      BY <2>4 DEF Acknowledged, SendFails, Sets, IsIn, TypeOK, Job
    <3>2. Need(w) = job[w].left + (n - 1) * SendTimeout
      BY <3>1 DEF Need, IsIn
    <3>3. Need(w)' = 0 + (n - 1) * SendTimeout
      BY <2>1, <3>1 DEF Need, IsIn
    <3>4. QED
      BY <2>2, <3>1, <3>2, <3>3
  <2>5. QED
    BY <2>3, <2>4
<1>3. \A e \in Event : batch[w][e] > 0 => row[e].lease > Need(w)'
  <2> SUFFICES ASSUME NEW e \in Event, batch[w][e] > 0
               PROVE  row[e].lease > Need(w)'
    OBVIOUS
  <2>1. Need(w) \in Nat /\ Need(w)' <= Need(w) /\ row[e].lease > Need(w)
    BY <1>2, NeedNat DEF PromptOutbox, BatchInv
  <2>2. row[e].lease \in Nat
    BY DEF TypeOK, Row
  <2>3. Need(w)' \in Int
    <3>1. Cardinality(Unsent(w)) \in Nat \ {0} /\ Unsent(w)' = Unsent(w)
      BY <1>1, UnsentFinite DEF PromptOutbox, Unsent
    <3>2. (Cardinality(Unsent(w)) - 1) * SendTimeout \in Nat
      BY <3>1, Products, OutboxAssumption
    <3>3. job'[w].left \in Nat /\ job'[w].st # "batch"
      BY OutboxAssumption DEF StartSend, Acknowledged, SendFails, Sets, TypeOK
    <3>4. QED
      BY <3>1, <3>2, <3>3 DEF Need, IsIn
  <2>4. QED
    BY <2>1, <2>2, <2>3
<1>4. BatchInv'
  BY <1>1, <1>3, OthersKeepBatches DEF BatchInv
<1>5. ClaimedOnce' /\ DeadLetterEarned'
  BY <1>1 DEF ClaimedOnce, DeadLetterEarned
<1>6. QED
  BY <1>4, <1>5

(* A mark changes the row of this sender's request and no other. *)
LEMMA MarkKeeps ==
    ASSUME PromptOutbox, OutboxState, NEW w \in Sender, NEW new \in Row,
           IsIn(w, "ok") \/ IsIn(w, "failed"),
           Mark(w, new),
           new.st = "dead_letter" => new.attempts = MaxAttempts
    PROVE  OutboxInv'
<1> USE DEF OutboxState, OutboxInv
<1> DEFINE ev == job[w].ev
           n == Cardinality(Unsent(w))
<1>1. ev \in Event /\ batch[w][ev] > 0
  BY DEF JobInv
<1>2. row' = [row EXCEPT ![ev] = new]
  BY DEF Mark, PromptOutbox, PromptProcesses
<1>3. batch' = [batch EXCEPT ![w][ev] = 0]
  BY DEF Mark, NextOfBatch
<1>4. PICK st \in {"idle", "batch"} :
         /\ Becomes(w, st)
         /\ st = "idle" => \A e \in Event \ {ev} : ~(batch[w][e] > 0)
  <2> DEFINE s == IF \E e \in Event \ {ev} : batch[w][e] > 0
                  THEN "batch" ELSE "idle"
  <2>1. Becomes(w, s) /\ s \in {"idle", "batch"}
    BY DEF Mark, NextOfBatch
  <2>2. s = "idle" => \A e \in Event \ {ev} : ~(batch[w][e] > 0)
    OBVIOUS
  <2>3. QED
    BY <2>1, <2>2
<1> HIDE DEF ev
<1>5. \A v \in Sender \ {w} : batch'[v] = batch[v] /\ job'[v] = job[v]
  BY <1>3, <1>4 DEF Becomes, Sets, TypeOK
<1>6. /\ batch'[w][ev] = 0
      /\ \A e \in Event \ {ev} : batch'[w][e] = batch[w][e]
  BY <1>1, <1>3 DEF TypeOK
<1>7. \A e \in Event \ {ev} : row'[e] = row[e]
  BY <1>2 DEF TypeOK
<1>8. \A v \in Sender \ {w}, e \in Event : batch[v][e] > 0 => row'[e] = row[e]
  BY <1>1, <1>7 DEF ClaimedOnce
<1>9. ASSUME NEW e \in Event, batch'[w][e] > 0 PROVE Need(w)' = Need(w)
  <2>1. e # ev /\ batch[w][e] > 0
    BY <1>6, <1>9
  <2>2. st = "batch"
    BY <1>4, <2>1
  <2>3. Unsent(w)' = Unsent(w) \ {ev}
    BY <1>6 DEF Unsent
  <2>4. ev \in Unsent(w)
    BY <1>1 DEF Unsent
  <2>5. Cardinality(Unsent(w)') = n - 1
    BY <2>3, <2>4, UnsentFinite, FS_RemoveElement DEF PromptOutbox
  <2>6. job'[w].st = "batch"
    BY <1>4, <2>2 DEF Becomes, Sets, TypeOK
  <2>7. Need(w)' = (n - 1) * SendTimeout
    BY <2>5, <2>6 DEF Need, IsIn
  <2>8. Need(w) = job[w].left + (n - 1) * SendTimeout
    BY DEF Need, IsIn
  <2>9. job[w].left = 0
    BY DEF JobInv, IsIn
  <2>10. QED
    <3>1. n \in Nat \ {0}
      BY <2>1, UnsentFinite DEF PromptOutbox
    <3>2. (n - 1) * SendTimeout \in Nat
      BY <3>1, Products, OutboxAssumption
    <3>3. QED
      BY <2>7, <2>8, <2>9, <3>2
<1>10. BatchInv'
  <2>1. \A e \in Event :
           batch'[w][e] > 0 => /\ row'[e].st = "processing"
                               /\ row'[e].attempts = batch'[w][e]
                               /\ row'[e].wait = 0
                               /\ row'[e].lease > Need(w)'
    BY <1>6, <1>7, <1>9 DEF BatchInv
  <2>2. QED
    BY <1>5, <1>8, <2>1, OthersKeepBatches DEF BatchInv
<1>11. ClaimedOnce'
  <2>1. \A v \in Sender, e \in Event : batch'[v][e] > 0 => batch[v][e] > 0
    BY <1>5, <1>6
  <2>2. QED
    BY <2>1 DEF ClaimedOnce
<1>12. DeadLetterEarned'
  <2>1. row'[ev] = new
    BY <1>1, <1>2 DEF TypeOK
  <2>2. QED
    BY <1>7, <2>1 DEF DeadLetterEarned
<1>13. QED
  BY <1>10, <1>11, <1>12

(* The mark a sender makes, and the row it leaves. *)
LEMMA MarksKeep ==
    ASSUME PromptOutbox, OutboxState, NEW w \in Sender,
           MarkDelivered(w) \/ MarkDeadLetter(w) \/ MarkRetry(w)
    PROVE  OutboxInv'
<1> USE DEF OutboxState, OutboxInv
<1> DEFINE ev == job[w].ev
<1>1. /\ ev \in Event /\ batch[w][ev] > 0 /\ batch[w][ev] \in 1..MaxAttempts
      /\ row[ev] \in Row /\ row[ev].attempts = batch[w][ev]
      /\ IsIn(w, "ok") \/ IsIn(w, "failed")
  BY OutboxAssumption
  DEF MarkDelivered, MarkDeadLetter, MarkRetry, JobInv, TypeOK, Attempts,
      BatchInv
<1>2. CASE MarkDelivered(w)
  <2> DEFINE new == [row[ev] EXCEPT !.st = "delivered", !.lease = 0,
                                    !.err = "null"]
  <2>1. new \in Row /\ new.st # "dead_letter"
    BY <1>1, RowTypes DEF Row
  <2>2. Mark(w, new)
    BY <1>2 DEF MarkDelivered
  <2>3. QED
    BY <1>1, <2>1, <2>2, MarkKeeps
<1>3. CASE MarkDeadLetter(w)
  <2> DEFINE new == [row[ev] EXCEPT !.st = "dead_letter", !.lease = 0,
                                    !.err = "error"]
  <2>1. new \in Row /\ new.attempts = row[ev].attempts
    BY <1>1, RowTypes DEF Row
  <2>2. Mark(w, new)
    BY <1>3 DEF MarkDeadLetter
  <2>3. row[ev].attempts = MaxAttempts
    BY <1>1, <1>3, OutboxAssumption DEF MarkDeadLetter, OutOfAttempts
  <2>4. QED
    BY <1>1, <2>1, <2>2, <2>3, MarkKeeps
<1>4. CASE MarkRetry(w)
  <2> DEFINE new == [row[ev] EXCEPT
                        !.st = "pending", !.lease = 0, !.err = "error",
                        !.wait = RetryDelay[batch[w][ev]]]
  <2>1. RetryDelay[batch[w][ev]] \in Nat
    BY <1>1, OutboxAssumption
  <2>2. new \in Row /\ new.st # "dead_letter"
    BY <1>1, <2>1, RowTypes DEF Row
  <2>3. Mark(w, new)
    BY <1>4 DEF MarkRetry
  <2>4. QED
    BY <1>1, <2>2, <2>3, MarkKeeps
<1>5. QED
  BY <1>2, <1>3, <1>4

LEMMA CrashKeeps ==
    ASSUME OutboxState, NEW w \in Sender, Crash(w)
    PROVE  OutboxInv'
<1> USE DEF OutboxState, OutboxInv
<1>1. /\ row' = row
      /\ \A e \in Event : batch'[w][e] = 0
      /\ \A v \in Sender \ {w} : batch'[v] = batch[v] /\ job'[v] = job[v]
  BY DEF Crash, Becomes, Sets, TypeOK
<1>2. BatchInv'
  BY <1>1, OthersKeepBatches DEF BatchInv
<1>3. ClaimedOnce'
  BY <1>1 DEF ClaimedOnce
<1>4. DeadLetterEarned'
  BY <1>1 DEF DeadLetterEarned
<1>5. QED
  BY <1>2, <1>3, <1>4

(* Time takes as much from the lease of a row as from the request its      *)
(* sender is waiting for.                                                  *)
LEMMA TickKeeps ==
    ASSUME PromptOutbox, OutboxState, Tick
    PROVE  OutboxInv'
<1> USE DEF OutboxState, OutboxInv
<1>1. batch' = batch
  BY DEF Tick
<1>2. \A e \in Event : /\ row'[e].st = row[e].st
                       /\ row'[e].attempts = row[e].attempts
                       /\ row'[e].wait = Less(row[e].wait)
                       /\ row'[e].lease = Less(row[e].lease)
  BY DEF Tick, TypeOK, Row
<1>3. \A w \in Sender : /\ job'[w].st = job[w].st
                        /\ job'[w].left = Less(job[w].left)
  BY DEF Tick, TypeOK, Job
<1>4. BatchInv'
  <2> SUFFICES ASSUME NEW w \in Sender, NEW e \in Event, batch'[w][e] > 0
               PROVE  /\ row'[e].st = "processing"
                      /\ row'[e].attempts = batch'[w][e]
                      /\ row'[e].wait = 0
                      /\ row'[e].lease > Need(w)'
    BY DEF BatchInv
  <2>1. batch[w][e] > 0
    BY <1>1
  <2>2. Prompt(w)
    BY DEF Tick, PromptOutbox, PromptProcesses
  <2>3. job[w].st = "sending" /\ job[w].left > 0
    BY <2>1, <2>2 DEF Prompt, IsIn, JobInv
  <2>4. Cardinality(Unsent(w)) \in Nat \ {0} /\ Unsent(w)' = Unsent(w)
    BY <1>1, <2>1, UnsentFinite DEF PromptOutbox, Unsent
  <2> DEFINE m == (Cardinality(Unsent(w)) - 1) * SendTimeout
  <2>5. m \in Nat
    BY <2>4, Products, OutboxAssumption
  <2>6. Need(w) = job[w].left + m
    BY <2>3 DEF Need, IsIn
  <2>7. Need(w)' = job'[w].left + m
    BY <1>3, <2>3, <2>4 DEF Need, IsIn
  <2>8. job'[w].left = job[w].left - 1 /\ job[w].left \in Nat
    BY <1>3, <2>3 DEF Less, TypeOK, Job
  <2>9. row[e].lease > Need(w) /\ row[e].lease \in Nat
    BY <2>1 DEF BatchInv, TypeOK, Row
  <2> HIDE DEF m
  <2>10. row'[e].lease = row[e].lease - 1
    BY <1>2, <2>3, <2>5, <2>6, <2>8, <2>9 DEF Less
  <2>11. row'[e].lease > Need(w)'
    BY <2>5, <2>6, <2>7, <2>8, <2>9, <2>10
  <2>12. QED
    BY <1>1, <1>2, <2>1, <2>11 DEF BatchInv, Less
<1>5. ClaimedOnce'
  BY <1>1 DEF ClaimedOnce
<1>6. DeadLetterEarned'
  BY <1>2 DEF DeadLetterEarned
<1>7. QED
  BY <1>4, <1>5, <1>6

LEMMA OutboxInvHolds ==
    ASSUME PromptOutbox
    PROVE  Spec => []OutboxState
<1>1. Init => OutboxInv
  BY DEF Init, NewRow, OutboxInv, BatchInv, ClaimedOnce, DeadLetterEarned
<1>2. OutboxState /\ [Next]_vars => OutboxInv'
  <2> SUFFICES ASSUME OutboxState, [Next]_vars PROVE OutboxInv'
    OBVIOUS
  <2>1. CASE UNCHANGED vars
    <3>1. \A w \in Sender : Need(w)' = Need(w)
      BY <2>1, NeedUnchanged DEF vars
    <3>2. QED
      BY <2>1, <3>1
      DEF vars, OutboxState, OutboxInv, BatchInv, ClaimedOnce,
          DeadLetterEarned
  <2>2. ASSUME NEW w \in Sender, Sending(w) PROVE OutboxInv'
    BY <2>2, ClaimKeeps, RequestKeeps, MarksKeep DEF Sending
  <2>3. ~\E e \in Event : Replay(e)
    BY DEF Replay, PromptOutbox, PromptProcesses
  <2>4. QED
    BY <2>1, <2>2, <2>3, PublishKeeps, CrashKeeps, TickKeeps DEF Next
<1>3. QED
  BY <1>1, <1>2, TypeAndJobs, PTL DEF Spec, OutboxState

(* A row is in one batch at most (ClaimGovernanceOutboxEvents): prompt     *)
(* senders whose batches fit into the lease never send the same event at   *)
(* the same time.                                                          *)
THEOREM ClaimedOnceHolds ==
    ASSUME PromptOutbox
    PROVE  Spec => []ClaimedOnce
  BY OutboxInvHolds, PTL DEF OutboxState, OutboxInv

(* An event dies only after MaxAttempts claims (handleOutboxFailure).      *)
THEOREM DeadLetterEarnedHolds ==
    ASSUME PromptOutbox
    PROVE  Spec => []DeadLetterEarned
  BY OutboxInvHolds, PTL DEF OutboxState, OutboxInv

(* A delivered or dead event stays so: under the same conditions no late   *)
(* mark puts it back among the rows to send.                               *)
THEOREM SettledIsFinalHolds ==
    ASSUME PromptOutbox
    PROVE  Spec => SettledIsFinal
<1> DEFINE Stays == \A e \in Event :
              row[e].st \in {"delivered", "dead_letter"}
                  => row'[e].st = row[e].st
<1>1. OutboxState /\ [Next]_vars => [Stays]_vars
  <2> SUFFICES ASSUME OutboxState, Next PROVE Stays
    OBVIOUS
  <2> USE DEF OutboxState, TypeOK
  <2>1. ASSUME NEW w \in Sender, NEW e \in Event, Publish(w, e) PROVE Stays
    BY <2>1 DEF Publish
  <2>2. ASSUME NEW w \in Sender, Claim(w) PROVE Stays
    <3>1. PICK B \in Batches, age \in ReadingAge : ClaimBatch(w, B, age)
      BY <2>2 DEF Claim
    <3>2. QED
      BY <3>1 DEF Batches, Due, ClaimBatch
  <2>3. ASSUME NEW w \in Sender,
               MarkDelivered(w) \/ MarkDeadLetter(w) \/ MarkRetry(w)
        PROVE  Stays
    <3>1. row[job[w].ev].st = "processing"
      BY <2>3
      DEF MarkDelivered, MarkDeadLetter, MarkRetry, JobInv, OutboxInv, BatchInv
    <3>2. \A e \in Event : e # job[w].ev => row'[e] = row[e]
      BY <2>3 DEF MarkDelivered, MarkDeadLetter, MarkRetry, Mark
    <3>3. QED
      BY <3>1, <3>2
  <2>4. ASSUME Tick PROVE Stays
    BY <2>4 DEF Tick, Row
  <2>5. ~\E e \in Event : Replay(e)
    BY DEF Replay, PromptOutbox, PromptProcesses
  <2>6. ASSUME NEW w \in Sender,
               \/ StartSend(w) \/ Acknowledged(w) \/ SendFails(w)
               \/ Crash(w)
        PROVE  Stays
    BY <2>6 DEF StartSend, Acknowledged, SendFails, Crash
  <2>7. QED
    BY <2>1, <2>2, <2>3, <2>4, <2>5, <2>6 DEF Next, Sending
<1>2. QED
  BY <1>1, OutboxInvHolds, PTL DEF Spec, SettledIsFinal

-----------------------------------------------------------------------------
(* The refinement. *)

(* What the mapping makes of an event, and when it does not change. *)
LEMMA Mapped ==
    /\ \A e \in Event : /\ FateOf[e] = Fate(row[e].st)
                        /\ TriesOf[e] = row[e].attempts
                        /\ HandsOf[e] = {w \in Sender : batch[w][e] > 0}
    /\ \A e \in Event : /\ FateOf'[e] = Fate(row'[e].st)
                        /\ TriesOf'[e] = row'[e].attempts
                        /\ HandsOf'[e] = {w \in Sender : batch'[w][e] > 0}
  BY DEF FateOf, TriesOf, HandsOf

SameFates == FateOf' = FateOf /\ TriesOf' = TriesOf

LEMMA FatesStay ==
    ASSUME \A e \in Event : /\ Fate(row'[e].st) = Fate(row[e].st)
                            /\ row'[e].attempts = row[e].attempts
    PROVE  SameFates
<1>1. FateOf' = FateOf
  BY DEF FateOf
<1>2. TriesOf' = TriesOf
  BY DEF TriesOf
<1>3. QED
  BY <1>1, <1>2 DEF SameFates

LEMMA HandsStay ==
    ASSUME batch' = batch
    PROVE  HandsOf' = HandsOf
  BY DEF HandsOf

(* An event in a batch is open, has been tried, and is in no other hands.  *)
LEMMA InHands ==
    ASSUME OutboxState, NEW w \in Sender, NEW e \in Event, batch[w][e] > 0
    PROVE  /\ HandsOf[e] = {w} /\ FateOf[e] = "open"
           /\ TriesOf[e] = batch[w][e]
<1> USE DEF OutboxState, OutboxInv
<1>1. HandsOf[e] = {w}
  BY Mapped DEF ClaimedOnce
<1>2. row[e].st = "processing" /\ row[e].attempts = batch[w][e]
  BY DEF BatchInv
<1>3. QED
  BY <1>1, <1>2, Mapped DEF Fate

LEMMA PublishOpens ==
    ASSUME OutboxState, NEW w \in Sender, NEW e \in Event, Publish(w, e)
    PROVE  Delivery!Open(e) \/ UNCHANGED Delivery!deliveryVars
<1> USE DEF OutboxState, TypeOK
<1>1. HandsOf' = HandsOf /\ accepted' = accepted
  BY HandsStay DEF Publish
<1>2. CASE row[e].st = "none"
  <2>1. row' = [row EXCEPT ![e] = NewRow]
    BY <1>2 DEF Publish
  <2>2. FateOf[e] = "unpublished"
    BY <1>2, Mapped DEF Fate
  <2>3. FateOf' = [FateOf EXCEPT ![e] = "open"]
    BY <2>1 DEF FateOf, Fate, NewRow
  <2>4. TriesOf' = [TriesOf EXCEPT ![e] = 0]
    BY <2>1 DEF TriesOf, NewRow
  <2>5. QED
    BY <1>1, <2>2, <2>3, <2>4 DEF Delivery!Open
<1>3. CASE row[e].st # "none"
  <2>1. row' = row
    BY <1>3 DEF Publish
  <2>2. SameFates
    BY <2>1, FatesStay
  <2>3. QED
    BY <1>1, <2>2 DEF SameFates, Delivery!deliveryVars
<1>4. QED
  BY <1>2, <1>3

LEMMA ClaimIsTake ==
    ASSUME PromptOutbox, OutboxState, NEW w \in Sender, Claim(w)
    PROVE  \E B \in SUBSET Event : Delivery!Take(w, B)
<1> USE DEF OutboxState, TypeOK
<1>1. PICK B : Claimed(w, B)
  BY ClaimLeases
<1>2. B \in SUBSET Event
  BY <1>1 DEF Claimed
<1>3. \A v \in Sender, e \in Event : batch[v][e] > 0 => e \notin B
  BY <1>1, ClaimTakesFree
<1>4. \A e \in Event : w \notin HandsOf[e]
  <2>1. \A e \in Event : batch[w][e] = 0
    BY DEF Claim, JobInv
  <2>2. QED
    BY <2>1, Mapped
<1>5. \A e \in B : FateOf[e] = "open" /\ HandsOf[e] = {}
  <2> SUFFICES ASSUME NEW e \in B PROVE FateOf[e] = "open" /\ HandsOf[e] = {}
    OBVIOUS
  <2>1. e \in Event /\ row[e].st \in {"pending", "processing"}
    BY <1>1, <1>2 DEF Claimed
  <2>2. HandsOf[e] = {}
    BY <1>3, <2>1, Mapped
  <2>3. QED
    BY <2>1, <2>2, Mapped DEF Fate
<1>6. FateOf' = FateOf
  <2>1. \A e \in Event : Fate(row'[e].st) = Fate(row[e].st)
    BY <1>1 DEF Claimed, Fate
  <2>2. QED
    BY <2>1 DEF FateOf
<1>7. TriesOf' = [e \in Event |-> IF e \in B /\ TriesOf[e] < MaxAttempts
                                 THEN TriesOf[e] + 1 ELSE TriesOf[e]]
  <2>1. ASSUME NEW e \in Event
        PROVE  row'[e].attempts = IF e \in B /\ TriesOf[e] < MaxAttempts
                                  THEN TriesOf[e] + 1 ELSE TriesOf[e]
    <3>1. TriesOf[e] = row[e].attempts /\ row[e].attempts \in 0..MaxAttempts
      BY <2>1, Mapped DEF Row, Attempts
    <3>2. CASE e \in B
      <4>1. row'[e].attempts = Attempted(e)
        BY <1>1, <3>2 DEF Claimed
      <4>2. QED
        BY <3>1, <3>2, <4>1, OutboxAssumption DEF Attempted
    <3>3. CASE e \notin B
      BY <1>1, <2>1, <3>1, <3>3 DEF Claimed
    <3>4. QED
      BY <3>2, <3>3
  <2>2. QED
    BY <2>1 DEF TriesOf
<1>8. HandsOf' = [e \in Event |-> IF e \in B THEN {w} ELSE HandsOf[e]]
  <2>1. ASSUME NEW e \in Event
        PROVE  {v \in Sender : batch'[v][e] > 0}
                   = IF e \in B THEN {w} ELSE HandsOf[e]
    <3>1. \A v \in Sender \ {w} : batch'[v][e] = batch[v][e]
      BY <1>1 DEF Claimed
    <3>2. CASE e \in B
      <4>1. batch'[w][e] > 0
        <5>1. batch'[w][e] = Attempted(e)
          BY <1>1, <3>2 DEF Claimed
        <5>2. QED
          BY <2>1, <5>1, ClaimTypes, OutboxAssumption
      <4>2. \A v \in Sender \ {w} : ~(batch'[v][e] > 0)
        BY <1>3, <2>1, <3>1, <3>2
      <4>3. QED
        BY <3>2, <4>1, <4>2
    <3>3. CASE e \notin B
      <4>1. ~(batch'[w][e] > 0)
        BY <1>1, <2>1, <3>3 DEF Claimed
      <4>2. HandsOf[e] = {v \in Sender : batch[v][e] > 0} /\ w \notin HandsOf[e]
        BY <1>4, <2>1, Mapped
      <4>3. QED
        BY <3>1, <3>3, <4>1, <4>2
    <3>4. QED
      BY <3>2, <3>3
  <2>2. QED
    BY <2>1 DEF HandsOf
<1>9. accepted' = accepted
  BY DEF Claim
<1>10. QED
  BY <1>2, <1>4, <1>5, <1>6, <1>7, <1>8, <1>9 DEF Delivery!Take

(* A request reaches the endpoint or not; the table does not change. *)
LEMMA RequestReceives ==
    ASSUME OutboxState, NEW w \in Sender,
           StartSend(w) \/ Acknowledged(w) \/ SendFails(w)
    PROVE  \/ \E e \in Event : Delivery!Receive(w, e)
           \/ UNCHANGED Delivery!deliveryVars
<1> USE DEF OutboxState, TypeOK
<1>1. row' = row /\ batch' = batch
  BY DEF StartSend, Acknowledged, SendFails
<1>2. SameFates /\ HandsOf' = HandsOf
  BY <1>1, FatesStay, HandsStay
<1>3. CASE accepted' = accepted
  BY <1>2, <1>3 DEF SameFates, Delivery!deliveryVars
<1>4. CASE accepted' # accepted
  <2>1. IsIn(w, "sending") /\ accepted' = accepted \cup {job[w].ev}
    BY <1>4 DEF StartSend, Acknowledged, SendFails
  <2>2. job[w].ev \in Event /\ batch[w][job[w].ev] > 0
    BY <2>1 DEF JobInv
  <2>3. Delivery!Receive(w, job[w].ev)
    BY <1>2, <2>1, <2>2, InHands DEF SameFates, Delivery!Receive
  <2>4. QED
    BY <2>2, <2>3
<1>5. QED
  BY <1>3, <1>4

(* A mark ends the attempt of the sender that makes it. *)
LEMMA MarkFinishes ==
    ASSUME PromptOutbox, OutboxState, NEW w \in Sender, NEW new, Mark(w, new),
           IsIn(w, "ok") \/ IsIn(w, "failed"),
           new.attempts = row[job[w].ev].attempts
    PROVE  Delivery!Finish(w, job[w].ev, Fate(new.st))
<1> USE DEF OutboxState, TypeOK
<1> DEFINE ev == job[w].ev
<1>1. ev \in Event /\ batch[w][ev] > 0
  BY DEF JobInv
<1>2. row' = [row EXCEPT ![ev] = new]
  BY DEF Mark, PromptOutbox, PromptProcesses
<1>3. batch' = [batch EXCEPT ![w][ev] = 0] /\ accepted' = accepted
  BY DEF Mark, NextOfBatch
<1>4. HandsOf[ev] = {w} /\ FateOf[ev] = "open"
  BY <1>1, InHands
<1> HIDE DEF ev
<1>5. FateOf' = [FateOf EXCEPT ![ev] = Fate(new.st)]
  BY <1>1, <1>2 DEF FateOf
<1>6. TriesOf' = TriesOf
  <2>1. \A e \in Event : row'[e].attempts = row[e].attempts
    BY <1>1, <1>2 DEF ev
  <2>2. QED
    BY <2>1 DEF TriesOf
<1>7. HandsOf' = [HandsOf EXCEPT ![ev] = {}]
  <2>1. \A v \in Sender : ~(batch'[v][ev] > 0)
    <3>1. \A v \in Sender \ {w} : ~(batch[v][ev] > 0)
      BY <1>1 DEF OutboxInv, ClaimedOnce
    <3>2. QED
      BY <1>1, <1>3, <3>1
  <2>2. \A v \in Sender, e \in Event \ {ev} : batch'[v][e] = batch[v][e]
    BY <1>1, <1>3
  <2>3. \A e \in Event : {v \in Sender : batch'[v][e] > 0}
                          = IF e = ev THEN {} ELSE HandsOf[e]
    BY <2>1, <2>2, Mapped
  <2>4. HandsOf' = [e \in Event |-> IF e = ev THEN {} ELSE HandsOf[e]]
    BY <2>3 DEF HandsOf
  <2>5. HandsOf = [e \in Event |-> HandsOf[e]]
    BY DEF HandsOf
  <2>6. QED
    BY <2>4, <2>5
<1>8. QED
  BY <1>3, <1>4, <1>5, <1>6, <1>7 DEF Delivery!Finish, ev

LEMMA MarksSettle ==
    ASSUME PromptOutbox, OutboxState, NEW w \in Sender,
           MarkDelivered(w) \/ MarkDeadLetter(w) \/ MarkRetry(w)
    PROVE  \E e \in Event : \/ Delivery!Deliver(w, e)
                            \/ Delivery!GiveUp(w, e)
                            \/ Delivery!PutBack(w, e)
<1> DEFINE ev == job[w].ev
<1>1. /\ ev \in Event /\ batch[w][ev] > 0 /\ batch[w][ev] \in 1..MaxAttempts
      /\ row[ev] \in Row
      /\ IsIn(w, "ok") \/ IsIn(w, "failed")
      /\ IsIn(w, "ok") => ev \in accepted
  BY OutboxAssumption
  DEF MarkDelivered, MarkDeadLetter, MarkRetry, OutboxState, JobInv, TypeOK,
      Attempts
<1>2. TriesOf[ev] = batch[w][ev]
  BY <1>1, InHands
<1>3. CASE MarkDelivered(w)
  <2> DEFINE new == [row[ev] EXCEPT !.st = "delivered", !.lease = 0,
                                    !.err = "null"]
  <2>1. Mark(w, new) /\ IsIn(w, "ok")
    BY <1>3 DEF MarkDelivered
  <2>2. new.attempts = row[ev].attempts /\ Fate(new.st) = "delivered"
    BY <1>1 DEF Row, Fate
  <2> HIDE DEF new
  <2>3. Delivery!Finish(w, ev, Fate(new.st))
    BY <1>1, <2>1, <2>2, MarkFinishes
  <2>4. Delivery!Deliver(w, ev)
    BY <1>1, <2>1, <2>2, <2>3 DEF Delivery!Deliver
  <2>5. QED
    BY <1>1, <2>4
<1>4. CASE MarkDeadLetter(w)
  <2> DEFINE new == [row[ev] EXCEPT !.st = "dead_letter", !.lease = 0,
                                    !.err = "error"]
  <2>1. Mark(w, new)
    BY <1>4 DEF MarkDeadLetter
  <2>2. new.attempts = row[ev].attempts /\ Fate(new.st) = "dead_letter"
    BY <1>1 DEF Row, Fate
  <2>3. TriesOf[ev] = MaxAttempts
    BY <1>1, <1>2, <1>4, OutboxAssumption DEF MarkDeadLetter, OutOfAttempts
  <2> HIDE DEF new
  <2>4. Delivery!Finish(w, ev, Fate(new.st))
    BY <1>1, <2>1, <2>2, MarkFinishes
  <2>5. Delivery!GiveUp(w, ev)
    BY <2>2, <2>3, <2>4 DEF Delivery!GiveUp
  <2>6. QED
    BY <1>1, <2>5
<1>5. CASE MarkRetry(w)
  <2> DEFINE new == [row[ev] EXCEPT
                        !.st = "pending", !.lease = 0, !.err = "error",
                        !.wait = RetryDelay[batch[w][ev]]]
  <2>1. Mark(w, new)
    BY <1>5 DEF MarkRetry
  <2>2. new.attempts = row[ev].attempts /\ Fate(new.st) = "open"
    BY <1>1 DEF Row, Fate
  <2>3. TriesOf[ev] < MaxAttempts
    BY <1>1, <1>2, <1>5, OutboxAssumption DEF MarkRetry, OutOfAttempts
  <2> HIDE DEF new
  <2>4. Delivery!Finish(w, ev, Fate(new.st))
    BY <1>1, <2>1, <2>2, MarkFinishes
  <2>5. Delivery!PutBack(w, ev)
    BY <2>2, <2>3, <2>4 DEF Delivery!PutBack
  <2>6. QED
    BY <1>1, <2>5
<1>6. QED
  BY <1>3, <1>4, <1>5

LEMMA CrashDies ==
    ASSUME OutboxState, NEW w \in Sender, Crash(w)
    PROVE  Delivery!Die(w)
<1>1. row' = row /\ accepted' = accepted
  BY DEF Crash
<1>2. SameFates
  BY <1>1, FatesStay
<1>3. ASSUME NEW e \in Event
      PROVE  {v \in Sender : batch'[v][e] > 0} = HandsOf[e] \ {w}
  <2>1. ~(batch'[w][e] > 0)
    BY DEF Crash, OutboxState, TypeOK
  <2>2. \A v \in Sender \ {w} : batch'[v] = batch[v]
    BY DEF Crash, OutboxState, TypeOK
  <2>3. QED
    BY <1>3, <2>1, <2>2, Mapped
<1>4. HandsOf' = [e \in Event |-> HandsOf[e] \ {w}]
  BY <1>3 DEF HandsOf
<1>5. QED
  BY <1>1, <1>2, <1>4 DEF SameFates, Delivery!Die

(* The outbox implements EventDelivery, for any numbers of events and      *)
(* senders: under the same conditions ProcessOutbox sends an event only    *)
(* from the one batch it is in, and every mark that looks at the id alone  *)
(* settles the attempt of the sender that makes it.                        *)
THEOREM ImplementsDeliveryHolds ==
    ASSUME PromptOutbox
    PROVE  Spec => ImplementsDelivery
<1>1. Init => Delivery!DeliveryInit
  BY DEF Init, NewRow, Delivery!DeliveryInit, FateOf, TriesOf, HandsOf, Fate
<1>2. OutboxState /\ [Next]_vars
          => [Delivery!DeliveryNext]_(Delivery!deliveryVars)
  <2> SUFFICES ASSUME OutboxState, [Next]_vars
               PROVE  Delivery!DeliveryNext \/ UNCHANGED Delivery!deliveryVars
    OBVIOUS
  <2> USE DEF Delivery!DeliveryNext
  <2>1. ASSUME NEW w \in Sender, NEW e \in Event, Publish(w, e)
        PROVE  Delivery!DeliveryNext \/ UNCHANGED Delivery!deliveryVars
    BY <2>1, PublishOpens
  <2>2. ASSUME NEW w \in Sender, Claim(w) PROVE Delivery!DeliveryNext
    BY <2>2, ClaimIsTake
  <2>3. ASSUME NEW w \in Sender,
               StartSend(w) \/ Acknowledged(w) \/ SendFails(w)
        PROVE  Delivery!DeliveryNext \/ UNCHANGED Delivery!deliveryVars
    BY <2>3, RequestReceives
  <2>4. ASSUME NEW w \in Sender,
               MarkDelivered(w) \/ MarkDeadLetter(w) \/ MarkRetry(w)
        PROVE  Delivery!DeliveryNext
    BY <2>4, MarksSettle
  <2>5. ASSUME NEW w \in Sender, Crash(w) PROVE Delivery!DeliveryNext
    BY <2>5, CrashDies
  <2>6. CASE Tick \/ UNCHANGED vars
    <3>1. batch' = batch /\ accepted' = accepted
      BY <2>6 DEF Tick, vars
    <3>2. \A e \in Event : /\ row'[e].st = row[e].st
                           /\ row'[e].attempts = row[e].attempts
      BY <2>6 DEF Tick, vars, OutboxState, TypeOK, Row
    <3>3. SameFates
      BY <3>2, FatesStay
    <3>4. QED
      BY <3>1, <3>3, HandsStay DEF SameFates, Delivery!deliveryVars
  <2>7. ~\E e \in Event : Replay(e)
    BY DEF Replay, PromptOutbox, PromptProcesses
  <2>8. QED
    BY <2>1, <2>2, <2>3, <2>4, <2>5, <2>6, <2>7 DEF Next, Sending
<1>3. QED
  BY <1>1, <1>2, OutboxInvHolds, PTL
     DEF Spec, ImplementsDelivery, Delivery!DeliverySpec

=============================================================================
