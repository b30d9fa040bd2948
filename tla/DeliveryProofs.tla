---------------------------- MODULE DeliveryProofs ----------------------------
(***************************************************************************)
(* Theorems about AlertsSystem, continued from AlertsProofs: what the      *)
(* goroutines of ProcessSchemaChange deliver, to the notifications, to the *)
(* users and to the webhooks, while users, rules and sources come and go   *)
(* and processes die.                                                      *)
(***************************************************************************)
EXTENDS AlertsProofs

\* What the steps on rules, sources and changes do to the goroutines: at most
\* one is added, for a change that had none.  A notification goes only with
\* its rule or its change, an unread mark only with its notification.
LEMMA RuleStepEffect ==
    ASSUME AlertsType, RuleStep
    PROVE  /\ UNCHANGED <<users, held, sentTo, unanswered, matched, audience, cut,
                          failed>>
           /\ \/ UNCHANGED jobs
              \/ \E ch \in Change \ DOMAIN jobs, change \in ChangeRow :
                    jobs' = Put(jobs, ch, Job(change))
           /\ DOMAIN notes' \subseteq DOMAIN notes
           /\ \A n \in DOMAIN notes' : notes'[n] = notes[n]
           /\ \A n \in DOMAIN notes : \/ n \in DOMAIN notes'
                                      \/ n[1] \notin DOMAIN rules'
                                      \/ n[2] \notin DOMAIN changes'
           /\ \A ch \in DOMAIN matched : \A e \in matched[ch] :
                 e.id \in DOMAIN rules' => e.id \in DOMAIN rules
           /\ \A ch \in DOMAIN jobs \cap DOMAIN changes' : ch \in DOMAIN changes
           /\ DOMAIN inbox' \subseteq DOMAIN inbox
           /\ \A x \in DOMAIN inbox :
                 <<x[2], x[3]>> \in DOMAIN notes' => x \in DOMAIN inbox'
<1> DEFINE Gone ==
              /\ DOMAIN notes' \subseteq DOMAIN notes
              /\ \A n \in DOMAIN notes' : notes'[n] = notes[n]
              /\ \A n \in DOMAIN notes : \/ n \in DOMAIN notes'
                                         \/ n[1] \notin DOMAIN rules'
                                         \/ n[2] \notin DOMAIN changes'
              /\ DOMAIN inbox' \subseteq DOMAIN inbox
              /\ \A x \in DOMAIN inbox :
                    <<x[2], x[3]>> \in DOMAIN notes' => x \in DOMAIN inbox'
           Kept == UNCHANGED <<users, held, jobs, historyVars>>
<1>1. ASSUME NEW r \in AlertRule, NEW row \in mix.rows, CreateAlertRule(r, row)
      PROVE  /\ Kept /\ UNCHANGED <<notes, inbox, changes>>
             /\ DOMAIN rules' \subseteq DOMAIN rules \cup {r}
             /\ \A ch \in DOMAIN matched : \A e \in matched[ch] : e.id # r
    BY <1>1 DEF CreateAlertRule, InsertAlertRule, Put
<1>2. ASSUME NEW c \in Client, NEW r \in AlertRule, NEW row \in mix.rows,
             UpdateAlertRuleCheck(c, r, row)
      PROVE  Kept /\ UNCHANGED <<notes, inbox, changes, rules>>
    BY <1>2 DEF UpdateAlertRuleCheck, alertVars, tableVars
<1>3. ASSUME NEW r \in AlertRule, DeleteAlertRule(r)
      PROVE  /\ Kept /\ UNCHANGED changes /\ Gone
             /\ DOMAIN rules' \subseteq DOMAIN rules
    BY <1>3 DEF DeleteAlertRule, CascadeNotes, Keep, Restrict
<1>4. ASSUME NEW c \in Client, UpdateAlertRuleWrite(c)
      PROVE  /\ UNCHANGED <<users, held, jobs, sentTo, unanswered, matched,
                            audience, cut, failed, notes, inbox, changes>>
             /\ DOMAIN rules' = DOMAIN rules
    BY <1>4 DEF UpdateAlertRuleWrite
<1>5. ASSUME NEW ch \in Change, NEW o \in Object, NEW kind \in Kind,
             DetectChange(ch, o, kind)
      PROVE  /\ UNCHANGED <<users, held, rules, notes, inbox, historyVars>>
             /\ ch \notin DOMAIN jobs /\ DOMAIN changes' = DOMAIN changes \cup {ch}
             /\ \E change \in ChangeRow : jobs' = Put(jobs, ch, Job(change))
    <2> DEFINE change == [source |-> SourceOf[o], object |-> o, kind |-> kind]
    <2>1. change \in ChangeRow
        BY AlertsAssumption DEF ChangeRow
    <2>2. /\ jobs' = Put(jobs, ch, Job(change)) /\ changes' = Put(changes, ch, change)
          /\ ch \notin DOMAIN jobs
          /\ UNCHANGED <<users, held, rules, notes, inbox, historyVars>>
        BY <1>5 DEF DetectChange
    <2> HIDE DEF change
    <2> QED
        BY <2>1, <2>2 DEF Put
<1>6. ASSUME NEW s \in Source,
             DeleteSourceObjects(s) \/ DeleteSourceChanges(s) \/ DeleteSource(s)
      PROVE  /\ Kept /\ Gone /\ DOMAIN rules' \subseteq DOMAIN rules
             /\ DOMAIN changes' \subseteq DOMAIN changes
    <2>1. CASE DeleteSourceObjects(s)
        BY <2>1 DEF DeleteSourceObjects
    <2>2. CASE DeleteSourceChanges(s)
        BY <2>2 DEF DeleteSourceChanges, accountVars, CascadeNotes, Keep, Restrict
    <2>3. CASE DeleteSource(s)
        BY <2>3 DEF DeleteSource, accountVars, CascadeNotes, Keep, Restrict
    <2> QED
        BY <1>6, <2>1, <2>2, <2>3
<1>7. CASE \E ch \in Change, o \in Object, kind \in Kind : DetectChange(ch, o, kind)
    BY <1>5, <1>7 DEF historyVars
<1>8. CASE \E s \in Source :
              DeleteSourceObjects(s) \/ DeleteSourceChanges(s) \/ DeleteSource(s)
    BY <1>6, <1>8 DEF historyVars
<1>9. CASE \E c \in Client : UpdateAlertRuleWrite(c)
    BY <1>4, <1>9
<1>10. ASSUME NEW r \in AlertRule,
              \/ \E row \in mix.rows : CreateAlertRule(r, row)
              \/ \E c \in Client, row \in mix.rows : UpdateAlertRuleCheck(c, r, row)
       PROVE  /\ Kept /\ UNCHANGED <<notes, inbox, changes>>
              /\ \A ch \in DOMAIN matched : \A e \in matched[ch] :
                    e.id \in DOMAIN rules' => e.id \in DOMAIN rules
    BY <1>1, <1>2, <1>10
<1> QED
    BY <1>3, <1>7, <1>8, <1>9, <1>10 DEF RuleStep, historyVars

\* A goroutine goes from place to place.
LEMMA JobMoves ==
    ASSUME AccountsInv, AlertsType, NEW ch \in DOMAIN jobs, JobStep(ch)
    PROVE  \E from, to : Moves(ch, from, to)
<1>1. ASSUME NEW r \in jobs[ch].todo, NextRule(ch, r) \/ NextRuleFails(ch, r)
      PROVE  \E from, to : Moves(ch, from, to)
    BY <1>1, NextMoves, NextFailsMoves DEF Stored, Skipped
<1>2. CASE MatchRules(ch)
    BY <1>2, MatchMoves
<1>3. CASE ListUsers(ch)
    BY <1>3, ListMoves
<1>4. ASSUME NEW u \in User, NotifyUser(ch, u) PROVE \E from, to : Moves(ch, from, to)
    BY <1>4, NotifyMoves
<1>5. CASE RecordStatus(ch)
    BY <1>5, RecordMoves
<1> QED
    BY <1>1, <1>2, <1>3, <1>4, <1>5, DoneMoves, FailingMoves, WebhookMoves DEF JobStep

\* What becomes of a rule whose turn it is.
LEMMA NextEffect ==
    ASSUME AlertsType, NEW ch \in DOMAIN jobs, NEW r \in jobs[ch].todo,
           NextRule(ch, r) \/ NextRuleFails(ch, r)
    PROVE  /\ r \in Entry /\ jobs'[ch].todo = jobs[ch].todo \ {r}
           /\ \/ \E to \in {"users", "webhook", "next"} : Stored(ch, r, to)
              \/ /\ Skipped(ch)
                 /\ \/ r.id \notin DOMAIN rules \/ ch \notin DOMAIN changes
                    \/ <<r.id, ch>> \in failed'
           /\ \/ Stored(ch, r, IF r.row.inApp THEN "users" ELSE "webhook")
              \/ Skipped(ch)
              \/ <<r.id, ch>> \in failed'
           /\ failed \subseteq failed'
           /\ UNCHANGED <<users, held, inbox, sentTo, unanswered, matched, audience, cut>>
<1>1. CASE NextRule(ch, r)
    BY <1>1, NextMoves DEF NextRule, accountVars, historyVars
<1>2. CASE NextRuleFails(ch, r)
    BY <1>2, NextFailsMoves DEF NextRuleFails, accountVars
<1> QED
    BY <1>1, <1>2

(***************************************************************************)
(* Every match has its notification.                                       *)
(***************************************************************************)
\* A source goes after its changes, and a goroutine knows its change.
SourceInv ==
    /\ \A o \in objects : SourceOf[o] \in sources
    /\ \A ch \in DOMAIN changes : /\ changes[ch].source \in sources
                                  /\ ch \in DOMAIN jobs
                                  /\ jobs[ch].change = changes[ch]

LEMMA RuleStepsSource == ASSUME SourceInv, RuleStep PROVE SourceInv'
<1>1. ASSUME NEW r \in AlertRule, NEW row \in mix.rows, CreateAlertRule(r, row)
      PROVE  SourceInv'
    BY <1>1 DEF CreateAlertRule, SourceInv
<1>2. ASSUME NEW c \in Client, NEW r \in AlertRule, NEW row \in mix.rows,
             UpdateAlertRuleCheck(c, r, row)
      PROVE  SourceInv'
    BY <1>2 DEF UpdateAlertRuleCheck, alertVars, tableVars, SourceInv
<1>3. ASSUME NEW r \in AlertRule, DeleteAlertRule(r) PROVE SourceInv'
    BY <1>3 DEF DeleteAlertRule, SourceInv
<1>4. ASSUME NEW c \in Client, UpdateAlertRuleWrite(c) PROVE SourceInv'
    BY <1>4 DEF UpdateAlertRuleWrite, SourceInv
<1>5. ASSUME NEW ch \in Change, NEW o \in Object, NEW kind \in Kind,
             DetectChange(ch, o, kind)
      PROVE  SourceInv'
    <2> DEFINE change == [source |-> SourceOf[o], object |-> o, kind |-> kind]
    <2>1. change.source \in sources /\ Job(change).change = change
        BY <1>5 DEF DetectChange, SourceInv, Job
    <2>2. /\ changes' = Put(changes, ch, change) /\ jobs' = Put(jobs, ch, Job(change))
          /\ objects' \subseteq objects /\ sources' = sources
          /\ ch \notin DOMAIN changes /\ ch \notin DOMAIN jobs
        BY <1>5 DEF DetectChange
    <2> HIDE DEF change
    <2> QED
        BY <2>1, <2>2 DEF Put, SourceInv
<1>6. ASSUME NEW s \in Source, DeleteSourceObjects(s) PROVE SourceInv'
    BY <1>6 DEF DeleteSourceObjects, SourceInv
<1>7. ASSUME NEW s \in Source, DeleteSourceChanges(s) PROVE SourceInv'
    BY <1>7 DEF DeleteSourceChanges, Keep, Restrict, SourceInv
<1>8. ASSUME NEW s \in Source, DeleteSource(s) PROVE SourceInv'
    BY <1>8 DEF DeleteSource, Deleting, SourceInv
<1> QED
    BY <1>1, <1>2, <1>3, <1>4, <1>5, <1>6, <1>7, <1>8 DEF RuleStep

LEMMA SourceInductive ==
    /\ Init => SourceInv
    /\ AccountsInv /\ AlertsType /\ SourceInv /\ [Next]_vars => SourceInv'
<1>1. Init => SourceInv
    BY DEF Init, AlertsInit, SourceInv, Empty
<1>2. ASSUME AccountsInv, AlertsType, SourceInv, [Next]_vars PROVE SourceInv'
    <2>1. CASE RuleStep
        BY <1>2, <2>1, RuleStepsSource
    <2>2. ASSUME NEW ch \in DOMAIN jobs, JobStep(ch) PROVE SourceInv'
        <3>1. UNCHANGED <<sources, objects, changes>>
            BY <2>2, JobsLeave
        <3>2. /\ DOMAIN jobs' = DOMAIN jobs
              /\ \A x \in DOMAIN jobs : jobs'[x].change = jobs[x].change
            BY <1>2, <2>2, JobMoves DEF Moves
        <3> QED
            BY <1>2, <3>1, <3>2 DEF SourceInv
    <2>3. CASE Crash
        BY <1>2, <2>3, CrashMoves DEF Crash, tableVars, SourceInv
    <2>4. ASSUME NEW u \in User, NEW marks, MarkRead(u, marks) PROVE SourceInv'
        BY <1>2, <2>4 DEF MarkRead, SourceInv
    <2>5. CASE OtherStep
        BY <1>2, <2>5 DEF OtherStep, SourceInv
    <2> QED
        BY <1>2, <2>1, <2>2, <2>3, <2>4, <2>5, AlertsSteps
<1> QED
    BY <1>1, <1>2

\* A rule has its notification, or there is a reason why it has none.
Noted(r, ch) ==
    \/ <<r, ch>> \in DOMAIN notes
    \/ r \notin DOMAIN rules
    \/ ch \notin DOMAIN changes
    \/ {ch, <<r, ch>>} \cap failed # {}

NotedKept == \A r, ch : Noted(r, ch) => Noted(r, ch)'

\* A match has its notification, or its turn is still to come.
MatchInv ==
    \A ch \in DOMAIN jobs : jobs[ch].at \notin {"match", "dead"} =>
        /\ ch \in DOMAIN matched
        /\ \A e \in matched[ch] :
              Noted(e.id, ch) \/ (jobs[ch].at # "done" /\ e \in jobs[ch].todo)

LEMMA NotesKept ==
    ASSUME UNCHANGED <<rules, changes>>, DOMAIN notes \subseteq DOMAIN notes',
           failed \subseteq failed'
    PROVE  NotedKept
BY DEF NotedKept, Noted

\* A goroutine moves on within its rules and no notification is lost.
LEMMA MatchKept ==
    ASSUME MatchInv, NEW ch \in DOMAIN jobs, NEW from, NEW to,
           Moves(ch, from, to), from \notin {"match", "dead"}, to # "done",
           SameRule(ch), NotedKept, UNCHANGED matched
    PROVE  MatchInv'
<1>1. DOMAIN jobs' = DOMAIN jobs
    BY DEF Moves
<1> QED
    BY <1>1 DEF MatchInv, Moves, SameRule, NotedKept

LEMMA RuleStepsMatch == ASSUME AlertsType, MatchInv, RuleStep PROVE MatchInv'
<1>1. UNCHANGED <<matched, failed>>
    BY RuleStepEffect
<1>2. ASSUME NEW ch \in DOMAIN jobs, ch \in DOMAIN matched, NEW e \in matched[ch],
             Noted(e.id, ch)
      PROVE  Noted(e.id, ch)'
    <2> DEFINE n == <<e.id, ch>>
    <2>1. CASE n \in DOMAIN notes
        <3>1. \/ n \in DOMAIN notes' \/ n[1] \notin DOMAIN rules'
              \/ n[2] \notin DOMAIN changes'
            BY <2>1, RuleStepEffect
        <3> QED
            BY <3>1 DEF Noted
    <2>2. e.id \in DOMAIN rules' => e.id \in DOMAIN rules
        BY <1>2, RuleStepEffect
    <2>3. ch \in DOMAIN changes' => ch \in DOMAIN changes
        BY RuleStepEffect
    <2> QED
        BY <1>1, <1>2, <2>1, <2>2, <2>3 DEF Noted
<1>3. CASE UNCHANGED jobs
    BY <1>1, <1>2, <1>3 DEF MatchInv
<1>4. ASSUME NEW ch \in Change \ DOMAIN jobs, NEW change \in ChangeRow,
             jobs' = Put(jobs, ch, Job(change))
      PROVE  MatchInv'
    <2>1. /\ DOMAIN jobs' = DOMAIN jobs \cup {ch}
          /\ jobs'[ch].at = "match"
          /\ \A x \in DOMAIN jobs : jobs'[x] = jobs[x]
        BY <1>4 DEF Put, Job
    <2> QED
        BY <1>1, <1>2, <2>1 DEF MatchInv
<1> QED
    BY <1>3, <1>4, RuleStepEffect

\* The rules of a change are found, or the search fails.
LEMMA SearchMatch ==
    ASSUME AlertsType, SourceInv, MatchInv, NEW ch \in DOMAIN jobs,
           MatchRules(ch) \/ MatchFails(ch)
    PROVE  MatchInv'
<1> DEFINE found == Matches(jobs[ch].change)
<1>1. /\ matched' = Put(matched, ch, found)
      /\ \/ Moves(ch, "match", "next") /\ jobs'[ch].todo = found
         \/ Moves(ch, "match", "done") /\ jobs[ch].change.source \notin sources
         \/ Moves(ch, "match", "done") /\ ch \in failed'
    BY MatchMoves, FailingMoves
<1>2. UNCHANGED <<notes, rules, changes>> /\ failed \subseteq failed'
    BY DEF MatchRules, MatchFails, tableVars
<1> HIDE DEF found
<1>3. /\ DOMAIN matched' = DOMAIN matched \cup {ch} /\ matched'[ch] = found
      /\ \A x \in DOMAIN matched \ {ch} : matched'[x] = matched[x]
    BY <1>1 DEF Put
<1>4. /\ DOMAIN jobs' = DOMAIN jobs
      /\ \A x \in DOMAIN jobs \ {ch} : jobs'[x] = jobs[x]
      /\ jobs'[ch].at \in {"next", "done"}
    BY <1>1 DEF Moves
<1>5. NotedKept
    BY <1>2, NotesKept
<1>6. ASSUME NEW e \in found
      PROVE  Noted(e.id, ch)' \/ (jobs'[ch].at # "done" /\ e \in jobs'[ch].todo)
    <2>1. CASE Moves(ch, "match", "next") /\ jobs'[ch].todo = found
        BY <2>1 DEF Moves
    <2>2. CASE jobs[ch].change.source \notin sources
        <3>1. ch \notin DOMAIN changes
            BY <2>2 DEF SourceInv
        <3> QED
            BY <1>2, <3>1 DEF Noted
    <2>3. CASE ch \in failed'
        BY <2>3 DEF Noted
    <2> QED
        BY <1>1, <2>1, <2>2, <2>3
<1> QED
    BY <1>3, <1>4, <1>5, <1>6 DEF MatchInv, NotedKept

LEMMA NextMatch ==
    ASSUME AlertsType, MatchInv, NEW ch \in DOMAIN jobs, NEW e \in jobs[ch].todo,
           NextRule(ch, e) \/ NextRuleFails(ch, e)
    PROVE  MatchInv'
<1>0. UNCHANGED <<rules, changes>>
    BY DEF NextRule, NextRuleFails
<1> DEFINE stores == \E to \in {"users", "webhook", "next"} : Stored(ch, e, to)
<1>a. /\ jobs'[ch].todo = jobs[ch].todo \ {e}
      /\ stores \/ Skipped(ch)
      /\ \/ stores \/ e.id \notin DOMAIN rules \/ ch \notin DOMAIN changes
         \/ <<e.id, ch>> \in failed'
      /\ UNCHANGED matched /\ failed \subseteq failed'
    BY NextEffect
<1>b. stores => /\ DOMAIN notes' = DOMAIN notes \cup {<<e.id, ch>>}
                /\ \E to \in {"users", "webhook", "next"} : Moves(ch, "next", to)
    BY DEF Stored, Put
<1>c. Skipped(ch) => notes' = notes /\ Moves(ch, "next", "next")
    BY DEF Skipped
<1> HIDE DEF stores
<1>1. /\ jobs'[ch].todo = jobs[ch].todo \ {e}
      /\ DOMAIN notes \subseteq DOMAIN notes'
      /\ \E to \in {"users", "webhook", "next"} : Moves(ch, "next", to)
      /\ UNCHANGED matched /\ failed \subseteq failed'
    BY <1>a, <1>b, <1>c
<1>2. Noted(e.id, ch)'
    BY <1>0, <1>a, <1>b DEF Noted
<1>3. NotedKept
    BY <1>0, <1>1, NotesKept
<1>4. /\ jobs[ch].at = "next" /\ jobs'[ch].at # "done"
      /\ DOMAIN jobs' = DOMAIN jobs
      /\ \A x \in DOMAIN jobs \ {ch} : jobs'[x] = jobs[x]
    BY <1>1 DEF Moves
<1> QED
    BY <1>1, <1>2, <1>3, <1>4 DEF MatchInv, NotedKept

LEMMA JobStepsMatch ==
    ASSUME AccountsInv, AlertsType, SourceInv, MatchInv, NEW ch \in DOMAIN jobs,
           JobStep(ch)
    PROVE  MatchInv'
<1>0. UNCHANGED <<rules, changes>>
    BY JobsLeave
<1>1. CASE MatchRules(ch) \/ MatchFails(ch)
    BY <1>1, SearchMatch
<1>2. ASSUME NEW e \in jobs[ch].todo, NextRule(ch, e) \/ NextRuleFails(ch, e)
      PROVE  MatchInv'
    BY <1>2, NextMatch
<1>3. CASE AllRulesDone(ch)
    <2>1. Moves(ch, "next", "done") /\ jobs[ch].todo = {}
        BY <1>3, DoneMoves
    <2>2. UNCHANGED <<notes, matched, failed>>
        BY <1>3 DEF AllRulesDone, tableVars, historyVars
    <2>3. NotedKept
        BY <1>0, <2>2, NotesKept
    <2>4. DOMAIN jobs' = DOMAIN jobs
        BY <2>1 DEF Moves
    <2> QED
        BY <2>1, <2>2, <2>3, <2>4 DEF MatchInv, Moves, NotedKept
<1>4. CASE ListUsers(ch) \/ ListUsersFails(ch)
    <2>1. NotedKept /\ UNCHANGED matched
        BY <1>0, <1>4, NotesKept DEF ListUsers, ListUsersFails, tableVars
    <2> QED
        BY <1>4, <2>1, ListMoves, FailingMoves, MatchKept
<1>5. ASSUME NEW u \in User, NotifyUser(ch, u) \/ NotifyUserFails(ch, u)
      PROVE  MatchInv'
    <2>1. NotedKept /\ UNCHANGED matched
        BY <1>0, <1>5, NotesKept DEF NotifyUser, NotifyUserFails
    <2> QED
        BY <1>5, <2>1, NotifyMoves, FailingMoves, MatchKept
<1>6. CASE AllUsersNotified(ch)
    <2>1. NotedKept /\ UNCHANGED matched
        BY <1>0, <1>6, NotesKept DEF AllUsersNotified, tableVars, historyVars
    <2> QED
        BY <1>6, <2>1, DoneMoves, MatchKept
<1>7. ASSUME \/ NoWebhook(ch) \/ Taken(ch) \/ KnownDuplicate(ch) \/ TakenUnanswered(ch)
             \/ Unreached(ch) \/ Refused(ch) \/ UrlRefused(ch)
      PROVE  MatchInv'
    <2>1. UNCHANGED <<tableVars, matched, failed>> /\ SameRule(ch)
        BY <1>7, WebhookMoves
    <2>2. \E to \in {"next", "sent", "webhook", "failed"} : Moves(ch, "webhook", to)
        BY <1>7, WebhookMoves
    <2>3. NotedKept
        BY <2>1, NotesKept DEF tableVars
    <2> QED
        BY <2>1, <2>2, <2>3, MatchKept
<1>8. CASE RecordStatus(ch) \/ RecordStatusFails(ch)
    <2>1. DOMAIN notes' = DOMAIN notes /\ UNCHANGED <<matched, failed>>
        BY <1>8, RecordMoves DEF RecordStatus, RecordStatusFails, tableVars, historyVars
    <2>2. NotedKept
        BY <1>0, <2>1, NotesKept
    <2> QED
        BY <1>8, <2>1, <2>2, RecordMoves, FailingMoves, MatchKept
<1> QED
    BY <1>1, <1>2, <1>3, <1>4, <1>5, <1>6, <1>7, <1>8 DEF JobStep

\* Every rule a change matched has its notification when the goroutine is
\* done, whatever happened to the other rules, unless the rule or the change
\* itself is gone, or a statement failed for this very rule or for the search.
THEOREM MatchesNotified == Spec => []EveryMatchNotified
<1>1. Init => MatchInv
    BY DEF Init, AlertsInit, MatchInv, Empty
<1>2. AccountsInv /\ AlertsType /\ SourceInv /\ MatchInv /\ [Next]_vars => MatchInv'
    <2> SUFFICES ASSUME AccountsInv, AlertsType, SourceInv, MatchInv, [Next]_vars
                 PROVE  MatchInv'
        OBVIOUS
    <2>1. CASE RuleStep
        BY <2>1, RuleStepsMatch
    <2>2. ASSUME NEW ch \in DOMAIN jobs, JobStep(ch) PROVE MatchInv'
        BY <2>2, JobStepsMatch
    <2>3. CASE Crash
        <3>1. UNCHANGED <<notes, rules, changes, matched, failed>>
            BY <2>3 DEF Crash, tableVars
        <3>2. DOMAIN jobs' = DOMAIN jobs
              /\ \A ch \in DOMAIN jobs : jobs'[ch] = jobs[ch] \/ jobs'[ch].at = "dead"
            BY <2>3, CrashMoves
        <3>3. NotedKept
            BY <3>1, NotesKept
        <3> QED
            BY <3>1, <3>2, <3>3 DEF MatchInv, NotedKept
    <2>4. ASSUME NEW u \in User, NEW marks, MarkRead(u, marks) PROVE MatchInv'
        BY <2>4 DEF MarkRead, historyVars, MatchInv, Noted
    <2>5. CASE OtherStep
        BY <2>5 DEF OtherStep, historyVars, MatchInv, Noted
    <2> QED
        BY <2>1, <2>2, <2>3, <2>4, <2>5, AlertsSteps
<1>3. MatchInv => EveryMatchNotified
    BY DEF MatchInv, Noted, EveryMatchNotified
<1> QED
    BY <1>1, <1>2, <1>3, AccountsInductive, AlertsTyped, SourceInductive, PTL DEF Spec

(***************************************************************************)
(* Webhooks.                                                               *)
(***************************************************************************)
\* The webhook of a notification has not been settled yet.
Waiting(n) ==
    LET job == jobs[n[2]]
    IN  \/ n[2] \notin DOMAIN jobs
        \/ job.at = "match"
        \/ \E e \in job.todo : e.id = n[1]
        \/ job.at \in {"users", "notify", "webhook"} /\ job.rule.id = n[1]

\* A goroutine meets no rule twice.
OnceEach ==
    \A ch \in DOMAIN jobs :
        /\ \A e, f \in jobs[ch].todo : e.id = f.id => e = f
        /\ jobs[ch].at \in AtRule => \A e \in jobs[ch].todo : e.id # jobs[ch].rule.id

\* Until it is settled, every delivery of a webhook went unanswered.
HookInv ==
    /\ \A n \in NoteId : /\ sentTo[n] <= unanswered[n] + 1
                         /\ Waiting(n) => sentTo[n] <= unanswered[n]
    /\ \A ch \in DOMAIN jobs : jobs[ch].at = "sent" => sentTo[Note(ch)] > 0
    /\ \A n \in DOMAIN notes : notes[n].sent => n \in NoteId /\ sentTo[n] > 0

LEMMA NoteOfJob ==
    ASSUME AlertsType, NEW ch \in DOMAIN jobs, jobs[ch].at \in AtRule
    PROVE  Note(ch) \in NoteId /\ Note(ch)[1] = jobs[ch].rule.id /\ Note(ch)[2] = ch
BY DEF AlertsType, Note, NoteId, Entry

LEMMA OnceMoves ==
    ASSUME OnceEach, NEW ch \in DOMAIN jobs, NEW from, NEW to,
           Moves(ch, from, to), SameRule(ch), to \in AtRule => from \in AtRule
    PROVE  OnceEach'
<1>1. DOMAIN jobs' = DOMAIN jobs
    BY DEF Moves
<1> QED
    BY <1>1 DEF OnceEach, Moves, SameRule

\* A rule is found once, with the row it has.
LEMMA FoundOnce ==
    ASSUME AlertsType, NEW change
    PROVE  \A e, f \in Matches(change) : e.id = f.id => e = f
BY FoundEntries DEF Entry

LEMMA JobStepsOnce ==
    ASSUME AccountsInv, AlertsType, OnceEach, NEW ch \in DOMAIN jobs, JobStep(ch)
    PROVE  OnceEach'
<1>1. CASE MatchRules(ch) \/ MatchFails(ch)
    <2> DEFINE found == Matches(jobs[ch].change)
    <2>1. \/ Moves(ch, "match", "next") /\ jobs'[ch].todo = found
          \/ Moves(ch, "match", "done") /\ jobs'[ch].todo = jobs[ch].todo
        BY <1>1, MatchMoves, FailingMoves DEF SameRule
    <2>2. /\ DOMAIN jobs' = DOMAIN jobs
          /\ \A x \in DOMAIN jobs \ {ch} : jobs'[x] = jobs[x]
          /\ jobs'[ch].at \notin AtRule
        BY <2>1 DEF Moves, AtRule
    <2>3. \A e, f \in jobs'[ch].todo : e.id = f.id => e = f
        <3>1. CASE jobs'[ch].todo = found
            BY <3>1, FoundOnce
        <3>2. CASE jobs'[ch].todo = jobs[ch].todo
            BY <3>2 DEF OnceEach
        <3> QED
            BY <2>1, <3>1, <3>2
    <2> QED
        BY <2>2, <2>3 DEF OnceEach
<1>2. ASSUME NEW e \in jobs[ch].todo, NextRule(ch, e) \/ NextRuleFails(ch, e)
      PROVE  OnceEach'
    <2>1. /\ jobs'[ch].todo = jobs[ch].todo \ {e}
          /\ \/ /\ jobs'[ch].rule = e
                /\ \E to \in {"users", "webhook", "next"} : Moves(ch, "next", to)
             \/ Moves(ch, "next", "next")
        BY <1>2, NextEffect DEF Stored, Skipped
    <2>2. /\ DOMAIN jobs' = DOMAIN jobs
          /\ \A x \in DOMAIN jobs \ {ch} : jobs'[x] = jobs[x]
          /\ jobs'[ch].at \in AtRule => jobs'[ch].rule = e
        BY <2>1 DEF Moves, AtRule
    <2> QED
        BY <2>1, <2>2 DEF OnceEach
<1>3. CASE AllRulesDone(ch)
    BY <1>3, DoneMoves, OnceMoves DEF AtRule
<1>4. CASE ListUsers(ch) \/ ListUsersFails(ch)
    BY <1>4, ListMoves, FailingMoves, OnceMoves DEF AtRule
<1>5. ASSUME NEW u \in User, NotifyUser(ch, u) \/ NotifyUserFails(ch, u)
      PROVE  OnceEach'
    BY <1>5, NotifyMoves, FailingMoves, OnceMoves DEF AtRule
<1>6. CASE AllUsersNotified(ch)
    BY <1>6, DoneMoves, OnceMoves DEF AtRule
<1>7. ASSUME \/ NoWebhook(ch) \/ Taken(ch) \/ KnownDuplicate(ch) \/ TakenUnanswered(ch)
             \/ Unreached(ch) \/ Refused(ch) \/ UrlRefused(ch)
      PROVE  OnceEach'
    <2>1. /\ \E to \in {"next", "sent", "webhook", "failed"} : Moves(ch, "webhook", to)
          /\ SameRule(ch)
        BY <1>7, WebhookMoves
    <2> QED
        BY <2>1, OnceMoves DEF AtRule
<1>8. CASE RecordStatus(ch) \/ RecordStatusFails(ch)
    BY <1>8, RecordMoves, FailingMoves, OnceMoves DEF AtRule
<1> QED
    BY <1>1, <1>2, <1>3, <1>4, <1>5, <1>6, <1>7, <1>8 DEF JobStep

LEMMA OnceInductive ==
    /\ Init => OnceEach
    /\ AccountsInv /\ AlertsType /\ OnceEach /\ [Next]_vars => OnceEach'
<1>1. Init => OnceEach
    BY DEF Init, AlertsInit, OnceEach, Empty
<1>2. ASSUME AccountsInv, AlertsType, OnceEach, [Next]_vars PROVE OnceEach'
    <2>1. CASE RuleStep
        <3>1. CASE UNCHANGED jobs
            BY <1>2, <3>1 DEF OnceEach
        <3>2. ASSUME NEW ch \in Change \ DOMAIN jobs, NEW change \in ChangeRow,
                     jobs' = Put(jobs, ch, Job(change))
              PROVE  OnceEach'
            <4>1. /\ DOMAIN jobs' = DOMAIN jobs \cup {ch}
                  /\ jobs'[ch].at = "match" /\ jobs'[ch].todo = {}
                  /\ \A x \in DOMAIN jobs : jobs'[x] = jobs[x]
                BY <3>2 DEF Put, Job
            <4> QED
                BY <1>2, <4>1 DEF OnceEach, AtRule
        <3> QED
            BY <1>2, <2>1, <3>1, <3>2, RuleStepEffect
    <2>2. ASSUME NEW ch \in DOMAIN jobs, JobStep(ch) PROVE OnceEach'
        BY <1>2, <2>2, JobStepsOnce
    <2>3. CASE Crash
        <3>1. /\ DOMAIN jobs' = DOMAIN jobs
              /\ \A ch \in DOMAIN jobs : /\ jobs'[ch] = jobs[ch] \/ jobs'[ch].at = "dead"
                                         /\ jobs'[ch].todo = jobs[ch].todo
            BY <1>2, <2>3, CrashMoves DEF SameRule
        <3> QED
            BY <1>2, <3>1 DEF OnceEach, AtRule
    <2>4. ASSUME NEW u \in User, NEW marks, MarkRead(u, marks) PROVE OnceEach'
        BY <1>2, <2>4 DEF MarkRead, OnceEach
    <2>5. CASE OtherStep
        BY <1>2, <2>5 DEF OtherStep, OnceEach
    <2> QED
        BY <1>2, <2>1, <2>2, <2>3, <2>4, <2>5, AlertsSteps
<1> QED
    BY <1>1, <1>2

BeforeHook == {"users", "notify", "webhook"}

LEMMA WaitingMoves ==
    ASSUME NEW ch \in DOMAIN jobs, NEW from, NEW to, Moves(ch, from, to),
           SameRule(ch), to # "match", to \in BeforeHook => from \in BeforeHook
    PROVE  \A n : Waiting(n)' => Waiting(n)
<1>1. DOMAIN jobs' = DOMAIN jobs
    BY DEF Moves
<1> QED
    BY <1>1 DEF Waiting, Moves, SameRule, BeforeHook

\* A step that calls no webhook and records nothing of one.
LEMMA HookKept ==
    ASSUME HookInv, UNCHANGED <<sentTo, unanswered>>,
           \A n : Waiting(n)' => Waiting(n),
           \A ch \in DOMAIN jobs' : jobs'[ch].at = "sent" =>
              ch \in DOMAIN jobs /\ jobs[ch].at = "sent" /\ jobs'[ch].rule = jobs[ch].rule,
           \A n \in DOMAIN notes' : notes'[n].sent => n \in DOMAIN notes /\ notes[n].sent
    PROVE  HookInv'
BY DEF HookInv, Note

LEMMA HookMoves ==
    ASSUME HookInv, UNCHANGED <<sentTo, unanswered>>,
           NEW ch \in DOMAIN jobs, NEW from, NEW to, Moves(ch, from, to), to # "sent",
           \A n : Waiting(n)' => Waiting(n),
           \A n \in DOMAIN notes' : notes'[n].sent => n \in DOMAIN notes /\ notes[n].sent
    PROVE  HookInv'
<1>1. \A x \in DOMAIN jobs' : jobs'[x].at = "sent" =>
         x \in DOMAIN jobs /\ jobs[x].at = "sent" /\ jobs'[x].rule = jobs[x].rule
    BY DEF Moves
<1> QED
    BY <1>1, HookKept

\* What an attempt does to the count of the notification it is for.
LEMMA WebhookStepsHook ==
    ASSUME AlertsType, OnceEach, HookInv, NEW ch \in DOMAIN jobs,
           \/ NoWebhook(ch) \/ Taken(ch) \/ KnownDuplicate(ch) \/ TakenUnanswered(ch)
           \/ Unreached(ch) \/ Refused(ch) \/ UrlRefused(ch)
    PROVE  HookInv'
<1>1. SameRule(ch) /\ UNCHANGED notes
    BY WebhookMoves DEF tableVars
<1>2. PICK to \in {"next", "sent", "webhook", "failed"} : Moves(ch, "webhook", to)
    BY WebhookMoves
<1>3. jobs[ch].at = "webhook" /\ DOMAIN jobs' = DOMAIN jobs
    BY <1>2 DEF Moves
<1>4. PICK m \in NoteId : m = Note(ch) /\ m[1] = jobs[ch].rule.id /\ m[2] = ch
    BY <1>3, NoteOfJob DEF AtRule
<1>5. Waiting(m)
    BY <1>3, <1>4 DEF Waiting
<1>6. \A n : Waiting(n)' => Waiting(n)
    BY <1>1, <1>2, WaitingMoves DEF BeforeHook
<1>7. Note(ch)' = m /\ \A x \in DOMAIN jobs \ {ch} : Note(x)' = Note(x) /\ jobs'[x] = jobs[x]
    BY <1>1, <1>2, <1>4 DEF Note, SameRule, Moves
<1>8. sentTo \in [NoteId -> Nat] /\ unanswered \in [NoteId -> Nat]
    BY DEF AlertsType
<1>9. CASE to # "sent" /\ UNCHANGED <<sentTo, unanswered>>
    BY <1>1, <1>2, <1>6, <1>9, HookMoves
<1>10. CASE /\ to = "sent" /\ UNCHANGED unanswered
            /\ \/ sentTo' = [sentTo EXCEPT ![m] = @ + 1]
               \/ sentTo[m] > 0 /\ UNCHANGED sentTo
    <2>1. jobs'[ch].at = "sent"
        BY <1>2, <1>10 DEF Moves
    <2>2. ~Waiting(m)'
        BY <1>1, <1>3, <1>4, <2>1 DEF Waiting, SameRule, OnceEach, AtRule
    <2>3. /\ sentTo' \in [NoteId -> Nat] /\ sentTo'[m] > 0
          /\ sentTo'[m] <= unanswered'[m] + 1
          /\ \A n \in NoteId \ {m} : sentTo'[n] = sentTo[n]
          /\ \A n \in NoteId : sentTo[n] > 0 => sentTo'[n] > 0
        BY <1>4, <1>5, <1>8, <1>10 DEF HookInv
    <2>4. \A n \in NoteId : /\ sentTo'[n] <= unanswered'[n] + 1
                            /\ Waiting(n)' => sentTo'[n] <= unanswered'[n]
        BY <1>6, <1>10, <2>2, <2>3 DEF HookInv
    <2>5. \A x \in DOMAIN jobs : jobs'[x].at = "sent" => sentTo'[Note(x)'] > 0
        <3>1. ASSUME NEW x \in DOMAIN jobs \ {ch}, jobs'[x].at = "sent"
              PROVE  sentTo'[Note(x)'] > 0
            <4>1. jobs[x].at = "sent" /\ Note(x)' = Note(x)
                BY <1>7, <3>1
            <4>2. Note(x) \in NoteId /\ sentTo[Note(x)] > 0
                BY <4>1, NoteOfJob DEF HookInv, AtRule
            <4> QED
                BY <2>3, <4>1, <4>2
        <3> QED
            BY <1>7, <2>3, <3>1
    <2>6. \A n \in DOMAIN notes' : notes'[n].sent => n \in NoteId /\ sentTo'[n] > 0
        BY <1>1, <2>3 DEF HookInv
    <2> QED
        BY <1>3, <2>4, <2>5, <2>6 DEF HookInv
<1>11. CASE /\ to # "sent"
            /\ sentTo' = [sentTo EXCEPT ![m] = @ + 1]
            /\ unanswered' = [unanswered EXCEPT ![m] = @ + 1]
    <2>1. jobs'[ch].at # "sent"
        BY <1>2, <1>11 DEF Moves
    <2>2. \A n \in NoteId : sentTo[n] > 0 => sentTo'[n] > 0
        BY <1>8, <1>11
    <2>3. \A n \in NoteId : /\ sentTo'[n] <= unanswered'[n] + 1
                            /\ Waiting(n)' => sentTo'[n] <= unanswered'[n]
        BY <1>6, <1>8, <1>11 DEF HookInv
    <2>4. ASSUME NEW x \in DOMAIN jobs, jobs'[x].at = "sent"
          PROVE  sentTo'[Note(x)'] > 0
        <3>1. jobs[x].at = "sent" /\ Note(x)' = Note(x)
            BY <1>7, <2>1, <2>4
        <3> QED
            BY <2>2, <3>1, NoteOfJob DEF HookInv, AtRule
    <2>5. \A n \in DOMAIN notes' : notes'[n].sent => n \in NoteId /\ sentTo'[n] > 0
        BY <1>1, <2>2 DEF HookInv
    <2> QED
        BY <1>3, <2>3, <2>4, <2>5 DEF HookInv
<1>12. \/ to # "sent" /\ UNCHANGED <<sentTo, unanswered>>
       \/ /\ to = "sent" /\ UNCHANGED unanswered
          /\ \/ sentTo' = [sentTo EXCEPT ![m] = @ + 1]
             \/ sentTo[m] > 0 /\ UNCHANGED sentTo
       \/ /\ to # "sent"
          /\ sentTo' = [sentTo EXCEPT ![m] = @ + 1]
          /\ unanswered' = [unanswered EXCEPT ![m] = @ + 1]
    BY <1>2, <1>4, WebhookMoves DEF Moves
<1> QED
    BY <1>9, <1>10, <1>11, <1>12

LEMMA JobStepsHook ==
    ASSUME AccountsInv, AlertsType, OnceEach, HookInv, NEW ch \in DOMAIN jobs,
           JobStep(ch)
    PROVE  HookInv'
<1>1. CASE MatchRules(ch) \/ MatchFails(ch)
    <2>1. \E to \in {"next", "done"} : Moves(ch, "match", to)
        BY <1>1, MatchMoves, FailingMoves
    <2>2. UNCHANGED <<notes, sentTo, unanswered>>
        BY <1>1 DEF MatchRules, MatchFails, tableVars
    <2>3. \A n : Waiting(n)' => Waiting(n)
        BY <2>1 DEF Moves, Waiting
    <2> QED
        BY <2>1, <2>2, <2>3, HookMoves
<1>2. ASSUME NEW e \in jobs[ch].todo, NextRule(ch, e) \/ NextRuleFails(ch, e)
      PROVE  HookInv'
    <2>1. /\ jobs'[ch].todo = jobs[ch].todo \ {e}
          /\ \/ /\ jobs'[ch].rule = e
                /\ \E to \in {"users", "webhook", "next"} : Moves(ch, "next", to)
             \/ Moves(ch, "next", "next")
          /\ \/ notes' = Put(notes, <<e.id, ch>>, [sent |-> FALSE, error |-> FALSE])
             \/ notes' = notes
        BY <1>2, NextEffect DEF Stored, Skipped
    <2>2. \A n \in DOMAIN notes' : notes'[n].sent => n \in DOMAIN notes /\ notes[n].sent
        BY <2>1 DEF Put
    <2>3. UNCHANGED <<sentTo, unanswered>>
        BY <1>2, NextEffect
    <2>4. /\ DOMAIN jobs' = DOMAIN jobs
          /\ \A x \in DOMAIN jobs \ {ch} : jobs'[x] = jobs[x]
          /\ jobs'[ch].at = "next" \/ (jobs'[ch].at # "match" /\ jobs'[ch].rule = e)
        BY <2>1 DEF Moves
    <2>5. \A n : Waiting(n)' => Waiting(n)
        BY <2>1, <2>4 DEF Waiting
    <2> QED
        BY <2>1, <2>2, <2>3, <2>5, HookMoves
<1>3. CASE AllRulesDone(ch)
    <2>1. Moves(ch, "next", "done") /\ SameRule(ch)
        BY <1>3, DoneMoves
    <2>2. UNCHANGED <<notes, sentTo, unanswered>>
        BY <1>3 DEF AllRulesDone, tableVars, historyVars
    <2> QED
        BY <2>1, <2>2, WaitingMoves, HookMoves DEF BeforeHook
<1>4. CASE ListUsers(ch) \/ ListUsersFails(ch)
    <2>1. SameRule(ch) /\ \E to \in {"notify", "webhook", "next"} : Moves(ch, "users", to)
        BY <1>4, ListMoves, FailingMoves
    <2>2. UNCHANGED <<notes, sentTo, unanswered>>
        BY <1>4 DEF ListUsers, ListUsersFails, tableVars
    <2> QED
        BY <2>1, <2>2, WaitingMoves, HookMoves DEF BeforeHook
<1>5. ASSUME NEW u \in User, NotifyUser(ch, u) \/ NotifyUserFails(ch, u)
      PROVE  HookInv'
    <2>1. SameRule(ch) /\ \E to \in {"notify", "webhook", "next"} : Moves(ch, "notify", to)
        BY <1>5, NotifyMoves, FailingMoves
    <2>2. UNCHANGED <<notes, sentTo, unanswered>>
        BY <1>5 DEF NotifyUser, NotifyUserFails
    <2> QED
        BY <2>1, <2>2, WaitingMoves, HookMoves DEF BeforeHook
<1>6. CASE AllUsersNotified(ch)
    <2>1. Moves(ch, "notify", "webhook") /\ SameRule(ch)
        BY <1>6, DoneMoves
    <2>2. UNCHANGED <<notes, sentTo, unanswered>>
        BY <1>6 DEF AllUsersNotified, tableVars, historyVars
    <2> QED
        BY <2>1, <2>2, WaitingMoves, HookMoves DEF BeforeHook
<1>7. ASSUME \/ NoWebhook(ch) \/ Taken(ch) \/ KnownDuplicate(ch) \/ TakenUnanswered(ch)
             \/ Unreached(ch) \/ Refused(ch) \/ UrlRefused(ch)
      PROVE  HookInv'
    BY <1>7, WebhookStepsHook
<1>8. CASE RecordStatus(ch)
    <2>1. /\ SameRule(ch)
          /\ \E from \in {"sent", "failed"} : Moves(ch, from, "next")
          /\ DOMAIN notes' = DOMAIN notes
          /\ \A n \in DOMAIN notes :
                notes'[n].sent => notes[n].sent \/ (n = Note(ch) /\ At(ch, "sent"))
        BY <1>8, RecordMoves
    <2>2. UNCHANGED <<sentTo, unanswered>>
        BY <1>8 DEF RecordStatus, historyVars
    <2>3. \A n : Waiting(n)' => Waiting(n)
        BY <2>1, WaitingMoves DEF BeforeHook
    <2>4. \A n \in DOMAIN notes' : notes'[n].sent => n \in NoteId /\ sentTo[n] > 0
        BY <2>1, NoteOfJob DEF HookInv, At, AtRule
    <2>5. /\ DOMAIN jobs' = DOMAIN jobs /\ jobs'[ch].at = "next"
          /\ \A x \in DOMAIN jobs \ {ch} : jobs'[x] = jobs[x]
        BY <2>1 DEF Moves
    <2>6. \A x \in DOMAIN jobs' : jobs'[x].at = "sent" => sentTo[Note(x)'] > 0
        BY <2>5 DEF HookInv, Note
    <2> QED
        BY <2>2, <2>3, <2>4, <2>6 DEF HookInv
<1>9. CASE RecordStatusFails(ch)
    <2>1. SameRule(ch) /\ \E from \in {"sent", "failed"} : Moves(ch, from, "next")
        BY <1>9, FailingMoves
    <2>2. UNCHANGED <<notes, sentTo, unanswered>>
        BY <1>9 DEF RecordStatusFails, tableVars, historyVars
    <2> QED
        BY <2>1, <2>2, WaitingMoves, HookMoves DEF BeforeHook
<1> QED
    BY <1>1, <1>2, <1>3, <1>4, <1>5, <1>6, <1>7, <1>8, <1>9 DEF JobStep

\* A notification is marked as sent only when the receiver took it, and the
\* receiver is given it twice only when its answer was lost.
THEOREM WebhooksAccounted == Spec => []WebhookAccount
<1>1. Init => HookInv
    BY DEF Init, AlertsInit, HookInv, Empty
<1>2. AccountsInv /\ AlertsType /\ OnceEach /\ HookInv /\ [Next]_vars => HookInv'
    <2> SUFFICES ASSUME AccountsInv, AlertsType, OnceEach, HookInv, [Next]_vars
                 PROVE  HookInv'
        OBVIOUS
    <2>1. CASE RuleStep
        <3>1. /\ UNCHANGED <<sentTo, unanswered>>
              /\ DOMAIN notes' \subseteq DOMAIN notes
              /\ \A n \in DOMAIN notes' : notes'[n] = notes[n]
            BY <2>1, RuleStepEffect
        <3>2. CASE UNCHANGED jobs
            BY <3>1, <3>2, HookKept DEF Waiting
        <3>3. ASSUME NEW ch \in Change \ DOMAIN jobs, NEW change \in ChangeRow,
                     jobs' = Put(jobs, ch, Job(change))
              PROVE  HookInv'
            <4>1. /\ DOMAIN jobs' = DOMAIN jobs \cup {ch}
                  /\ jobs'[ch].at = "match"
                  /\ \A x \in DOMAIN jobs : jobs'[x] = jobs[x]
                BY <3>3 DEF Put, Job
            <4>2. \A n : Waiting(n)' => Waiting(n)
                BY <4>1 DEF Waiting
            <4> QED
                BY <3>1, <4>1, <4>2, HookKept
        <3> QED
            BY <2>1, <3>2, <3>3, RuleStepEffect
    <2>2. ASSUME NEW ch \in DOMAIN jobs, JobStep(ch) PROVE HookInv'
        BY <2>2, JobStepsHook
    <2>3. CASE Crash
        <3>1. UNCHANGED <<notes, sentTo, unanswered>>
            BY <2>3 DEF Crash, tableVars
        <3>2. /\ DOMAIN jobs' = DOMAIN jobs
              /\ \A ch \in DOMAIN jobs :
                    /\ jobs'[ch] = jobs[ch] \/ jobs'[ch].at = "dead"
                    /\ jobs'[ch].todo = jobs[ch].todo /\ jobs'[ch].rule = jobs[ch].rule
            BY <2>3, CrashMoves DEF SameRule
        <3>3. \A n : Waiting(n)' => Waiting(n)
            BY <3>2 DEF Waiting
        <3> QED
            BY <3>1, <3>2, <3>3, HookKept
    <2>4. ASSUME NEW u \in User, NEW marks, MarkRead(u, marks) PROVE HookInv'
        BY <2>4, HookKept DEF MarkRead, historyVars, Waiting
    <2>5. CASE OtherStep
        BY <2>5, HookKept DEF OtherStep, historyVars, Waiting
    <2> QED
        BY <2>1, <2>2, <2>3, <2>4, <2>5, AlertsSteps
<1>3. HookInv => WebhookAccount
    BY DEF HookInv, WebhookAccount
<1> QED
    BY <1>1, <1>2, <1>3, AccountsInductive, AlertsTyped, OnceInductive, PTL DEF Spec

(***************************************************************************)
(* Who a notification is meant for.                                        *)
(***************************************************************************)
\* A goroutine works through the rules it has found.
JobFound(ch) ==
    /\ jobs[ch].at = "match" => jobs[ch].todo = {} /\ ch \notin DOMAIN matched
    /\ jobs[ch].at \notin {"match", "dead"} => ch \in DOMAIN matched
    /\ ch \in DOMAIN matched =>
          /\ jobs[ch].todo \subseteq matched[ch]
          /\ jobs[ch].at \in AtRule => jobs[ch].rule \in matched[ch]
          /\ \A e, f \in matched[ch] : e.id = f.id => e = f

\* A notification is stored when the turn of its rule has come.
NoteMade(n) ==
    /\ n[2] \in DOMAIN jobs
    /\ jobs[n[2]].at # "match"
    /\ \A e \in jobs[n[2]].todo : e.id # n[1]

\* The users of a notification of a rule that wants it have been listed, or
\* could not be, or are about to be.
Offered(e, ch) ==
    \/ <<e.id, ch>> \in DOMAIN audience
    \/ <<e.id, ch>> \in failed
    \/ jobs[ch].at \in {"users", "dead"} /\ jobs[ch].rule.id = e.id

OfferInv ==
    /\ \A ch \in DOMAIN jobs : JobFound(ch)
    /\ \A n \in DOMAIN notes : NoteMade(n)
    /\ \A ch \in DOMAIN matched : \A e \in matched[ch] :
          <<e.id, ch>> \in DOMAIN notes /\ e.row.inApp => Offered(e, ch)

\* A step that leaves the goroutines alone, or starts one, or ends them.
LEMMA OfferKept ==
    ASSUME AlertsType, OfferInv, UNCHANGED <<matched, audience, failed>>,
           DOMAIN notes' \subseteq DOMAIN notes,
           \A ch \in DOMAIN jobs :
              /\ ch \in DOMAIN jobs'
              /\ jobs'[ch] = jobs[ch] \/ jobs'[ch].at = "dead"
              /\ jobs'[ch].todo = jobs[ch].todo /\ jobs'[ch].rule = jobs[ch].rule,
           \A ch \in DOMAIN jobs' \ DOMAIN jobs :
              jobs'[ch].at = "match" /\ jobs'[ch].todo = {}
    PROVE  OfferInv'
<1>1. ASSUME NEW ch \in DOMAIN jobs' PROVE JobFound(ch)'
    <2>1. CASE ch \in DOMAIN jobs
        BY <2>1 DEF OfferInv, JobFound, AtRule
    <2>2. CASE ch \notin DOMAIN jobs
        BY <1>1, <2>2 DEF JobFound, AlertsType
    <2> QED
        BY <2>1, <2>2
<1>2. \A n \in DOMAIN notes' : NoteMade(n)'
    BY DEF OfferInv, NoteMade
<1>3. ASSUME NEW ch \in DOMAIN matched', NEW e \in matched'[ch],
             <<e.id, ch>> \in DOMAIN notes', e.row.inApp
      PROVE  Offered(e, ch)'
    <2>1. ch \in DOMAIN jobs /\ Offered(e, ch)
        BY <1>3 DEF OfferInv, AlertsType
    <2> QED
        BY <2>1 DEF Offered
<1> QED
    BY <1>1, <1>2, <1>3 DEF OfferInv

\* A goroutine moves on within its rules.
LEMMA OfferMoves ==
    ASSUME AlertsType, OfferInv, NEW ch \in DOMAIN jobs, NEW from, NEW to,
           Moves(ch, from, to), SameRule(ch),
           from \notin {"match", "dead"}, to \notin {"match", "users", "dead"},
           to \in AtRule => from \in AtRule,
           UNCHANGED matched, DOMAIN notes' \subseteq DOMAIN notes,
           DOMAIN audience \subseteq DOMAIN audience', failed \subseteq failed',
           from = "users" => Note(ch) \in DOMAIN audience' \cup failed'
    PROVE  OfferInv'
<1>0. /\ DOMAIN jobs' = DOMAIN jobs
      /\ \A x \in DOMAIN jobs \ {ch} : jobs'[x] = jobs[x]
      /\ jobs[ch].at = from /\ jobs'[ch].at = to
    BY DEF Moves
<1>1. \A x \in DOMAIN jobs : JobFound(x)'
    BY <1>0 DEF OfferInv, JobFound, SameRule
<1>2. \A n \in DOMAIN notes' : NoteMade(n)'
    BY <1>0 DEF OfferInv, NoteMade, SameRule
<1>3. ASSUME NEW x \in DOMAIN matched', NEW e \in matched'[x],
             <<e.id, x>> \in DOMAIN notes', e.row.inApp
      PROVE  Offered(e, x)'
    <2>1. x \in DOMAIN jobs /\ Offered(e, x)
        BY <1>3 DEF OfferInv, AlertsType
    <2>2. CASE x = ch
        BY <1>0, <2>1, <2>2 DEF Offered, Note
    <2>3. CASE x # ch
        BY <1>0, <2>1, <2>3 DEF Offered
    <2> QED
        BY <2>2, <2>3
<1> QED
    BY <1>0, <1>1, <1>2, <1>3 DEF OfferInv

LEMMA SearchOffer ==
    ASSUME AlertsType, OfferInv, NEW ch \in DOMAIN jobs, MatchRules(ch) \/ MatchFails(ch)
    PROVE  OfferInv'
<1> DEFINE found == Matches(jobs[ch].change)
<1>1. /\ matched' = Put(matched, ch, found)
      /\ jobs'[ch].rule = jobs[ch].rule
      /\ \/ Moves(ch, "match", "next") /\ jobs'[ch].todo = found
         \/ Moves(ch, "match", "done") /\ jobs'[ch].todo = jobs[ch].todo
    BY MatchMoves, FailingMoves DEF SameRule
<1>2. UNCHANGED <<notes, audience>> /\ failed \subseteq failed'
    BY DEF MatchRules, MatchFails, tableVars
<1>3. \A e, f \in found : e.id = f.id => e = f
    BY FoundOnce
<1> HIDE DEF found
<1>4. /\ DOMAIN matched' = DOMAIN matched \cup {ch} /\ matched'[ch] = found
      /\ \A x \in DOMAIN matched \ {ch} : matched'[x] = matched[x]
    BY <1>1 DEF Put
<1>5. /\ DOMAIN jobs' = DOMAIN jobs
      /\ \A x \in DOMAIN jobs \ {ch} : jobs'[x] = jobs[x]
      /\ jobs[ch].at = "match" /\ jobs[ch].todo = {}
      /\ jobs'[ch].at \in {"next", "done"} /\ jobs'[ch].todo \subseteq found
    BY <1>1 DEF Moves, OfferInv, JobFound
<1>6. ASSUME NEW x \in DOMAIN jobs PROVE JobFound(x)'
    <2>1. CASE x = ch
        BY <1>3, <1>4, <1>5, <2>1 DEF JobFound, AtRule
    <2>2. CASE x # ch
        BY <1>4, <1>5, <2>2 DEF JobFound, OfferInv
    <2> QED
        BY <2>1, <2>2
<1>7. \A n \in DOMAIN notes : n[2] \in DOMAIN jobs \ {ch}
    BY <1>5 DEF OfferInv, NoteMade
<1>8. \A n \in DOMAIN notes' : NoteMade(n)'
    BY <1>2, <1>5, <1>7 DEF OfferInv, NoteMade
<1>9. ASSUME NEW x \in DOMAIN matched', NEW e \in matched'[x],
             <<e.id, x>> \in DOMAIN notes', e.row.inApp
      PROVE  Offered(e, x)'
    <2>1. x # ch
        BY <1>2, <1>7, <1>9
    <2>2. x \in DOMAIN jobs /\ Offered(e, x)
        BY <1>2, <1>4, <1>9, <2>1 DEF OfferInv, AlertsType
    <2> QED
        BY <1>2, <1>5, <2>1, <2>2 DEF Offered
<1> QED
    BY <1>5, <1>6, <1>8, <1>9 DEF OfferInv

LEMMA NextOffer ==
    ASSUME AlertsType, OfferInv, NEW ch \in DOMAIN jobs, NEW e \in jobs[ch].todo,
           NextRule(ch, e) \/ NextRuleFails(ch, e)
    PROVE  OfferInv'
<1> DEFINE m == <<e.id, ch>>
           stores == \E to \in {"users", "webhook", "next"} : Stored(ch, e, to)
<1>a. /\ jobs'[ch].todo = jobs[ch].todo \ {e}
      /\ stores \/ Skipped(ch)
      /\ \/ Stored(ch, e, IF e.row.inApp THEN "users" ELSE "webhook")
         \/ Skipped(ch) \/ m \in failed'
      /\ failed \subseteq failed' /\ UNCHANGED <<matched, audience>>
    BY NextEffect
<1>b. stores => /\ DOMAIN notes' = DOMAIN notes \cup {m} /\ jobs'[ch].rule = e
                /\ \E to \in {"users", "webhook", "next"} : Moves(ch, "next", to)
    BY DEF Stored, Put
<1>c. Skipped(ch) => notes' = notes /\ Moves(ch, "next", "next")
    BY DEF Skipped
<1>d. Stored(ch, e, IF e.row.inApp THEN "users" ELSE "webhook") =>
         /\ jobs'[ch].rule = e
         /\ e.row.inApp => jobs'[ch].at = "users"
    BY DEF Stored, Moves
<1> HIDE DEF stores
<1>0. /\ DOMAIN jobs' = DOMAIN jobs
      /\ \A x \in DOMAIN jobs \ {ch} : jobs'[x] = jobs[x]
      /\ jobs[ch].at = "next" /\ jobs'[ch].at \in {"users", "webhook", "next"}
      /\ DOMAIN notes' \subseteq DOMAIN notes \cup {m}
      /\ jobs'[ch].at \in AtRule => jobs'[ch].rule = e
    BY <1>a, <1>b, <1>c DEF Moves, AtRule
<1>1. /\ ch \in DOMAIN matched /\ jobs[ch].todo \subseteq matched[ch]
      /\ \A f, g \in matched[ch] : f.id = g.id => f = g
    BY <1>0 DEF OfferInv, JobFound
<1>2. ASSUME NEW x \in DOMAIN jobs PROVE JobFound(x)'
    <2>1. CASE x = ch
        BY <1>0, <1>1, <1>a, <2>1 DEF JobFound
    <2>2. CASE x # ch
        BY <1>0, <1>a, <2>2 DEF JobFound, OfferInv
    <2> QED
        BY <2>1, <2>2
<1>3. NoteMade(m)'
    BY <1>0, <1>1, <1>a DEF NoteMade
<1>4. ASSUME NEW n \in DOMAIN notes' PROVE NoteMade(n)'
    BY <1>0, <1>3, <1>a DEF OfferInv, NoteMade
<1>5. ASSUME NEW x \in DOMAIN matched', NEW f \in matched'[x],
             <<f.id, x>> \in DOMAIN notes', f.row.inApp
      PROVE  Offered(f, x)'
    <2>1. CASE <<f.id, x>> \in DOMAIN notes
        <3>1. x \in DOMAIN jobs /\ Offered(f, x)
            BY <1>5, <1>a, <2>1 DEF OfferInv, AlertsType
        <3> QED
            BY <1>0, <1>a, <3>1 DEF Offered
    <2>2. CASE <<f.id, x>> \notin DOMAIN notes
        <3>1. <<f.id, x>> = m /\ x = ch
            BY <1>0, <1>5, <2>2
        <3>2. f = e
            BY <1>1, <1>5, <1>a, <3>1
        <3>3. ~Skipped(ch)
            BY <1>5, <1>c, <2>2
        <3> QED
            BY <1>5, <1>a, <1>d, <3>1, <3>2, <3>3 DEF Offered
    <2> QED
        BY <2>1, <2>2
<1> QED
    BY <1>0, <1>2, <1>4, <1>5 DEF OfferInv

LEMMA JobStepsOffer ==
    ASSUME AccountsInv, AlertsType, OfferInv, NEW ch \in DOMAIN jobs, JobStep(ch)
    PROVE  OfferInv'
<1> USE DEF AtRule
<1>1. CASE MatchRules(ch) \/ MatchFails(ch)
    BY <1>1, SearchOffer
<1>2. ASSUME NEW e \in jobs[ch].todo, NextRule(ch, e) \/ NextRuleFails(ch, e)
      PROVE  OfferInv'
    BY <1>2, NextOffer
<1>3. CASE AllRulesDone(ch) \/ AllUsersNotified(ch)
    <2>1. UNCHANGED <<matched, notes, audience, failed>>
        BY <1>3 DEF AllRulesDone, AllUsersNotified, tableVars, historyVars
    <2> QED
        BY <1>3, <2>1, DoneMoves, OfferMoves
<1>4. CASE ListUsers(ch)
    <2>1. /\ UNCHANGED <<matched, notes, failed>>
          /\ DOMAIN audience' = DOMAIN audience \cup {Note(ch)}
        BY <1>4 DEF ListUsers, tableVars, Put
    <2> QED
        BY <1>4, <2>1, ListMoves, OfferMoves
<1>5. CASE ListUsersFails(ch)
    <2>1. /\ UNCHANGED <<matched, notes, audience>>
          /\ failed' = failed \cup {Note(ch)}
        BY <1>5 DEF ListUsersFails, tableVars
    <2> QED
        BY <1>5, <2>1, FailingMoves, OfferMoves
<1>6. ASSUME NEW u \in User, NotifyUser(ch, u) \/ NotifyUserFails(ch, u)
      PROVE  OfferInv'
    <2>1. UNCHANGED <<matched, notes, audience>> /\ failed \subseteq failed'
        BY <1>6 DEF NotifyUser, NotifyUserFails
    <2>2. SameRule(ch) /\ \E to \in {"notify", "webhook", "next"} : Moves(ch, "notify", to)
        BY <1>6, NotifyMoves, FailingMoves
    <2> QED
        BY <2>1, <2>2, OfferMoves
<1>7. ASSUME \/ NoWebhook(ch) \/ Taken(ch) \/ KnownDuplicate(ch) \/ TakenUnanswered(ch)
             \/ Unreached(ch) \/ Refused(ch) \/ UrlRefused(ch)
      PROVE  OfferInv'
    <2>1. SameRule(ch) /\ UNCHANGED <<notes, matched, audience, failed>>
        BY <1>7, WebhookMoves DEF tableVars
    <2>2. \E to \in {"next", "sent", "webhook", "failed"} : Moves(ch, "webhook", to)
        BY <1>7, WebhookMoves
    <2> QED
        BY <2>1, <2>2, OfferMoves
<1>8. CASE RecordStatus(ch) \/ RecordStatusFails(ch)
    <2>1. DOMAIN notes' = DOMAIN notes /\ UNCHANGED <<matched, audience, failed>>
        BY <1>8, RecordMoves DEF RecordStatus, RecordStatusFails, tableVars, historyVars
    <2>2. SameRule(ch) /\ \E from \in {"sent", "failed"} : Moves(ch, from, "next")
        BY <1>8, RecordMoves, FailingMoves
    <2> QED
        BY <2>1, <2>2, OfferMoves
<1> QED
    BY <1>1, <1>2, <1>3, <1>4, <1>5, <1>6, <1>7, <1>8 DEF JobStep

LEMMA OfferInductive ==
    /\ Init => OfferInv
    /\ AccountsInv /\ AlertsType /\ OfferInv /\ [Next]_vars => OfferInv'
<1>1. Init => OfferInv
    BY DEF Init, AlertsInit, OfferInv, Empty
<1>2. ASSUME AccountsInv, AlertsType, OfferInv, [Next]_vars PROVE OfferInv'
    <2>1. CASE RuleStep
        <3>1. /\ UNCHANGED <<matched, audience, failed>>
              /\ DOMAIN notes' \subseteq DOMAIN notes
            BY <1>2, <2>1, RuleStepEffect
        <3>2. CASE UNCHANGED jobs
            BY <1>2, <3>1, <3>2, OfferKept
        <3>3. ASSUME NEW ch \in Change \ DOMAIN jobs, NEW change \in ChangeRow,
                     jobs' = Put(jobs, ch, Job(change))
              PROVE  OfferInv'
            <4>1. /\ DOMAIN jobs' = DOMAIN jobs \cup {ch}
                  /\ jobs'[ch].at = "match" /\ jobs'[ch].todo = {}
                  /\ \A x \in DOMAIN jobs : jobs'[x] = jobs[x]
                BY <3>3 DEF Put, Job
            <4> QED
                BY <1>2, <3>1, <4>1, OfferKept
        <3> QED
            BY <1>2, <2>1, <3>2, <3>3, RuleStepEffect
    <2>2. ASSUME NEW ch \in DOMAIN jobs, JobStep(ch) PROVE OfferInv'
        BY <1>2, <2>2, JobStepsOffer
    <2>3. CASE Crash
        <3>1. UNCHANGED <<matched, audience, failed, notes>>
            BY <2>3 DEF Crash, tableVars
        <3> QED
            BY <1>2, <2>3, <3>1, CrashMoves, OfferKept DEF SameRule
    <2>4. ASSUME NEW u \in User, NEW marks, MarkRead(u, marks) PROVE OfferInv'
        BY <1>2, <2>4, OfferKept DEF MarkRead, historyVars
    <2>5. CASE OtherStep
        BY <1>2, <2>5, OfferKept DEF OtherStep, historyVars
    <2> QED
        BY <1>2, <2>1, <2>2, <2>3, <2>4, <2>5, AlertsSteps
<1> QED
    BY <1>1, <1>2

(***************************************************************************)
(* Unread marks.                                                           *)
(***************************************************************************)
\* The goroutine is in the loop over the users of this notification.
Busy(n) == jobs[n[2]].at = "notify" /\ jobs[n[2]].rule.id = n[1]

\* It died there, or later within the rule.
Died(n) == jobs[n[2]].at = "dead" /\ jobs[n[2]].rule.id = n[1]

\* It has listed the users, and never comes back to the rule.
Past(n) ==
    /\ n[2] \in DOMAIN jobs
    /\ jobs[n[2]].at # "match"
    /\ \A e \in jobs[n[2]].todo : e.id # n[1]
    /\ jobs[n[2]].at = "users" => jobs[n[2]].rule.id # n[1]

\* The users it was meant for are there, or are gone for good.
Known(n) ==
    \A u \in audience[n] : u \in DOMAIN users \/ \E h \in held : h.user = u

Told(n, us) == \A u \in us \cap DOMAIN users : Mark(u, n) \in DOMAIN inbox

Reached(n) ==
    /\ n \in NoteId /\ Past(n) /\ Known(n)
    /\ n \in cut => ~(audience[n] \subseteq DOMAIN users) \/ n \notin DOMAIN notes
    /\ n \notin cut /\ n \in DOMAIN notes /\ ~Busy(n) =>
          Died(n) \/ n \in failed \/ Told(n, audience[n])
    /\ Busy(n) => /\ n \notin cut
                  /\ jobs[n[2]].users \subseteq audience[n]
                  /\ n \in DOMAIN notes => Told(n, audience[n] \ jobs[n[2]].users)

InboxInv ==
    /\ \A n \in DOMAIN audience : Reached(n)
    /\ cut \cap NoteId \subseteq DOMAIN audience
    /\ \A ch \in DOMAIN jobs : jobs[ch].at = "notify" => Note(ch) \in DOMAIN audience

\* A step that leaves the goroutines alone, or starts one.
LEMMA InboxKept ==
    ASSUME InboxInv, UsersFlow, UNCHANGED <<audience, cut, failed>>,
           \A ch \in DOMAIN jobs : ch \in DOMAIN jobs' /\ jobs'[ch] = jobs[ch],
           \A ch \in DOMAIN jobs' \ DOMAIN jobs : jobs'[ch].at # "notify",
           DOMAIN notes' \subseteq DOMAIN notes,
           \A n \in DOMAIN notes', u \in DOMAIN users' :
              n \in NoteId /\ Mark(u, n) \in DOMAIN inbox => Mark(u, n) \in DOMAIN inbox'
    PROVE  InboxInv'
<1>1. ASSUME NEW n \in DOMAIN audience PROVE Reached(n)'
    <2>1. Reached(n)
        BY <1>1 DEF InboxInv
    <2>2. /\ n[2] \in DOMAIN jobs /\ jobs'[n[2]] = jobs[n[2]]
          /\ audience'[n] = audience[n]
        BY <2>1 DEF Reached, Past
    <2>3. Past(n)' /\ Busy(n)' = Busy(n) /\ Died(n)' = Died(n)
        BY <2>1, <2>2 DEF Reached, Past, Busy, Died
    <2>4. Known(n)'
        BY <2>1 DEF Reached, Known, UsersFlow
    <2>5. \A u \in audience[n] : u \in DOMAIN users' => u \in DOMAIN users
        BY <2>1 DEF Reached, Known, UsersFlow
    <2>6. \A us \in SUBSET audience[n] :
             n \in DOMAIN notes' /\ Told(n, us) => Told(n, us)'
        BY <2>1, <2>5 DEF Told, Reached
    <2>7. n \in cut' => ~(audience'[n] \subseteq DOMAIN users') \/ n \notin DOMAIN notes'
        BY <2>1, <2>5 DEF Reached
    <2>8. n \notin cut' /\ n \in DOMAIN notes' /\ ~Busy(n)' =>
             Died(n)' \/ n \in failed' \/ Told(n, audience[n])'
        BY <2>1, <2>3, <2>6 DEF Reached
    <2>9. Busy(n)' =>
             /\ n \notin cut'
             /\ jobs'[n[2]].users \subseteq audience'[n]
             /\ n \in DOMAIN notes' => Told(n, audience[n] \ jobs[n[2]].users)'
        BY <2>1, <2>2, <2>3, <2>6 DEF Reached
    <2> QED
        BY <2>1, <2>2, <2>3, <2>4, <2>7, <2>8, <2>9 DEF Reached, Told
<1>2. \A ch \in DOMAIN jobs' : jobs'[ch].at = "notify" => Note(ch)' \in DOMAIN audience'
    BY DEF InboxInv, Note
<1> QED
    BY <1>1, <1>2 DEF InboxInv

\* What a goroutine does leaves the notifications of the others as they are.
LEMMA ReachedElsewhere ==
    ASSUME NEW ch \in DOMAIN jobs, NEW n, Reached(n), n[2] # ch,
           DOMAIN jobs' = DOMAIN jobs, \A x \in DOMAIN jobs \ {ch} : jobs'[x] = jobs[x],
           UNCHANGED <<users, held>>, audience'[n] = audience[n],
           n \in DOMAIN notes' => n \in DOMAIN notes,
           n \in cut' <=> n \in cut, failed \subseteq failed',
           DOMAIN inbox \subseteq DOMAIN inbox'
    PROVE  Reached(n)'
<1>1. n[2] \in DOMAIN jobs /\ jobs'[n[2]] = jobs[n[2]]
    BY DEF Reached, Past
<1>2. Past(n)' /\ Busy(n)' = Busy(n) /\ Died(n)' = Died(n) /\ Known(n)'
    BY <1>1 DEF Reached, Past, Busy, Died, Known
<1>3. \A us : Told(n, us) => Told(n, us)'
    BY DEF Told
<1>4. Told(n, audience[n]) => Told(n, audience[n])'
    BY DEF Told
<1>5. Told(n, audience[n] \ jobs[n[2]].users) => Told(n, audience[n] \ jobs[n[2]].users)'
    BY <1>1 DEF Told
<1> QED
    BY <1>1, <1>2, <1>4, <1>5 DEF Reached

\* A goroutine moves on outside the loop over the users.
LEMMA InboxMoves ==
    ASSUME InboxInv, NEW ch \in DOMAIN jobs, NEW from, NEW to, Moves(ch, from, to),
           from \notin {"match", "notify", "dead"}, to \notin {"match", "users", "notify"},
           SameRule(ch), UNCHANGED <<users, held, audience, cut, inbox>>,
           failed \subseteq failed', DOMAIN notes' = DOMAIN notes
    PROVE  InboxInv'
<1>1. /\ DOMAIN jobs' = DOMAIN jobs
      /\ \A x \in DOMAIN jobs \ {ch} : jobs'[x] = jobs[x]
      /\ jobs[ch].at = from /\ jobs'[ch].at = to
    BY DEF Moves
<1>2. ASSUME NEW n \in DOMAIN audience PROVE Reached(n)'
    <2>1. Reached(n)
        BY DEF InboxInv
    <2>2. CASE n[2] = ch
        <3>1. Past(n)' /\ ~Busy(n) /\ ~Busy(n)' /\ ~Died(n) /\ Known(n)'
            BY <1>1, <2>1, <2>2 DEF Reached, Past, Busy, Died, Known, SameRule
        <3>2. Told(n, audience[n])' = Told(n, audience[n])
            BY DEF Told
        <3> QED
            BY <2>1, <3>1, <3>2 DEF Reached
    <2>3. CASE n[2] # ch
        BY <1>1, <2>1, <2>3, ReachedElsewhere
    <2> QED
        BY <2>2, <2>3
<1>3. \A x \in DOMAIN jobs' : jobs'[x].at = "notify" => Note(x)' \in DOMAIN audience'
    BY <1>1 DEF InboxInv, Note
<1> QED
    BY <1>2, <1>3 DEF InboxInv

LEMMA MatchInbox ==
    ASSUME AlertsType, InboxInv, NEW ch \in DOMAIN jobs, MatchRules(ch) \/ MatchFails(ch)
    PROVE  InboxInv'
<1>1. \E to \in {"next", "done"} : Moves(ch, "match", to)
    BY MatchMoves, FailingMoves
<1>2. /\ DOMAIN jobs' = DOMAIN jobs
      /\ \A x \in DOMAIN jobs \ {ch} : jobs'[x] = jobs[x]
      /\ jobs[ch].at = "match" /\ jobs'[ch].at # "notify"
    BY <1>1 DEF Moves
<1>3. UNCHANGED <<users, held, audience, cut, inbox, notes>> /\ failed \subseteq failed'
    BY DEF MatchRules, MatchFails, accountVars, tableVars
<1>4. ASSUME NEW n \in DOMAIN audience PROVE Reached(n)'
    <2>1. Reached(n)
        BY DEF InboxInv
    <2>2. n[2] # ch
        BY <1>2, <2>1 DEF Reached, Past
    <2> QED
        BY <1>2, <1>3, <2>1, <2>2, ReachedElsewhere
<1>5. \A x \in DOMAIN jobs' : jobs'[x].at = "notify" => Note(x)' \in DOMAIN audience'
    BY <1>2, <1>3 DEF InboxInv, Note
<1> QED
    BY <1>3, <1>4, <1>5 DEF InboxInv

LEMMA NextInbox ==
    ASSUME AlertsType, InboxInv, NEW ch \in DOMAIN jobs, NEW e \in jobs[ch].todo,
           NextRule(ch, e) \/ NextRuleFails(ch, e)
    PROVE  InboxInv'
<1>1. /\ jobs'[ch].todo = jobs[ch].todo \ {e}
      /\ \/ /\ notes' = Put(notes, <<e.id, ch>>, [sent |-> FALSE, error |-> FALSE])
            /\ jobs'[ch].rule = e
            /\ \E to \in {"users", "webhook", "next"} : Moves(ch, "next", to)
         \/ notes' = notes /\ Moves(ch, "next", "next")
    BY NextEffect DEF Stored, Skipped
<1>2. /\ DOMAIN jobs' = DOMAIN jobs
      /\ \A x \in DOMAIN jobs \ {ch} : jobs'[x] = jobs[x]
      /\ jobs[ch].at = "next" /\ jobs'[ch].at \in {"users", "webhook", "next"}
      /\ jobs'[ch].at = "users" => jobs'[ch].rule = e
    BY <1>1 DEF Moves
<1>3. UNCHANGED <<users, held, audience, cut, inbox>> /\ failed \subseteq failed'
    BY NextEffect
<1>4. DOMAIN notes' \subseteq DOMAIN notes \cup {<<e.id, ch>>}
    BY <1>1 DEF Put
<1>5. ASSUME NEW n \in DOMAIN audience PROVE Reached(n)'
    <2>1. Reached(n)
        BY DEF InboxInv
    <2>2. n # <<e.id, ch>>
        BY <2>1 DEF Reached, Past
    <2>3. CASE n[2] = ch
        <3>1. Past(n)' /\ ~Busy(n) /\ ~Busy(n)' /\ ~Died(n) /\ Known(n)'
            BY <1>1, <1>2, <1>3, <2>1, <2>3 DEF Reached, Past, Busy, Died, Known
        <3>2. Told(n, audience[n])' = Told(n, audience[n])
            BY <1>3 DEF Told
        <3> QED
            BY <1>3, <1>4, <2>1, <2>2, <3>1, <3>2 DEF Reached
    <2>4. CASE n[2] # ch
        BY <1>2, <1>3, <1>4, <2>1, <2>2, <2>4, ReachedElsewhere
    <2> QED
        BY <2>3, <2>4
<1>6. \A x \in DOMAIN jobs' : jobs'[x].at = "notify" => Note(x)' \in DOMAIN audience'
    BY <1>2, <1>3 DEF InboxInv, Note
<1> QED
    BY <1>3, <1>5, <1>6 DEF InboxInv

LEMMA ListInbox ==
    ASSUME AccountsInv, AlertsType, OnceEach, InboxInv, NEW ch \in DOMAIN jobs,
           ListUsers(ch)
    PROVE  InboxInv'
<1>1. /\ Moves(ch, "users", "notify") /\ SameRule(ch)
      /\ jobs'[ch].users = DOMAIN users
    BY ListMoves
<1>2. /\ DOMAIN jobs' = DOMAIN jobs
      /\ \A x \in DOMAIN jobs \ {ch} : jobs'[x] = jobs[x]
      /\ jobs[ch].at = "users" /\ jobs'[ch].at = "notify"
    BY <1>1 DEF Moves
<1>3. PICK m \in NoteId : m = Note(ch) /\ m[1] = jobs[ch].rule.id /\ m[2] = ch
    BY <1>2, NoteOfJob DEF AtRule
<1>4. UNCHANGED <<users, held, cut, failed, inbox, notes>>
    BY DEF ListUsers, accountVars, tableVars
<1>5. audience' = Put(audience, m, DOMAIN users)
    BY <1>3 DEF ListUsers
<1>6. /\ DOMAIN audience' = DOMAIN audience \cup {m} /\ audience'[m] = DOMAIN users
      /\ \A n \in DOMAIN audience \ {m} : audience'[n] = audience[n]
    BY <1>5 DEF Put
<1>7. m \notin DOMAIN audience /\ m \notin cut
    BY <1>2, <1>3 DEF InboxInv, Reached, Past
<1>8. Reached(m)'
    <2>1. Past(m)' /\ Busy(m)' /\ Known(m)'
        BY <1>1, <1>2, <1>3, <1>4, <1>6
        DEF Past, Busy, Known, SameRule, OnceEach, AtRule
    <2>2. Told(m, {})'
        BY DEF Told
    <2>3. audience'[m] \ jobs'[m[2]].users = {} /\ jobs'[m[2]].users \subseteq audience'[m]
        BY <1>1, <1>3, <1>6
    <2>4. Told(m, audience[m] \ jobs[m[2]].users)'
        BY <2>2, <2>3 DEF Told
    <2> QED
        BY <1>4, <1>7, <2>1, <2>3, <2>4 DEF Reached
<1>9. ASSUME NEW n \in DOMAIN audience \ {m} PROVE Reached(n)'
    <2>1. Reached(n)
        BY DEF InboxInv
    <2>2. CASE n[2] = ch
        <3>1. Past(n)' /\ ~Busy(n) /\ ~Busy(n)' /\ ~Died(n) /\ Known(n)'
            BY <1>1, <1>2, <1>4, <1>6, <2>1, <2>2
            DEF Reached, Past, Busy, Died, Known, SameRule
        <3>2. Told(n, audience[n])' = Told(n, audience[n])
            BY <1>4, <1>6 DEF Told
        <3> QED
            BY <1>4, <1>6, <2>1, <3>1, <3>2 DEF Reached
    <2>3. CASE n[2] # ch
        BY <1>2, <1>4, <1>6, <2>1, <2>3, ReachedElsewhere
    <2> QED
        BY <2>2, <2>3
<1>10. \A x \in DOMAIN jobs' : jobs'[x].at = "notify" => Note(x)' \in DOMAIN audience'
    <2>1. Note(ch)' = m /\ \A x \in DOMAIN jobs \ {ch} : Note(x)' = Note(x)
        BY <1>1, <1>2, <1>3 DEF Note, SameRule
    <2> QED
        BY <1>2, <1>6, <2>1 DEF InboxInv
<1> QED
    BY <1>4, <1>6, <1>8, <1>9, <1>10 DEF InboxInv

\* The steps in the loop over the users.
LEMMA NotifyInbox ==
    ASSUME AlertsType, InboxInv, NEW ch \in DOMAIN jobs,
           \/ \E u \in User : NotifyUser(ch, u) \/ NotifyUserFails(ch, u)
           \/ AllUsersNotified(ch)
    PROVE  InboxInv'
<1>1. PICK to \in {"notify", "webhook", "next"} : Moves(ch, "notify", to) /\ SameRule(ch)
    BY NotifyMoves, FailingMoves, DoneMoves
<1>2. /\ DOMAIN jobs' = DOMAIN jobs
      /\ \A x \in DOMAIN jobs \ {ch} : jobs'[x] = jobs[x]
      /\ jobs[ch].at = "notify" /\ jobs'[ch].at = to
    BY <1>1 DEF Moves
<1>3. PICK m \in NoteId : m = Note(ch) /\ m[1] = jobs[ch].rule.id /\ m[2] = ch
    BY <1>2, NoteOfJob DEF AtRule
<1>4. UNCHANGED <<users, held, notes, audience>> /\ failed \subseteq failed'
    BY DEF NotifyUser, NotifyUserFails, AllUsersNotified, accountVars, tableVars,
           historyVars
<1>5. m \in DOMAIN audience /\ Busy(m) /\ Reached(m)
    BY <1>2, <1>3 DEF InboxInv, Busy
<1>6. /\ m \notin cut /\ jobs[ch].users \subseteq audience[m]
      /\ m \in DOMAIN notes => Told(m, audience[m] \ jobs[ch].users)
    BY <1>3, <1>5 DEF Reached
<1>7. /\ DOMAIN inbox \subseteq DOMAIN inbox' /\ cut \subseteq cut' /\ cut' \subseteq cut \cup {m}
      /\ \/ /\ to = "webhook" /\ cut' = cut /\ jobs[ch].users = {}
         \/ /\ to = "notify" /\ cut' = cut /\ jobs'[ch].users \subseteq jobs[ch].users
            /\ \A u \in jobs[ch].users \ jobs'[ch].users : Mark(u, m) \in DOMAIN inbox'
         \/ /\ to # "notify" /\ m \in cut'
            /\ ~(jobs[ch].users \subseteq DOMAIN users) \/ m \notin DOMAIN notes
         \/ to # "notify" /\ cut' = cut /\ m \in failed'
    <2>1. ASSUME NEW u \in User, NotifyUser(ch, u), u \in DOMAIN users /\ m \in DOMAIN notes
          PROVE  /\ DOMAIN inbox' = DOMAIN inbox \cup {Mark(u, m)} /\ cut' = cut
                 /\ jobs'[ch].users = jobs[ch].users \ {u} /\ to = "notify"
        <3>1. /\ inbox' = PutNew(inbox, Mark(u, m), FALSE) /\ cut' = cut
              /\ jobs'[ch].users = jobs[ch].users \ {u} /\ Moves(ch, "notify", "notify")
            BY <1>3, <2>1, NotifyMoves
        <3> QED
            BY <1>2, <3>1 DEF PutNew, Put, Moves
    <2>2. ASSUME NEW u \in User, NotifyUser(ch, u), ~(u \in DOMAIN users /\ m \in DOMAIN notes)
          PROVE  /\ inbox' = inbox /\ cut' = cut \cup {m} /\ to # "notify"
                 /\ u \in jobs[ch].users
        <3>1. /\ inbox' = inbox /\ cut' = cut \cup {m}
              /\ Moves(ch, "notify", "webhook") \/ Moves(ch, "notify", "next")
            BY <1>3, <2>2, NotifyMoves
        <3>2. u \in jobs[ch].users
            BY <2>2 DEF NotifyUser
        <3> QED
            BY <1>2, <3>1, <3>2 DEF Moves
    <2>3. CASE AllUsersNotified(ch)
        <3>1. Moves(ch, "notify", "webhook") /\ jobs[ch].users = {}
            BY <2>3, DoneMoves
        <3>2. UNCHANGED <<inbox, cut>>
            BY <2>3 DEF AllUsersNotified, tableVars, historyVars
        <3> QED
            BY <1>2, <3>1, <3>2 DEF Moves
    <2>4. CASE \E u \in User : NotifyUser(ch, u)
        BY <2>1, <2>2, <2>4
    <2>5. ASSUME NEW u \in User, NotifyUserFails(ch, u)
          PROVE  /\ DOMAIN inbox \subseteq DOMAIN inbox' /\ cut' = cut
                 /\ to # "notify" /\ m \in failed'
        <3>1. /\ Moves(ch, "notify", "webhook") \/ Moves(ch, "notify", "next")
              /\ m \in failed'
            BY <1>3, <2>5, FailingMoves
        <3>2. DOMAIN inbox \subseteq DOMAIN inbox' /\ cut' = cut
            BY <2>5 DEF NotifyUserFails, PutNew, Put
        <3> QED
            BY <1>2, <3>1, <3>2 DEF Moves
    <2> QED
        BY <2>3, <2>4, <2>5
<1>8. Reached(m)'
    <2>1. Past(m)' /\ Known(m)' /\ (Busy(m)' <=> to = "notify")
        BY <1>1, <1>2, <1>3, <1>4, <1>5 DEF Reached, Past, Known, Busy, SameRule
    <2>2. to = "webhook" /\ jobs[ch].users = {} /\ m \in DOMAIN notes =>
             Told(m, audience[m])'
        BY <1>4, <1>6, <1>7 DEF Told
    <2>3. CASE to = "notify"
        <3>1. /\ cut' = cut /\ jobs'[ch].users \subseteq jobs[ch].users
              /\ \A u \in jobs[ch].users \ jobs'[ch].users : Mark(u, m) \in DOMAIN inbox'
            BY <1>7, <2>3
        <3>2. m \in DOMAIN notes => Told(m, audience[m] \ jobs[ch].users)'
            BY <1>3, <1>4, <1>6, <1>7, <3>1 DEF Told
        <3> QED
            BY <1>3, <1>4, <1>6, <2>1, <2>3, <3>1, <3>2 DEF Reached
    <2>4. CASE to # "notify"
        BY <1>3, <1>4, <1>6, <1>7, <2>1, <2>2, <2>4 DEF Reached
    <2> QED
        BY <2>3, <2>4
<1>9. ASSUME NEW n \in DOMAIN audience \ {m} PROVE Reached(n)'
    <2>1. Reached(n)
        BY DEF InboxInv
    <2>2. n \in cut' <=> n \in cut
        BY <1>7
    <2>3. CASE n[2] = ch
        <3>1. n[1] # jobs[ch].rule.id
            BY <1>3, <2>1, <2>3 DEF Reached, NoteId
        <3>2. Past(n)' /\ ~Busy(n) /\ ~Busy(n)' /\ ~Died(n) /\ Known(n)'
            BY <1>1, <1>2, <1>4, <2>1, <2>3, <3>1
            DEF Reached, Past, Busy, Died, Known, SameRule
        <3>3. Told(n, audience[n]) => Told(n, audience[n])'
            BY <1>4, <1>7 DEF Told
        <3> QED
            BY <1>4, <1>7, <2>1, <2>2, <3>2, <3>3 DEF Reached
    <2>4. CASE n[2] # ch
        BY <1>2, <1>4, <1>7, <2>1, <2>2, <2>4, ReachedElsewhere
    <2> QED
        BY <2>3, <2>4
<1>10. \A x \in DOMAIN jobs' : jobs'[x].at = "notify" => Note(x)' \in DOMAIN audience'
    <2>1. \A x \in DOMAIN jobs : Note(x)' = Note(x)
        BY <1>1, <1>2 DEF Note, SameRule
    <2> QED
        BY <1>2, <1>3, <1>4, <1>5, <2>1 DEF InboxInv
<1> QED
    BY <1>4, <1>5, <1>7, <1>8, <1>9, <1>10 DEF InboxInv

LEMMA CrashInbox == ASSUME AlertsType, InboxInv, Crash PROVE InboxInv'
<1>1. /\ DOMAIN jobs' = DOMAIN jobs
      /\ \A ch \in DOMAIN jobs :
            /\ jobs'[ch] = jobs[ch] \/ jobs'[ch].at = "dead"
            /\ SameRule(ch)
    BY CrashMoves
<1>2. /\ UNCHANGED <<users, held, notes, inbox, audience, failed>>
      /\ cut' = cut \cup {ch \in DOMAIN jobs : jobs[ch].at # "done"}
    BY DEF Crash, tableVars
<1>3. ASSUME NEW n \in NoteId PROVE n \in cut' <=> n \in cut
    BY <1>2, AlertTrafficAssumption DEF AlertsType
<1>4. ASSUME NEW n \in DOMAIN audience PROVE Reached(n)'
    <2>1. Reached(n)
        BY DEF InboxInv
    <2>2. n \in NoteId /\ n[2] \in DOMAIN jobs
        BY <2>1 DEF Reached, Past
    <2>3. Past(n)' /\ Known(n)' /\ (Busy(n)' => jobs'[n[2]] = jobs[n[2]] /\ Busy(n))
        BY <1>1, <1>2, <2>1 DEF Reached, Past, Known, Busy, SameRule
    <2>4. Busy(n) \/ Died(n) => Busy(n)' \/ Died(n)'
        BY <1>1, <2>2 DEF Busy, Died, SameRule
    <2>5. Told(n, audience[n]) => Told(n, audience[n])'
        BY <1>2 DEF Told
    <2>6. jobs'[n[2]] = jobs[n[2]] =>
             (Told(n, audience[n] \ jobs[n[2]].users)
                => Told(n, audience[n] \ jobs[n[2]].users)')
        BY <1>2 DEF Told
    <2>7. n \in cut' <=> n \in cut
        BY <1>3, <2>2
    <2>8. n \notin cut' /\ n \in DOMAIN notes' /\ ~Busy(n)' =>
             Died(n)' \/ n \in failed' \/ Told(n, audience[n])'
        BY <1>2, <2>1, <2>4, <2>5, <2>7 DEF Reached
    <2>9. Busy(n)' =>
             /\ n \notin cut'
             /\ jobs'[n[2]].users \subseteq audience'[n]
             /\ n \in DOMAIN notes' => Told(n, audience[n] \ jobs[n[2]].users)'
        BY <1>2, <2>1, <2>3, <2>6, <2>7 DEF Reached
    <2> QED
        BY <1>2, <2>1, <2>2, <2>3, <2>7, <2>8, <2>9 DEF Reached
<1>5. \A ch \in DOMAIN jobs' : jobs'[ch].at = "notify" => Note(ch)' \in DOMAIN audience'
    BY <1>1, <1>2 DEF InboxInv, Note, SameRule
<1>6. cut' \cap NoteId \subseteq DOMAIN audience'
    BY <1>2, <1>3 DEF InboxInv
<1> QED
    BY <1>2, <1>4, <1>5, <1>6 DEF InboxInv

LEMMA JobStepsInbox ==
    ASSUME AccountsInv, AlertsType, OnceEach, InboxInv, NEW ch \in DOMAIN jobs,
           JobStep(ch)
    PROVE  InboxInv'
<1>1. CASE MatchRules(ch) \/ MatchFails(ch)
    BY <1>1, MatchInbox
<1>2. CASE \E e \in jobs[ch].todo : NextRule(ch, e) \/ NextRuleFails(ch, e)
    BY <1>2, NextInbox
<1>3. CASE AllRulesDone(ch)
    BY <1>3, DoneMoves, InboxMoves
    DEF AllRulesDone, accountVars, tableVars, historyVars
<1>4. CASE ListUsers(ch)
    BY <1>4, ListInbox
<1>4a. CASE ListUsersFails(ch)
    <2>1. /\ UNCHANGED <<users, held, notes, inbox, audience, cut>>
          /\ failed \subseteq failed'
        BY <1>4a DEF ListUsersFails, accountVars, tableVars
    <2>2. SameRule(ch) /\ \E to \in {"webhook", "next"} : Moves(ch, "users", to)
        BY <1>4a, FailingMoves
    <2> QED
        BY <2>1, <2>2, InboxMoves
<1>5. CASE \/ \E u \in User : NotifyUser(ch, u) \/ NotifyUserFails(ch, u)
           \/ AllUsersNotified(ch)
    BY <1>5, NotifyInbox
<1>6. ASSUME \/ NoWebhook(ch) \/ Taken(ch) \/ KnownDuplicate(ch) \/ TakenUnanswered(ch)
             \/ Unreached(ch) \/ Refused(ch) \/ UrlRefused(ch)
      PROVE  InboxInv'
    <2>1. SameRule(ch) /\ UNCHANGED <<users, held, notes, inbox, audience, cut, failed>>
        BY <1>6, WebhookMoves DEF accountVars, tableVars
    <2>2. \E to \in {"next", "sent", "webhook", "failed"} : Moves(ch, "webhook", to)
        BY <1>6, WebhookMoves
    <2> QED
        BY <2>1, <2>2, InboxMoves
<1>7. CASE RecordStatus(ch) \/ RecordStatusFails(ch)
    <2>1. UNCHANGED <<users, held, audience, cut, failed, inbox>>
        BY <1>7 DEF RecordStatus, RecordStatusFails, accountVars, tableVars, historyVars
    <2>2. /\ SameRule(ch) /\ DOMAIN notes' = DOMAIN notes
          /\ \E from \in {"sent", "failed"} : Moves(ch, from, "next")
        BY <1>7, RecordMoves, FailingMoves DEF RecordStatusFails, tableVars
    <2> QED
        BY <2>1, <2>2, InboxMoves
<1> QED
    BY <1>1, <1>2, <1>3, <1>4, <1>4a, <1>5, <1>6, <1>7 DEF JobStep

\* When the goroutine is through with a notification its rule wants in the
\* inboxes, the users have been listed and every one that still is there has
\* it, unless the process died meanwhile, a user was deleted before its turn
\* came, or a statement failed for this very notification.
THEOREM InboxesComplete == Spec => []InboxComplete
<1>1. Init => InboxInv
    BY DEF Init, AlertsInit, InboxInv, Empty
<1>2. AccountsInv /\ AlertsType /\ OnceEach /\ InboxInv /\ [Next]_vars => InboxInv'
    <2> SUFFICES ASSUME AccountsInv, AlertsType, OnceEach, InboxInv, [Next]_vars
                 PROVE  InboxInv'
        OBVIOUS
    <2>1. CASE RuleStep
        <3>1. UsersFlow
            BY <2>1, RuleStepEffect DEF UsersFlow
        <3>2. ASSUME NEW n \in DOMAIN notes', NEW u, n \in NoteId,
                     Mark(u, n) \in DOMAIN inbox
              PROVE  Mark(u, n) \in DOMAIN inbox'
            <4> DEFINE x == Mark(u, n)
            <4>1. <<x[2], x[3]>> = n
                BY <3>2 DEF Mark, NoteId
            <4> HIDE DEF x
            <4>2. x \in DOMAIN inbox => x \in DOMAIN inbox'
                BY <2>1, <4>1, RuleStepEffect
            <4> QED
                BY <3>2, <4>2 DEF x
        <3>3. CASE UNCHANGED jobs
            BY <2>1, <3>1, <3>2, <3>3, RuleStepEffect, InboxKept
        <3>4. ASSUME NEW ch \in Change \ DOMAIN jobs, NEW change \in ChangeRow,
                     jobs' = Put(jobs, ch, Job(change))
              PROVE  InboxInv'
            <4>1. /\ DOMAIN jobs' = DOMAIN jobs \cup {ch}
                  /\ jobs'[ch].at = "match"
                  /\ \A x \in DOMAIN jobs : jobs'[x] = jobs[x]
                BY <3>4 DEF Put, Job
            <4> QED
                BY <2>1, <3>1, <3>2, <4>1, RuleStepEffect, InboxKept
        <3> QED
            BY <2>1, <3>3, <3>4, RuleStepEffect
    <2>2. ASSUME NEW ch \in DOMAIN jobs, JobStep(ch) PROVE InboxInv'
        BY <2>2, JobStepsInbox
    <2>3. CASE Crash
        BY <2>3, CrashInbox
    <2>4. ASSUME NEW u \in User, NEW marks, MarkRead(u, marks) PROVE InboxInv'
        <3>1. UsersFlow
            BY <2>4 DEF MarkRead, UsersFlow
        <3> QED
            BY <2>4, <3>1, InboxKept DEF MarkRead, historyVars
    <2>5. CASE OtherStep
        BY <2>5, InboxKept DEF OtherStep, historyVars, Keep, Restrict, Mark
    <2> QED
        BY <2>1, <2>2, <2>3, <2>4, <2>5, AlertsSteps
<1>3. AlertsType /\ OfferInv /\ InboxInv => InboxComplete
    <2> SUFFICES ASSUME AlertsType, OfferInv, InboxInv,
                        NEW ch \in DOMAIN matched, NEW e \in matched[ch],
                        NEW n, n = <<e.id, ch>>, n \in DOMAIN notes, e.row.inApp
                 PROVE  \/ /\ jobs[ch].at \in {"users", "notify", "dead"}
                           /\ jobs[ch].rule.id = e.id
                        \/ n \in failed
                        \/ /\ n \in DOMAIN audience
                           /\ IF n \in cut THEN ~(audience[n] \subseteq DOMAIN users)
                              ELSE Told(n, audience[n])
        BY DEF InboxComplete, Told
    <2>1. Offered(e, ch)
        BY DEF OfferInv
    <2>2. n \in DOMAIN audience => Reached(n)
        BY DEF InboxInv
    <2> QED
        BY <2>1, <2>2 DEF Offered, Reached, Busy, Died
<1> QED
    BY <1>1, <1>2, <1>3, AccountsInductive, AlertsTyped, OnceInductive, OfferInductive,
       PTL DEF Spec
=============================================================================
