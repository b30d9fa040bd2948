-------------------------------- MODULE Alerts --------------------------------
(***************************************************************************)
(* Alert rules, notifications and webhooks: AlertService and               *)
(* NotificationService (internal/service/alert.go) and their tables        *)
(* (internal/store/sqlite_alert.go).                                       *)
(*                                                                         *)
(* When a scan has been saved, one goroutine per recorded change looks for *)
(* the rules that match, and for each rule inserts a notification, then an *)
(* unread mark for every user, one statement each, and then calls the      *)
(* rule's webhook, up to three times.  Any of these statements may fail, a *)
(* busy or lost database is enough; an action whose name ends in Fails is  *)
(* the failing half of the action above it.  Nothing runs the goroutine    *)
(* again: what a crash or an error cuts short stays undone.  Users, rules, *)
(* objects and sources come and go meanwhile.                              *)
(***************************************************************************)
EXTENDS Accounts

CONSTANTS
    Source, Object,  \* identifiers of data sources and schema objects
    SourceOf,        \* the source an object belongs to
    AlertRule,       \* identifiers of alert rules
    Change,          \* identifiers of schema changes
    MaxAttempts      \* calls of a webhook: 3 in the code

ASSUME AlertsAssumption ==
    /\ SourceOf \in [Object -> Source]
    /\ MaxAttempts \in Nat \ {0}
    /\ None \notin Source /\ None \notin Object /\ None \notin AlertRule

VARIABLES
    sources, objects,  \* which data sources and schema objects exist
    rules,             \* alert_rules
    changes,           \* schema_changes
    notes,             \* notifications, known by rule and change
    inbox,             \* user_notifications: whether it has been read
    jobs,              \* the goroutines of ProcessSchemaChange
    sentTo,            \* history: how often a receiver took a webhook ...
    unanswered,        \* ... and how often it did so and the answer was lost
    matched,           \* history: the rules each goroutine had to find
    audience,          \* history: the users each notification was meant for
    cut,               \* history: notifications whose loop over the users
                       \*          met a deleted user, and changes whose
                       \*          goroutine died
    failed,            \* history: notifications, and changes, whose handling
                       \*          a failing statement ended
    torn               \* history: rules two updates of which overlapped

tableVars   == <<sources, objects, rules, changes, notes, inbox>>
historyVars == <<sentTo, unanswered, matched, audience, cut, failed, torn>>
alertVars   == <<tableVars, jobs, historyVars>>

Kind == {"add_column", "drop_object"}

\* change_types is a list or "all": the set of the types it stands for.
RuleRow   == [source: Source \cup {None}, object: Object \cup {None},
              types: SUBSET Kind, webhook: BOOLEAN, inApp: BOOLEAN,
              active: BOOLEAN]
ChangeRow == [source: Source, object: Object, kind: Kind]
NoteId    == AlertRule \X Change
NoteRow   == [sent: BOOLEAN, error: BOOLEAN]

\* The body of a request that creates or updates a rule.
RuleForm == [source: Source \cup {None}, object: Object \cup {None},
             types: SUBSET (Kind \cup {"all"}), webhook: BOOLEAN, inApp: BOOLEAN,
             active: BOOLEAN]

ASSUME AlertTrafficAssumption ==
    /\ NoteId \cap Change = {}
    /\ \A load \in Traffic : load.sources \subseteq Source /\ load.rows \subseteq RuleForm

Empty == [x \in {} |-> None]

AlertsInit ==
    /\ sources = mix.sources
    /\ objects = {o \in Object : SourceOf[o] \in mix.sources}
    /\ rules = Empty /\ changes = Empty /\ notes = Empty /\ inbox = Empty
    /\ jobs = Empty
    /\ sentTo = [n \in NoteId |-> 0] /\ unanswered = [n \in NoteId |-> 0]
    /\ matched = Empty /\ audience = Empty
    /\ cut = {} /\ failed = {} /\ torn = {}

Keep(f, P) == Restrict(f, P)

\* ON CONFLICT DO NOTHING
PutNew(f, x, v) == IF x \in DOMAIN f THEN f ELSE Put(f, x, v)

Given(new, old) == IF new = None THEN old ELSE new

(***************************************************************************)
(* Rules.                                                                  *)
(***************************************************************************)
\* validateAlertRuleScope, and the lookups before it.
ScopeValid(source, object) ==
    /\ source \in sources \cup {None}
    /\ object \in objects \cup {None}
    /\ source # None /\ object # None => SourceOf[object] = source

\* A list of change types with "all" in it is "all".
normalizeAlertChangeTypes(named) == IF "all" \in named THEN Kind ELSE named

Normalized(row) == [row EXCEPT !.types = normalizeAlertChangeTypes(@)]

\* INSERT INTO alert_rules
InsertAlertRule(r, row) == rules' = Put(rules, r, row)

CreateAlertRule(r, row) ==
    /\ Serve("rule")
    /\ r \notin DOMAIN rules
    /\ \A ch \in DOMAIN matched : \A e \in matched[ch] : e.id # r
    /\ row \in mix.rows /\ row.types # {}
    /\ ScopeValid(row.source, row.object)
    /\ InsertAlertRule(r, Normalized(row))
    /\ UNCHANGED <<users, tokens, clock, calls, starting, mix, held, sources,
                   objects, changes, notes, inbox, jobs, historyVars>>

\* Mutant of UpdateAlertRuleCheck: only the scope in the request is validated.
UpdateAlertRuleTrust(c, r, row) ==
    /\ Accept("rule", c)
    /\ r \in DOMAIN rules
    /\ row \in mix.rows /\ row.types # {}
    /\ ScopeValid(row.source, row.object)
    /\ calls' = [calls EXCEPT ![c] = [op |-> "rescope", rule |-> r, row |-> row,
                                      seen |-> rules[r], since |-> clock]]
    /\ UNCHANGED <<users, tokens, clock, starting, mix, held, alertVars>>

\* UpdateAlertRule validates the scope that the stored rule and the request
\* make together ...
UpdateAlertRuleCheck(c, r, row) ==
    /\ Accept("rule", c)
    /\ r \in DOMAIN rules
    /\ row \in mix.rows /\ row.types # {}
    /\ row.source \in sources \cup {None} /\ row.object \in objects \cup {None}
    /\ LET source == Given(row.source, rules[r].source)
           object == Given(row.object, rules[r].object)
       IN  source # None /\ object # None =>
              object \in objects /\ SourceOf[object] = source
    /\ calls' = [calls EXCEPT ![c] = [op |-> "rescope", rule |-> r, row |-> row,
                                      seen |-> rules[r], since |-> clock]]
    /\ UNCHANGED <<users, tokens, clock, starting, mix, held, alertVars>>

\* ... and then writes the fields of the request.  A field that is not given
\* stays, so a rule never loses its source or its object.
UpdateAlertRuleWrite(c) ==
    /\ calls[c].op = "rescope"
    /\ Finish(c)
    /\ LET r == calls[c].rule
           new == Normalized(calls[c].row)
       IN  IF r \in DOMAIN rules /\ new.source \in sources \cup {None}
           THEN /\ rules' = [rules EXCEPT ![r] =
                     [new EXCEPT !.source = Given(@, rules[r].source),
                                 !.object = Given(@, rules[r].object)]]
                /\ torn' = IF rules[r] = calls[c].seen THEN torn
                           ELSE torn \cup {r}
           ELSE UNCHANGED <<rules, torn>>
    /\ UNCHANGED <<users, tokens, clock, starting, sent, mix, held, sources,
                   objects, changes, notes, inbox, jobs, sentTo, unanswered,
                   matched, audience, cut, failed>>

\* ON DELETE CASCADE of notifications and of user_notifications.
CascadeNotes(gone) ==
    /\ notes' = Keep(notes, DOMAIN notes \ gone)
    /\ inbox' = Keep(inbox, {x \in DOMAIN inbox : <<x[2], x[3]>> \notin gone})

DeleteAlertRule(r) ==
    /\ Serve("rule")
    /\ r \in DOMAIN rules
    /\ rules' = Keep(rules, DOMAIN rules \ {r})
    /\ CascadeNotes({n \in DOMAIN notes : n[1] = r})
    /\ UNCHANGED <<users, tokens, clock, calls, starting, mix, held, sources,
                   objects, changes, jobs, historyVars>>

(***************************************************************************)
(* What happens to the sources, as far as alerts can tell.                 *)
(***************************************************************************)
Job(change) == [change |-> change, at |-> "match", todo |-> {}, rule |-> None,
                users |-> {}, tries |-> 0]

\* A scan has been saved with a change: its goroutine starts.
DetectChange(ch, o, kind) ==
    /\ Serve("change")
    /\ ch \notin DOMAIN changes /\ ch \notin DOMAIN jobs
    /\ o \in objects
    /\ LET change == [source |-> SourceOf[o], object |-> o, kind |-> kind]
       IN  /\ changes' = Put(changes, ch, change)
           /\ jobs' = Put(jobs, ch, Job(change))
    /\ objects' = IF kind = "drop_object" THEN objects \ {o} ELSE objects
    /\ UNCHANGED <<users, tokens, clock, calls, starting, mix, held, sources,
                   rules, notes, inbox, historyVars>>

\* DeleteDataSource is a series of statements outside a transaction: the
\* objects, then the changes, with their notifications ...
DeleteSourceObjects(s) ==
    /\ Serve("source")
    /\ s \in sources
    /\ objects' = {o \in objects : SourceOf[o] # s}
    /\ UNCHANGED <<users, tokens, clock, calls, starting, mix, held, sources,
                   rules, changes, notes, inbox, jobs, historyVars>>

Deleting(s) ==
    /\ "source" \in mix.kinds
    /\ s \in sources
    /\ \A o \in objects : SourceOf[o] # s

DeleteSourceChanges(s) ==
    /\ Deleting(s)
    /\ changes' = Keep(changes, {ch \in DOMAIN changes : changes[ch].source # s})
    /\ CascadeNotes({n \in DOMAIN notes : n[2] \notin DOMAIN changes'})
    /\ UNCHANGED <<accountVars, sources, objects, rules, jobs, historyVars>>

\* ... and the row, with its rules.  alert_rules.object_id has no foreign key,
\* source_id has one.
DeleteSource(s) ==
    /\ Deleting(s)
    /\ \A ch \in DOMAIN changes : changes[ch].source # s
    /\ sources' = sources \ {s}
    /\ rules' = Keep(rules, {r \in DOMAIN rules : rules[r].source # s})
    /\ CascadeNotes({n \in DOMAIN notes : n[1] \notin DOMAIN rules'})
    /\ UNCHANGED <<accountVars, objects, changes, jobs, historyVars>>

(***************************************************************************)
(* ProcessSchemaChange.                                                    *)
(***************************************************************************)
\* The loads in which statements of the goroutines may fail.
Failing == "dberror" \in mix.kinds

ListMatchingAlertRules(ch) ==
    {r \in DOMAIN rules :
        /\ rules[r].active
        /\ rules[r].source \in {None, ch.source}
        /\ ch.kind \in rules[r].types}

\* What ProcessSchemaChange skips of them.
Wanted(ch, r) ==
    /\ rules[r].object \in {None, ch.object}
    /\ rules[r].inApp \/ rules[r].webhook

At(ch, place) == ch \in DOMAIN jobs /\ jobs[ch].at = place

Goto(ch, place) == jobs' = [jobs EXCEPT ![ch].at = place]

Matches(change) ==
    {[id |-> r, row |-> rules[r]] :
        r \in {x \in ListMatchingAlertRules(change) : Wanted(change, x)}}

\* The rows of the rules are loaded here and used to the end; nothing is sent
\* when the source is gone by now.
MatchRules(ch) ==
    /\ At(ch, "match")
    /\ jobs' = IF jobs[ch].change.source \in sources
               THEN [jobs EXCEPT ![ch].at = "next",
                                 ![ch].todo = Matches(jobs[ch].change)]
               ELSE [jobs EXCEPT ![ch].at = "done"]
    /\ matched' = Put(matched, ch, Matches(jobs[ch].change))
    /\ UNCHANGED <<accountVars, tableVars, sentTo, unanswered, audience, cut,
                   failed, torn>>

\* ListMatchingAlertRules or GetDataSource fails: nobody is told of the change.
MatchFails(ch) ==
    /\ Failing
    /\ At(ch, "match")
    /\ Goto(ch, "done")
    /\ matched' = Put(matched, ch, Matches(jobs[ch].change))
    /\ failed' = failed \cup {ch}
    /\ UNCHANGED <<accountVars, tableVars, sentTo, unanswered, audience, cut, torn>>

Note(ch) == <<jobs[ch].rule.id, ch>>

Mark(u, n) == <<u, n[1], n[2]>>

\* INSERT INTO notifications, for which the rule and the change must be there.
Storable(ch, r) == r.id \in DOMAIN rules /\ ch \in DOMAIN changes

StoreNote(ch, r, place) ==
    /\ notes' = Put(notes, <<r.id, ch>>, [sent |-> FALSE, error |-> FALSE])
    /\ jobs' = [jobs EXCEPT ![ch].todo = @ \ {r}, ![ch].rule = r, ![ch].at = place]

\* The caller logs the error and goes on with the next rule.
SkipRule(ch, r) ==
    /\ jobs' = [jobs EXCEPT ![ch].todo = @ \ {r}]
    /\ UNCHANGED notes

\* Mutant of NextRule: the first rule that fails ends the loop.
NextRuleOrStop(ch, r) ==
    /\ At(ch, "next")
    /\ r \in jobs[ch].todo
    /\ IF Storable(ch, r)
       THEN StoreNote(ch, r, IF r.row.inApp THEN "users" ELSE "webhook")
       ELSE jobs' = [jobs EXCEPT ![ch].todo = {}] /\ UNCHANGED notes
    /\ UNCHANGED <<accountVars, sources, objects, rules, changes, inbox,
                   historyVars>>

\* createNotification.
NextRule(ch, r) ==
    /\ At(ch, "next")
    /\ r \in jobs[ch].todo
    /\ IF Storable(ch, r)
       THEN StoreNote(ch, r, IF r.row.inApp THEN "users" ELSE "webhook")
       ELSE SkipRule(ch, r)
    /\ UNCHANGED <<accountVars, sources, objects, rules, changes, inbox,
                   historyVars>>

\* The notification is not looked for, or not stored; or it is stored and the
\* answer lost, and then nobody lists the users, and the webhook is called
\* only if the notification can be read back.
NextRuleFails(ch, r) ==
    /\ Failing
    /\ At(ch, "next")
    /\ r \in jobs[ch].todo
    /\ \/ SkipRule(ch, r)
       \/ Storable(ch, r) /\ \E place \in {"webhook", "next"} : StoreNote(ch, r, place)
    /\ failed' = failed \cup {<<r.id, ch>>}
    /\ UNCHANGED <<accountVars, sources, objects, rules, changes, inbox, sentTo,
                   unanswered, matched, audience, cut, torn>>

AllRulesDone(ch) ==
    /\ At(ch, "next")
    /\ jobs[ch].todo = {}
    /\ Goto(ch, "done")
    /\ UNCHANGED <<accountVars, tableVars, historyVars>>

\* Where an error of CreateNotification leaves the caller, which reads the
\* notification back and calls the webhook if that succeeds.
AfterError(n) == IF n \in DOMAIN notes THEN {"webhook", "next"} ELSE {"next"}

\* SELECT id FROM users
ListUsers(ch) ==
    /\ At(ch, "users")
    /\ jobs' = [jobs EXCEPT ![ch].users = DOMAIN users, ![ch].at = "notify"]
    /\ audience' = Put(audience, Note(ch), DOMAIN users)
    /\ UNCHANGED <<accountVars, tableVars, sentTo, unanswered, matched, cut,
                   failed, torn>>

ListUsersFails(ch) ==
    /\ Failing
    /\ At(ch, "users")
    /\ \E place \in AfterError(Note(ch)) : Goto(ch, place)
    /\ failed' = failed \cup {Note(ch)}
    /\ UNCHANGED <<accountVars, tableVars, sentTo, unanswered, matched, audience,
                   cut, torn>>

\* INSERT INTO user_notifications, for which the user and the notification
\* must be there.
Markable(ch, u) == u \in DOMAIN users /\ Note(ch) \in DOMAIN notes

\* Mutant of NotifyUser: the loop ends after the first user.
NotifyFirstUser(ch, u) ==
    /\ At(ch, "notify")
    /\ u \in jobs[ch].users
    /\ Markable(ch, u)
    /\ inbox' = PutNew(inbox, Mark(u, Note(ch)), FALSE)
    /\ Goto(ch, "webhook")
    /\ UNCHANGED <<accountVars, sources, objects, rules, changes, notes,
                   historyVars>>

\* An error ends the loop: the users after it get nothing.
NotifyUser(ch, u) ==
    /\ At(ch, "notify")
    /\ u \in jobs[ch].users
    /\ IF Markable(ch, u)
       THEN /\ inbox' = PutNew(inbox, Mark(u, Note(ch)), FALSE)
            /\ jobs' = [jobs EXCEPT ![ch].users = @ \ {u}]
            /\ UNCHANGED cut
       ELSE /\ \E place \in AfterError(Note(ch)) : Goto(ch, place)
            /\ cut' = cut \cup {Note(ch)}
            /\ UNCHANGED inbox
    /\ UNCHANGED <<accountVars, sources, objects, rules, changes, notes, sentTo,
                   unanswered, matched, audience, failed, torn>>

\* The mark is not stored, or the answer is lost.
NotifyUserFails(ch, u) ==
    /\ Failing
    /\ At(ch, "notify")
    /\ u \in jobs[ch].users
    /\ \/ UNCHANGED inbox
       \/ Markable(ch, u) /\ inbox' = PutNew(inbox, Mark(u, Note(ch)), FALSE)
    /\ \E place \in AfterError(Note(ch)) : Goto(ch, place)
    /\ failed' = failed \cup {Note(ch)}
    /\ UNCHANGED <<accountVars, sources, objects, rules, changes, notes, sentTo,
                   unanswered, matched, audience, cut, torn>>

AllUsersNotified(ch) ==
    /\ At(ch, "notify")
    /\ jobs[ch].users = {}
    /\ Goto(ch, "webhook")
    /\ UNCHANGED <<accountVars, tableVars, historyVars>>

(***************************************************************************)
(* sendWebhook.                                                            *)
(***************************************************************************)
NoWebhook(ch) ==
    /\ At(ch, "webhook")
    /\ ~jobs[ch].rule.row.webhook
    /\ Goto(ch, "next")
    /\ UNCHANGED <<accountVars, tableVars, historyVars>>

Attempt(ch) ==
    /\ At(ch, "webhook")
    /\ jobs[ch].rule.row.webhook

Settle(ch, place) ==
    jobs' = [jobs EXCEPT ![ch].at = place, ![ch].tries = 0]

\* A 5xx or an error of the network is tried again, MaxAttempts in all.
Retry(ch) ==
    IF jobs[ch].tries + 1 < MaxAttempts
    THEN jobs' = [jobs EXCEPT ![ch].tries = @ + 1]
    ELSE Settle(ch, "failed")

\* 2xx; 409, the receiver's word for a duplicate, counts as success too.
Taken(ch) ==
    /\ Attempt(ch)
    /\ sentTo' = [sentTo EXCEPT ![Note(ch)] = @ + 1]
    /\ Settle(ch, "sent")
    /\ UNCHANGED <<accountVars, tableVars, unanswered, matched, audience, cut,
                   failed, torn>>

KnownDuplicate(ch) ==
    /\ Attempt(ch)
    /\ sentTo[Note(ch)] > 0
    /\ Settle(ch, "sent")
    /\ UNCHANGED <<accountVars, tableVars, historyVars>>

\* The receiver takes it and the answer is lost.
TakenUnanswered(ch) ==
    /\ Attempt(ch)
    /\ sentTo' = [sentTo EXCEPT ![Note(ch)] = @ + 1]
    /\ unanswered' = [unanswered EXCEPT ![Note(ch)] = @ + 1]
    /\ Retry(ch)
    /\ UNCHANGED <<accountVars, tableVars, matched, audience, cut, failed, torn>>

\* 5xx, or the receiver is not reached.
Unreached(ch) ==
    /\ Attempt(ch)
    /\ Retry(ch)
    /\ UNCHANGED <<accountVars, tableVars, historyVars>>

\* Mutant of Refused: a 4xx is no reason to record a failure.
RefusedQuietly(ch) ==
    /\ Attempt(ch)
    /\ Settle(ch, "sent")
    /\ UNCHANGED <<accountVars, tableVars, historyVars>>

\* validateWebhookURL: the name of the host may resolve otherwise by now.
UrlRefused(ch) ==
    /\ Attempt(ch) /\ jobs[ch].tries = 0
    /\ Settle(ch, "failed")
    /\ UNCHANGED <<accountVars, tableVars, historyVars>>

\* 4xx: no retry.
Refused(ch) ==
    /\ Attempt(ch)
    /\ Settle(ch, "failed")
    /\ UNCHANGED <<accountVars, tableVars, historyVars>>

\* UpdateNotificationWebhookStatus; the row may be gone.
RecordStatus(ch) ==
    /\ At(ch, "sent") \/ At(ch, "failed")
    /\ notes' = IF Note(ch) \notin DOMAIN notes THEN notes
                ELSE [notes EXCEPT ![Note(ch)] =
                         [sent  |-> At(ch, "sent"), error |-> At(ch, "failed")]]
    /\ Goto(ch, "next")
    /\ UNCHANGED <<accountVars, sources, objects, rules, changes, inbox,
                   historyVars>>

\* The update fails, which is only logged.
RecordStatusFails(ch) ==
    /\ Failing
    /\ At(ch, "sent") \/ At(ch, "failed")
    /\ Goto(ch, "next")
    /\ UNCHANGED <<accountVars, tableVars, historyVars>>

\* The process dies, and its goroutines with it.
Crash ==
    /\ Serve("crash")
    /\ jobs # Empty
    /\ cut' = cut \cup {ch \in DOMAIN jobs : jobs[ch].at # "done"}
    /\ jobs' = [ch \in DOMAIN jobs |->
                [jobs[ch] EXCEPT !.at = IF @ = "done" THEN @ ELSE "dead"]]
    /\ calls' = [c \in Client |-> Idle]
    /\ UNCHANGED <<users, tokens, clock, starting, mix, held, tableVars, sentTo,
                   unanswered, matched, audience, failed, torn>>

(***************************************************************************)
(* Reading.                                                                *)
(***************************************************************************)
Mine(u) == {x \in DOMAIN inbox : x[1] = u}

\* MarkAsRead, MarkManyAsRead, MarkAllAsRead: of the caller's own marks.
MarkRead(u, marks) ==
    /\ Serve("read")
    /\ marks # {} /\ marks \subseteq {x \in Mine(u) : ~inbox[x]}
    /\ inbox' = [x \in DOMAIN inbox |-> inbox[x] \/ x \in marks]
    /\ UNCHANGED <<users, tokens, clock, calls, starting, mix, held, sources,
                   objects, rules, changes, notes, jobs, historyVars>>

\* user_notifications follow the user.
AlertsFollow ==
    /\ inbox' = Keep(inbox, {x \in DOMAIN inbox : x[1] \in DOMAIN users'})
    /\ UNCHANGED <<sources, objects, rules, changes, notes, jobs, historyVars>>

AlertsNext ==
    \/ \E r \in AlertRule :
          \/ \E row \in mix.rows : CreateAlertRule(r, row)
          \/ \E c \in Client, row \in mix.rows : UpdateAlertRuleCheck(c, r, row)
          \/ DeleteAlertRule(r)
    \/ \E c \in Client : UpdateAlertRuleWrite(c)
    \/ \E ch \in Change, o \in Object, kind \in Kind : DetectChange(ch, o, kind)
    \/ \E s \in Source :
          DeleteSourceObjects(s) \/ DeleteSourceChanges(s) \/ DeleteSource(s)
    \/ \E ch \in DOMAIN jobs :
          \/ MatchRules(ch) \/ MatchFails(ch)
          \/ \E r \in jobs[ch].todo : NextRule(ch, r) \/ NextRuleFails(ch, r)
          \/ AllRulesDone(ch)
          \/ ListUsers(ch) \/ ListUsersFails(ch)
          \/ \E u \in User : NotifyUser(ch, u) \/ NotifyUserFails(ch, u)
          \/ AllUsersNotified(ch)
          \/ NoWebhook(ch)
          \/ Taken(ch) \/ KnownDuplicate(ch) \/ TakenUnanswered(ch)
          \/ Unreached(ch) \/ Refused(ch) \/ UrlRefused(ch)
          \/ RecordStatus(ch) \/ RecordStatusFails(ch)
    \/ Crash
    \/ \E u \in User, marks \in SUBSET DOMAIN inbox : MarkRead(u, marks)
=============================================================================
