----------------------------- MODULE AlertsSystem -----------------------------
(***************************************************************************)
(* How the processes start (StartUp), users and their tokens (Accounts),   *)
(* the alerts they are sent (Alerts) and the browser session they work in  *)
(* (WebSession).                                                           *)
(***************************************************************************)
EXTENDS Alerts, WebSession, StartUp

vars == <<accountVars, alertVars, webVars, disk>>

Init == AccountsInit /\ AlertsInit /\ WebInit /\ StartUpInit

Next ==
    \/ AccountsNext /\ AlertsFollow /\ UNCHANGED <<webVars, disk>>
    \/ AlertsNext /\ UNCHANGED <<webVars, disk>>
    \/ "web" \in mix.kinds /\ WebNext /\ UNCHANGED <<accountVars, alertVars, disk>>
    \/ StartUpNext /\ UNCHANGED <<alertVars, webVars>>

Spec == Init /\ [][Next]_vars

\* A process with the migrations behind it.
Serving == {"list", "check", "insert", "up"}

(***************************************************************************)
(* Properties.                                                             *)
(***************************************************************************)
\* User names are unique however many processes and administrators register
\* users at once, and no rule, notification or unread mark outlives what it
\* refers to.
PeopleIntegrity ==
    /\ \A u, v \in DOMAIN users : users[u].name = users[v].name => u = v
    /\ \A r \in DOMAIN rules : rules[r].source \in sources \cup {None}
    /\ DOMAIN notes \subseteq (DOMAIN rules) \X (DOMAIN changes)
    /\ \A x \in DOMAIN inbox :
          x[1] \in DOMAIN users /\ <<x[2], x[3]>> \in DOMAIN notes

\* Nobody acts in a role longer than an access token lives (and a request
\* lasts) after losing it, although no request looks the user up.
RightsExpire ==
    \A tok \in tokens : Authenticated(tok) =>
        \/ tok.user \in DOMAIN users /\ users[tok.user].role = tok.role
        \/ \E h \in held : /\ h.user = tok.user /\ h.role = tok.role
                           /\ clock < h.at + AccessTTL + 1

\* A rule with a source and an object never pairs an object with a source it
\* does not belong to, which no change would match, unless two updates of the
\* rule overlapped.
ScopeAgrees ==
    \A r \in DOMAIN rules \ torn :
        rules[r].source # None /\ rules[r].object # None =>
            SourceOf[rules[r].object] = rules[r].source

\* When a goroutine is done, every rule that matched its change has its
\* notification, whatever happened to the other rules, unless the rule or the
\* change is gone, or a statement failed for this very rule or for the search
\* of the rules.
EveryMatchNotified ==
    \A ch \in DOMAIN jobs : jobs[ch].at = "done" =>
        \A e \in matched[ch] : \/ <<e.id, ch>> \in DOMAIN notes
                               \/ e.id \notin DOMAIN rules
                               \/ ch \notin DOMAIN changes
                               \/ {ch, <<e.id, ch>>} \cap failed # {}

\* The notification of a rule that wants it has reached every user there was
\* and still is, unless its goroutine is in the middle of it or died there, a
\* user was deleted before its turn came, or a statement failed for this very
\* notification.
InboxComplete ==
    \A ch \in DOMAIN matched : \A e \in matched[ch] :
        LET n == <<e.id, ch>>
        IN  n \in DOMAIN notes /\ e.row.inApp =>
               \/ /\ jobs[ch].at \in {"users", "notify", "dead"}
                  /\ jobs[ch].rule.id = e.id
               \/ n \in failed
               \/ /\ n \in DOMAIN audience
                  /\ IF n \in cut THEN ~(audience[n] \subseteq DOMAIN users)
                     ELSE \A u \in audience[n] \cap DOMAIN users :
                             Mark(u, n) \in DOMAIN inbox

\* A notification is marked as sent only when the receiver took it, and the
\* receiver is given it twice only when its answer was lost.
WebhookAccount ==
    /\ \A n \in DOMAIN notes : notes[n].sent => sentTo[n] > 0
    /\ \A n \in NoteId : sentTo[n] <= unanswered[n] + 1

\* After a logout the browser has no session, neither in memory nor in
\* localStorage, until the next login; unless a refresh or the start of the
\* page was under way, which stores its session over the logout.
SessionEndsAtLogout == out => memory = NoToken /\ stored = NoToken

\* A process that serves finds every migration applied, each of them once,
\* whichever processes started beside it or died half-way, but for
\* sync_schedules when the schema comes from the file; and of every rule and
\* change the oldest notification is still there with its unread marks, unless
\* the pool keeps no idle connection.  Only duplicates met by the built-in
\* schema, or a migration another process has just applied, keep a process
\* from starting.
StartsMigrated ==
    /\ \A p \in Process : starting[p] \in Serving => CompleteBut(NotBrought, disk)
    /\ IsInjective(disk.versions)
    /\ \A p \in Process : starting[p] = "failed" =>
          \/ mix.db = "sqlite" /\ ~mix.file /\ DuplicatesIn(mix.disk) # {}
          \/ mix.db = "postgres" /\ disk.versions # mix.disk.versions
    /\ mix.idle => \A n \in DOMAIN mix.disk.notes \ DuplicatesIn(mix.disk) :
          /\ n \in DOMAIN disk.notes
          /\ {m \in mix.disk.marks : m[2] = n} \subseteq disk.marks
=============================================================================
