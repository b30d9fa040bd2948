------------------------------- MODULE Quality -------------------------------
(***************************************************************************)
(* Data quality rules and their execution: DQService                       *)
(* (internal/service/dq.go and dq_executor.go).                            *)
(*                                                                         *)
(* A check loads its rules once and then works through the list: it reads  *)
(* what the rule is about, counts all rows and then the failing rows of    *)
(* the table in the source's own database, stores the result, reads it     *)
(* back and starts a goroutine that publishes a failure.  Meanwhile rules, *)
(* columns and sources change, and so does the table.                      *)
(***************************************************************************)
EXTENDS Catalog, SequencesExt

CONSTANT CheckLists    \* the rule_ids a check may be asked for

\* Rule types by what they need; not_null stands for unique too, range for
\* enum and referential.
RuleKinds == {"not_null", "regex", "range", "custom_sql"}

ASSUME QualityAssumption ==
    /\ RuleKind = RuleKinds
    /\ CheckLists \subseteq Seq(Rule)
    /\ None \notin ResultRow

VARIABLES
    table,      \* the table in the source's database: all and failing rows
    checked,    \* history: the rules of each check, once it has answered
    shaken,     \* history: the results whose table changed between the counts
    publishing, \* results whose failure a goroutine is about to publish
    events,     \* dq.rule.failed events handed to the outbox
    lost        \* history: results whose goroutine died or whose check was
                \*          cut short before it was started

qualityVars == <<table, checked, shaken, publishing, events, lost>>
restVars    == <<mix, saves, lastScan, mirror, doomed, torn>>

Tables == {t \in [rows : 0 .. MaxRows, bad : 0 .. MaxRows] : t.bad <= t.rows}

QualityInit ==
    /\ table \in {t \in Tables : t.rows = MaxRows}
    /\ checked = [b \in {} |-> <<>>]
    /\ shaken = {} /\ publishing = {} /\ events = {} /\ lost = {}

(***************************************************************************)
(* Rules.  A row's config is written down as the type it was validated     *)
(* for.                                                                    *)
(***************************************************************************)
\* What a rule is about: a column, an object or a whole source.  Nothing
\* checks that the three agree when several are given.
Scopes(d) ==
    {[source |-> None, object |-> None, column |-> c] : c \in DOMAIN d.columns}
      \cup {[source |-> None, object |-> o, column |-> None] : o \in DOMAIN d.objects}
      \cup {[source |-> s, object |-> None, column |-> None] : s \in DOMAIN d.sources}

\* validateRuleConfig: what a type needs is in the config.  A config is known
\* by the type it was made for; not_null and unique need nothing, and never
\* read theirs.
validateRuleConfig(kind, config) == kind = "not_null" \/ config = kind

CreateRule(r, scope, kind) ==
    /\ Serve("rule")
    /\ r \notin spent
    /\ spent' = spent \cup {r}
    /\ db' = CreateDQRule(db, r,
                [source |-> scope.source, object |-> scope.object,
                 column |-> scope.column, kind |-> kind, config |-> kind,
                 active |-> TRUE])
    /\ UNCHANGED <<req, restVars, qualityVars>>

\* UpdateRule validates the config against the type in the request, and
\* stores the config but not the type.
UpdateRule(r, kind, config, active) ==
    /\ Serve("rule")
    /\ r \in DOMAIN db.rules
    /\ validateRuleConfig(kind, config)
    /\ db' = UpdateDQRule(db, r, config, active)
    /\ UNCHANGED <<req, spent, restVars, qualityVars>>

DeleteRule(r) ==
    /\ Serve("rule")
    /\ r \in DOMAIN db.rules
    /\ db' = CascadeRules(db, {r})
    /\ UNCHANGED <<req, spent, restVars, qualityVars>>

(***************************************************************************)
(* Execution.                                                              *)
(***************************************************************************)
Rows(d, rules) ==
    [i \in DOMAIN rules |->
        LET row == d.rules[rules[i]]
        IN  [id |-> rules[i], source |-> row.source, object |-> row.object,
             column |-> row.column, kind |-> row.kind, config |-> row.config]]

\* CheckRules with check_all.
ActiveRules(d) == SetToSeq({r \in DOMAIN d.rules : d.rules[r].active})

StartCheck(c, b, rules) ==
    /\ Accept("check", c)
    /\ b \notin spent
    /\ spent' = spent \cup {b}
    /\ req' = [req EXCEPT ![c] = [op |-> "check", batch |-> b, no |-> 1,
                                  todo |-> Rows(db, rules), total |-> None,
                                  stored |-> None]]
    /\ UNCHANGED <<db, restVars, qualityVars>>

CheckAll(c, b) == StartCheck(c, b, ActiveRules(db))

\* CheckRules with rule_ids, and CheckRule: the ids may repeat, and a rule
\* that does not exist ends the request.
CheckGiven(c, b, rules) ==
    ToSet(rules) \subseteq DOMAIN db.rules /\ StartCheck(c, b, rules)

Busy(c) ==
    /\ req[c].op = "check" /\ req[c].stored = None
    /\ req[c].no <= Len(req[c].todo)

Current(c) == req[c].todo[req[c].no]

\* prepareExecutionContext: the column, its object and the source are read
\* now; a rule that is not custom_sql needs an object.
ContextFound(d, rule) ==
    LET object == IF rule.column # None THEN rule.column.object ELSE rule.object
        source == IF object # None THEN object.source ELSE rule.source
    IN  /\ rule.column \in DOMAIN d.columns \cup {None}
        /\ object \in DOMAIN d.objects \cup {None}
        /\ object = None => rule.kind = "custom_sql"
        /\ source \in DOMAIN d.sources

\* buildRuleQueries: what the rule type needs of its column and config.
QueriesBuilt(rule) ==
    /\ rule.kind # "custom_sql" => rule.column # None
    /\ rule.kind \in {"range", "custom_sql"} => rule.config = rule.kind

\* buildRegexCondition: without a pattern no row fails on Postgres.
RegexFinds(config, t) == IF config = "regex" THEN t.bad ELSE 0

\* The failing rows a rule counts.  A custom_sql counts the rows of its own
\* query.
FailingRows(rule, t) ==
    CASE rule.kind = "custom_sql" -> 0 .. MaxRows
      [] rule.kind = "regex"      -> {RegexFinds(rule.config, t)}
      [] OTHER                    -> {t.bad}

CountAll(c) ==
    /\ Busy(c)
    /\ req[c].total = None
    /\ ContextFound(db, Current(c)) /\ QueriesBuilt(Current(c))
    /\ req' = [req EXCEPT ![c].total = table]
    /\ UNCHANGED <<db, sent, spent, restVars, qualityVars>>

\* CreateDQResult.  A rule deleted meanwhile fails the INSERT and ends the
\* check; the results before it stay.
Store(c, status, total, bad) ==
    LET rule == Current(c)
        row == [rule |-> rule.id, column |-> rule.column, batch |-> req[c].batch,
                no |-> req[c].no, status |-> status, total |-> total,
                failed |-> bad]
    IN  IF /\ rule.id \in DOMAIN db.rules
           /\ rule.column \in DOMAIN db.columns \cup {None}
        THEN /\ db' = CreateDQResult(db, row)
             /\ req' = [req EXCEPT ![c].stored = row]
        ELSE Finish(c) /\ UNCHANGED db

\* The result of a rule that cannot be executed.
CheckFails(c) ==
    /\ Busy(c)
    /\ Store(c, "error", 0, 0)
    /\ UNCHANGED <<sent, spent, restVars, qualityVars>>

StatusOf(total, bad) == IF bad > 0 THEN "failed" ELSE "passed"

\* custom_sql without a table counts its failures twice.
CountFailing(c) ==
    /\ Busy(c)
    /\ req[c].total # None
    /\ LET rule == Current(c)
           whole == rule.column # None \/ rule.object # None
       IN  \E bad \in FailingRows(rule, table),
              n \in IF whole THEN {req[c].total.rows} ELSE 0 .. MaxRows :
             /\ ~whole /\ table = req[c].total => n = bad
             /\ Store(c, StatusOf(n, bad), n, bad)
             /\ shaken' = IF /\ req[c].total = table
                             /\ ~(rule.kind = "custom_sql" /\ whole)
                          THEN shaken
                          ELSE shaken \cup {<<req[c].batch, req[c].no>>}
    /\ UNCHANGED <<sent, spent, restVars, table, checked, publishing, events,
                   lost>>

\* The result is read back by batch and rule: of two results of one rule in
\* a check, stored within a second, either may be the one.
ResultsOf(c) ==
    {x \in db.results : x.batch = req[c].batch /\ x.rule = req[c].stored.rule}

\* Mutant of ReadBack: only "failed" is announced, "error" is not.
ReadBackFailed(c) ==
    /\ req[c].op = "check" /\ req[c].stored # None
    /\ \E x \in ResultsOf(c) :
          /\ publishing' = IF x.status # "failed" THEN publishing
                           ELSE publishing \cup {x}
          /\ req' = [req EXCEPT ![c].no = @ + 1, ![c].total = None,
                                ![c].stored = None]
    /\ UNCHANGED <<db, sent, spent, restVars, table, checked, shaken, events,
                   lost>>

ReadBack(c) ==
    /\ req[c].op = "check" /\ req[c].stored # None
    /\ \E x \in ResultsOf(c) :
          /\ publishing' = IF x.status = "passed" THEN publishing
                           ELSE publishing \cup {x}
          /\ req' = [req EXCEPT ![c].no = @ + 1, ![c].total = None,
                                ![c].stored = None]
    /\ UNCHANGED <<db, sent, spent, restVars, table, checked, shaken, events,
                   lost>>

\* Mutant of CheckAnswers: the loop ends one rule early.
CheckAnswersEarly(c) ==
    /\ req[c].op = "check" /\ req[c].no >= Len(req[c].todo)
    /\ checked' = Put(checked, req[c].batch,
                      [i \in DOMAIN req[c].todo |-> req[c].todo[i].id])
    /\ Finish(c)
    /\ UNCHANGED <<db, sent, spent, restVars, table, shaken, publishing,
                   events, lost>>

CheckAnswers(c) ==
    /\ req[c].op = "check" /\ req[c].no > Len(req[c].todo)
    /\ checked' = Put(checked, req[c].batch,
                      [i \in DOMAIN req[c].todo |-> req[c].todo[i].id])
    /\ Finish(c)
    /\ UNCHANGED <<db, sent, spent, restVars, table, shaken, publishing,
                   events, lost>>

\* publishDQFailureEvent: the event is named after the result.
PublishFailure(x) ==
    /\ x \in publishing
    /\ publishing' = publishing \ {x}
    /\ events' = events \cup {x}
    /\ UNCHANGED <<db, req, sent, spent, restVars, table, checked, shaken, lost>>

\* The process dies, or the outbox refuses the event.
LoseFailure(x) ==
    /\ x \in publishing
    /\ publishing' = publishing \ {x}
    /\ lost' = lost \cup {x}
    /\ UNCHANGED <<db, req, sent, spent, restVars, table, checked, shaken,
                   events>>

\* A check that is cut short before it has read its result back.
QualityAbort(c) ==
    /\ lost' = IF req[c].op = "check" THEN lost \cup ({req[c].stored} \ {None})
               ELSE lost
    /\ UNCHANGED <<table, checked, shaken, publishing, events>>

\* Somebody writes to the table.
TableChanges(t) ==
    /\ Serve("check")
    /\ t # table
    /\ table' = t
    /\ UNCHANGED <<db, req, spent, restVars, checked, shaken, publishing, events,
                   lost>>

QualityNext ==
    \/ \E r \in Rule, scope \in Scopes(db), kind \in RuleKinds :
          CreateRule(r, scope, kind)
    \/ \E r \in Rule, kind \in RuleKinds, config \in RuleKinds \cup {None},
          active \in BOOLEAN \cup {None} : UpdateRule(r, kind, config, active)
    \/ \E r \in Rule : DeleteRule(r)
    \/ \E c \in Client :
          \/ \E b \in Batch :
                \/ CheckAll(c, b)
                \/ \E rules \in CheckLists : CheckGiven(c, b, rules)
          \/ CountAll(c)
          \/ CheckFails(c)
          \/ CountFailing(c)
          \/ ReadBack(c)
          \/ CheckAnswers(c)
    \/ \E x \in publishing : PublishFailure(x) \/ LoseFailure(x)
    \/ \E t \in Tables : TableChanges(t)
=============================================================================
