---------------------------- MODULE MCAlertsSystem ----------------------------
(***************************************************************************)
(* A small instance of AlertsSystem for TLC.                               *)
(***************************************************************************)
EXTENDS AlertsSystem

CONSTANTS s1, s2, o1, o2, u1, u2, ann, bob

MCSourceOf == (o1 :> s1) @@ (o2 :> s2)

Rule(source, object, webhook, inApp, active) ==
    [source |-> source, object |-> object, types |-> {"all"}, webhook |-> webhook,
     inApp |-> inApp, active |-> active]

Current == [has |-> Artifact, cascades |-> {}, versions |-> <<>>, notes |-> <<>>,
            marks |-> {}]

Load(kinds, people, from, rows, requests) ==
    [kinds |-> kinds, users |-> people, sources |-> from, rows |-> rows,
     requests |-> requests, db |-> "sqlite", file |-> FALSE, idle |-> TRUE,
     disk |-> Current]

Nobody == [u \in {} |-> None]
Ann    == u1 :> [name |-> ann, role |-> "admin"]
Both   == Ann @@ (u2 :> [name |-> bob, role |-> "user"])

Everything == Rule(None, None, TRUE, TRUE, TRUE)
OnlyApp    == [Rule(s1, None, FALSE, TRUE, TRUE) EXCEPT
                 !.types = {"add_column"}]
OnlyHook   == Rule(None, o1, TRUE, FALSE, TRUE)

\* Loads in which processes start.  One rule was told of one change twice.
Notification(about, created) == [about |-> about, created |-> created]

Once  == <<Notification(1, 2), Notification(2, 2)>>
Twice == <<Notification(1, 2), Notification(1, 1), Notification(2, 2),
           Notification(2, 2)>>

Start(db, file, idle, has, cascades, versions, told) ==
    [Load({"start", "restart"}, Nobody, {}, {}, 1) EXCEPT
       !.db = db, !.file = file, !.idle = idle,
       !.disk = [Current EXCEPT !.has = has, !.cascades = cascades,
                              !.versions = versions, !.notes = told,
                              !.marks = {u1} \X DOMAIN told]]

Referenced == {"schema_changes", "alert_rules"}

Starts ==
    {Start("sqlite", file, TRUE, {}, {}, <<>>, <<>>) : file \in BOOLEAN}
      \cup {Start("sqlite", file, idle, {"tables"}, Referenced, <<>>, told) :
               file \in BOOLEAN, idle \in BOOLEAN, told \in {Once, Twice}}
      \cup {Start("postgres", FALSE, TRUE, {}, {}, <<>>, <<>>),
            Start("postgres", FALSE, TRUE, {"tables", "term fields"}, {},
                  <<"001", "002">>, Twice)}

\* Which requests meet in one behaviour, from which state, and how many.
MCTraffic == Starts \cup {
    Load({"web"}, Nobody, {}, {}, 0),
    Load({"token", "account"}, Both, {}, {}, 4),
    Load({"token", "account"}, Ann, {}, {}, 4),
    Load({"token", "account", "rule", "change"}, Both, {s1}, {Everything}, 4),
    Load({"rule", "change", "source"}, Ann, {s1},
         {Everything, OnlyApp, OnlyHook}, 4),
    Load({"rule", "change", "crash", "read"}, Both, {s1}, {Everything}, 4),
    Load({"rule", "change", "dberror"}, Both, {s1}, {Everything, OnlyApp}, 3),
    Load({"token", "account", "rule", "change", "dberror"}, Both, {s1}, {OnlyApp}, 4),
    Load({"rule", "change", "source", "crash", "dberror"}, Both, {s1}, {OnlyApp}, 4),
    Load({"rule"}, Nobody, {s1, s2},
         {Rule(s, o, TRUE, TRUE, TRUE) : s \in {None, s1, s2},
                                         o \in {None, o1, o2}}, 3) }

Symmetric == Permutations(Client) \cup Permutations(Process)
               \cup Permutations(Request) \cup Permutations(AlertRule)
=============================================================================
