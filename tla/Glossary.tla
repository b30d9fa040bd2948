------------------------------ MODULE Glossary ------------------------------
(***************************************************************************)
(* Business terms, tags and what is attached to columns: TermService       *)
(* (internal/service/term.go), TagService (tag.go), and the write tools of *)
(* the MCP server (internal/mcpserver/server.go), which record each call   *)
(* with a governance event.                                                *)
(*                                                                         *)
(* Checks and writes are separate statements: between the question whether *)
(* a tag name is free and the INSERT, and between the two statements that  *)
(* delete a term, other requests run.                                      *)
(***************************************************************************)
EXTENDS Catalog

VARIABLES
    audit,    \* mcp.governance.action events handed to the publisher
    written,  \* history: what each tool call has written
    failed    \* history: the tool calls that ended without their event

glossaryVars == <<audit, written, failed>>
schemaVars   == <<mix, saves, lastScan, mirror, doomed, torn>>

GlossaryInit == audit = {} /\ written = {} /\ failed = {}

(***************************************************************************)
(* Terms.                                                                  *)
(***************************************************************************)
NameFree(table, w) == \A id \in DOMAIN table : table[id].name # w

CreateTerm(t, w) ==
    /\ Serve("term")
    /\ t \notin spent
    /\ NameFree(db.terms, w)
    /\ spent' = spent \cup {t}
    /\ db' = CreateBusinessTerm(db, t, w)
    /\ UNCHANGED <<req, schemaVars, glossaryVars>>

\* An empty string in the request means "not given".
UpdateTerm(t, w) ==
    /\ Serve("term")
    /\ t \in DOMAIN db.terms
    /\ NameFree(Without(db.terms, {t}), w)
    /\ db' = UpdateBusinessTerm(db, t, w)
    /\ UNCHANGED <<req, spent, schemaVars, glossaryVars>>

\* DeleteBusinessTerm: UPDATE columns SET term_id = NULL ...
DeleteTermClear(c, t) ==
    /\ Accept("term", c)
    /\ t \in DOMAIN db.terms
    /\ db' = ClearTermAssociations(db, t)
    /\ req' = [req EXCEPT ![c] = [op |-> "delete_term", term |-> t]]
    /\ UNCHANGED <<spent, schemaVars, glossaryVars>>

\* ... and DELETE FROM business_terms, which the foreign key of a column
\* that was given the term meanwhile makes fail.
DeleteTermRow(c) ==
    /\ req[c].op = "delete_term"
    /\ Finish(c)
    /\ LET t == req[c].term
       IN  IF \E x \in DOMAIN db.columns : db.columns[x].term = t
           THEN UNCHANGED db
           ELSE db' = DeleteBusinessTermRow(db, t)
    /\ UNCHANGED <<sent, spent, schemaVars, glossaryVars>>

CanAssign(x, t) == x \in DOMAIN db.columns /\ t \in DOMAIN db.terms \cup {None}

AssignTerm(x, t) ==
    /\ Serve("term")
    /\ CanAssign(x, t)
    /\ db' = AssignTermToColumn(db, x, t)
    /\ UNCHANGED <<req, spent, schemaVars, glossaryVars>>

(***************************************************************************)
(* Tags.                                                                   *)
(***************************************************************************)
CreateTagCheck(c, g, w) ==
    /\ Accept("tag", c)
    /\ g \notin spent
    /\ GetTagByName(db, w) = {}
    /\ spent' = spent \cup {g}
    /\ req' = [req EXCEPT ![c] = [op |-> "create_tag", tag |-> g, name |-> w]]
    /\ UNCHANGED <<db, schemaVars, glossaryVars>>

\* Mutant of CreateTagInsert: tags.name without UNIQUE.
CreateTagTrusting(c) ==
    /\ req[c].op = "create_tag"
    /\ Finish(c)
    /\ db' = CreateTag(db, req[c].tag, req[c].name)
    /\ UNCHANGED <<sent, spent, schemaVars, glossaryVars>>

CreateTagInsert(c) ==
    /\ req[c].op = "create_tag"
    /\ Finish(c)
    /\ IF NameFree(db.tags, req[c].name)
       THEN db' = CreateTag(db, req[c].tag, req[c].name)
       ELSE UNCHANGED db
    /\ UNCHANGED <<sent, spent, schemaVars, glossaryVars>>

UpdateTagCheck(c, g, w) ==
    /\ Accept("tag", c)
    /\ g \in DOMAIN db.tags
    /\ w # db.tags[g].name => GetTagByName(db, w) = {}
    /\ req' = [req EXCEPT ![c] = [op |-> "update_tag", tag |-> g, name |-> w]]
    /\ UNCHANGED <<db, spent, schemaVars, glossaryVars>>

UpdateTagWrite(c) ==
    /\ req[c].op = "update_tag"
    /\ Finish(c)
    /\ LET g == req[c].tag
       IN  IF g \in DOMAIN db.tags /\ NameFree(Without(db.tags, {g}), req[c].name)
           THEN db' = UpdateTag(db, g, req[c].name)
           ELSE UNCHANGED db
    /\ UNCHANGED <<sent, spent, schemaVars, glossaryVars>>

DeleteTag(g) ==
    /\ Serve("tag")
    /\ g \in DOMAIN db.tags
    /\ db' = CascadeTag(db, g)
    /\ UNCHANGED <<req, spent, schemaVars, glossaryVars>>

AddTag(x, g) ==
    /\ Serve("tag")
    /\ x \in DOMAIN db.columns /\ g \in DOMAIN db.tags
    /\ db' = AddTagToColumn(db, x, g)
    /\ UNCHANGED <<req, spent, schemaVars, glossaryVars>>

RemoveTag(x, g) ==
    /\ Serve("tag")
    /\ [column |-> x, tag |-> g] \in db.columnTags
    /\ db' = RemoveTagFromColumn(db, x, g)
    /\ UNCHANGED <<req, spent, schemaVars, glossaryVars>>

(***************************************************************************)
(* MCP tools.  A call is known by its number among the requests.  It       *)
(* writes, publishes its event and answers; the error of the publication   *)
(* is ignored.                                                             *)
(***************************************************************************)
Call(call, write) == [call |-> call, write |-> write]

ToBeAudited(c, action, writes) ==
    req' = [req EXCEPT ![c] = [op |-> "audit", call |-> sent + 1,
                               action |-> action, writes |-> writes]]

McpAssignTerm(c, x, t) ==
    /\ Accept("mcp", c)
    /\ CanAssign(x, t)
    /\ db' = AssignTermToColumn(db, x, t)
    /\ written' = written \cup {Call(sent + 1, <<x, t>>)}
    /\ ToBeAudited(c, "assign_term_to_column", {<<x, t>>})
    /\ UNCHANGED <<spent, schemaVars, audit, failed>>

McpCreateMapping(c, x, y) ==
    /\ Accept("mcp", c)
    /\ {x, y} \subseteq DOMAIN db.columns
    /\ [from |-> x, to |-> y] \notin db.mappings
    /\ db' = CreateColumnMapping(db, x, y)
    /\ written' = written \cup {Call(sent + 1, <<x, y>>)}
    /\ ToBeAudited(c, "create_column_mapping", {<<x, y>>})
    /\ UNCHANGED <<spent, schemaVars, audit, failed>>

McpCreateTerm(c, t, w) ==
    /\ Accept("mcp", c)
    /\ t \notin spent
    /\ NameFree(db.terms, w)
    /\ spent' = spent \cup {t}
    /\ db' = CreateBusinessTerm(db, t, w)
    /\ written' = written \cup {Call(sent + 1, <<t, w>>)}
    /\ ToBeAudited(c, "create_term", {<<t, w>>})
    /\ UNCHANGED <<schemaVars, audit, failed>>

\* create_tag: TagService.CreateTag asks whether the name is free ...
McpCreateTag(c, g, w) ==
    /\ Accept("mcp", c)
    /\ g \notin spent
    /\ GetTagByName(db, w) = {}
    /\ spent' = spent \cup {g}
    /\ req' = [req EXCEPT ![c] = [op |-> "mcp_create_tag", call |-> sent + 1,
                                 tag |-> g, name |-> w]]
    /\ UNCHANGED <<db, schemaVars, glossaryVars>>

\* ... and inserts it; when that fails the call has written nothing.
McpInsertTag(c) ==
    /\ req[c].op = "mcp_create_tag"
    /\ LET new == <<req[c].tag, req[c].name>>
       IN  IF NameFree(db.tags, req[c].name)
           THEN /\ db' = CreateTag(db, req[c].tag, req[c].name)
                /\ written' = written \cup {Call(req[c].call, new)}
                /\ req' = [req EXCEPT ![c] =
                      [op |-> "audit", call |-> req[c].call,
                       action |-> "create_tag", writes |-> {new}]]
           ELSE Finish(c) /\ UNCHANGED <<db, written>>
    /\ UNCHANGED <<sent, spent, schemaVars, audit, failed>>

\* assign_tags_to_column attaches its tags one by one.
McpAssignTags(c, x, tags) ==
    /\ Accept("mcp", c)
    /\ tags # {}
    /\ req' = [req EXCEPT ![c] =
          [op |-> "tagging", call |-> sent + 1, column |-> x, left |-> tags,
           writes |-> {<<x, g>> : g \in tags}]]
    /\ UNCHANGED <<db, spent, schemaVars, glossaryVars>>

\* Mutant of McpAttachTag: a tag that cannot be attached is passed over.
McpAttachAny(c, g) ==
    /\ req[c].op = "tagging"
    /\ g \in req[c].left
    /\ req' = [req EXCEPT ![c].left = @ \ {g}]
    /\ IF req[c].column \in DOMAIN db.columns /\ g \in DOMAIN db.tags
       THEN /\ db' = AddTagToColumn(db, req[c].column, g)
            /\ written' = written \cup
                             {Call(req[c].call, <<req[c].column, g>>)}
       ELSE UNCHANGED <<db, written>>
    /\ UNCHANGED <<sent, spent, schemaVars, audit, failed>>

\* The first tag that cannot be attached ends the call: the tags before it
\* stay, and no event is published.
McpAttachTag(c, g) ==
    /\ req[c].op = "tagging"
    /\ g \in req[c].left
    /\ IF req[c].column \in DOMAIN db.columns /\ g \in DOMAIN db.tags
       THEN /\ db' = AddTagToColumn(db, req[c].column, g)
            /\ written' = written \cup
                             {Call(req[c].call, <<req[c].column, g>>)}
            /\ req' = [req EXCEPT ![c].left = @ \ {g}]
            /\ UNCHANGED failed
       ELSE /\ Finish(c)
            /\ failed' = failed \cup {req[c].call}
            /\ UNCHANGED <<db, written>>
    /\ UNCHANGED <<sent, spent, schemaVars, audit>>

McpTagsAttached(c) ==
    /\ req[c].op = "tagging"
    /\ req[c].left = {}
    /\ req' = [req EXCEPT ![c] =
          [op |-> "audit", call |-> req[c].call,
           action |-> "assign_tags_to_column", writes |-> req[c].writes]]
    /\ UNCHANGED <<db, sent, spent, schemaVars, glossaryVars>>

\* publishMutationAuditEvent
McpPublish(c) ==
    /\ req[c].op = "audit"
    /\ audit' = audit \cup {[call |-> req[c].call, action |-> req[c].action,
                             writes |-> req[c].writes]}
    /\ Finish(c)
    /\ UNCHANGED <<db, sent, spent, schemaVars, written, failed>>

McpCalls == {"tagging", "audit"}

GlossaryAbort(c) ==
    /\ failed' = IF req[c].op \in McpCalls THEN failed \cup {req[c].call}
                 ELSE failed
    /\ UNCHANGED <<audit, written>>

GlossaryNext ==
    \/ \E t \in Term, w \in Word :
          CreateTerm(t, w) \/ UpdateTerm(t, w)
    \/ \E x \in DOMAIN db.columns, t \in Term \cup {None} : AssignTerm(x, t)
    \/ \E g \in Tag : DeleteTag(g)
    \/ \E x \in DOMAIN db.columns, g \in Tag : AddTag(x, g) \/ RemoveTag(x, g)
    \/ \E c \in Client :
          \/ \E t \in Term : DeleteTermClear(c, t)
          \/ DeleteTermRow(c)
          \/ \E g \in Tag, w \in Word :
                \/ CreateTagCheck(c, g, w) \/ UpdateTagCheck(c, g, w)
                \/ McpCreateTag(c, g, w)
          \/ CreateTagInsert(c) \/ McpInsertTag(c)
          \/ UpdateTagWrite(c)
          \/ \E x \in DOMAIN db.columns, t \in Term \cup {None} :
                McpAssignTerm(c, x, t)
          \/ \E x, y \in DOMAIN db.columns : McpCreateMapping(c, x, y)
          \/ \E t \in Term, w \in Word : McpCreateTerm(c, t, w)
          \/ \E x \in DOMAIN db.columns, tags \in SUBSET Tag :
                McpAssignTags(c, x, tags)
          \/ \E g \in Tag : McpAttachTag(c, g)
          \/ McpTagsAttached(c)
          \/ McpPublish(c)
=============================================================================
