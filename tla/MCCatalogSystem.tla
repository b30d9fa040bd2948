--------------------------- MODULE MCCatalogSystem ---------------------------
(***************************************************************************)
(* A small instance of CatalogSystem for TLC.                              *)
(***************************************************************************)
EXTENDS CatalogSystem

CONSTANTS orders, lines, id, name, view, tbl, coll, int, text, r1, r2

Column(t, conf) == [type |-> t, confidence |-> conf]

Object(t, cols) == [type |-> t, columns |-> cols]

Table(cols) == orders :> Object(tbl, cols)

\* One column; the same inferred; another type and a second column; a view in
\* its place and another table; nothing.
Plain    == Table(id :> Column(int, 0))
Inferred == Table(id :> Column(int, 2))
Wider    == Table((id :> Column(text, 0)) @@ (name :> Column(text, 0)))
Other    == (orders :> Object(view, id :> Column(int, 0)))
              @@ (lines :> Object(tbl, name :> Column(text, 0)))
Nothing  == [n \in {} |-> None]
MCScans  == {Plain, Inferred, Wider, Other, Nothing}

\* Documents that agree; documents that differ in type and in their fields.
Collection(docs) == orders :> [type |-> coll, docs |-> docs]
Uniform == Collection(1 :> (id :> int))
Mixed   == Collection((1 :> (id :> int))
                        @@ (2 :> ((id :> text) @@ (name :> text))))
MCDumps == {Uniform, Mixed}

Load(kinds, sources, saved, scans, requests) ==
    [kinds |-> kinds, sources |-> sources, saved |-> saved, scans |-> scans,
     contents |-> {}, requests |-> requests]

\* A load in which the scans take their steps.
Live(kinds, contents, requests) ==
    [Load(kinds, 1, 2, {}, requests) EXCEPT !.contents = contents]

\* Which requests meet in one behaviour, and how many.
MCTraffic == {
    Load({"settings", "delete"}, 1, 0, {}, 3),
    Load({"delete", "link"}, 1, 2, MCScans, 1),
    Load({"link"}, 1, 1, {Wider}, 3),
    Load({"delete", "link"}, 2, 2, {Plain}, 2),
    Load({"delete", "term"}, 1, 2, {Wider, Plain}, 3),
    Load({"tag", "mcp"}, 1, 1, {Plain}, 3),
    Load({"tag", "mcp"}, 1, 2, {Wider, Nothing}, 2),
    Load({"rule", "check"}, 1, 2, {Plain, Nothing}, 2),
    Load({"rule", "check"}, 1, 1, {Plain}, 3),
    Live({"scan", "delete"}, {Plain, Wider, Other, Nothing}, 4),
    Live({"scan"}, MCDumps, 3) }

MCCheckLists == {<<r1>>, <<r1, r2>>, <<r1, r1>>}

Symmetric == Permutations(Source) \cup Permutations(Host)
               \cup Permutations(Term) \cup Permutations(Tag)
               \cup Permutations(Client)
=============================================================================
