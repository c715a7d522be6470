----------------------------- MODULE MCWikiPages -----------------------------
(* The instances of WikiPages that TLC checks.  A write links to every     *)
(* page and a revision to its own.                                         *)
EXTENDS WikiPages, TLC

CONSTANT First      \* the page the editors meet on

On(ops, s) ==
    [op: ops, slug: {s}, title: {Unset}, status: {Unset}, links: {{s}}]
WritesOf(s, titles, statuses) ==
    [op: {"write"}, slug: {s}, title: titles, status: statuses, links: {Slugs}]

(* Every workflow on the first page, and the creation of the others. *)
EditorCalls ==
    On(Workflows \ {"write"}, First)
        \cup WritesOf(First, Titles, {"draft", "published", Unset})
        \cup UNION {WritesOf(s, {CHOOSE t \in Titles : TRUE}, {Unset}) : s \in Slugs \ {First}}

RevisionCalls == On({"revise"}, First) \cup WritesOf(First, Titles, {Unset})

Symmetry == Permutations(Requests)
=============================================================================
