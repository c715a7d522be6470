---------------------------- MODULE MCWikiCompile ----------------------------
(* The instances of WikiCompile that TLC checks: a compilation among       *)
(* editors that write, revise and publish the pages.                       *)
EXTENDS WikiCompile

EditorCalls ==
    [op: {"revise", "publish"}, slug: Slugs, title: {Unset}, status: {Unset}, links: {Slugs}]
        \cup [op: {"write"}, slug: Slugs, title: Titles, status: {Unset}, links: {Slugs}]
=============================================================================
