--------------------------- MODULE MCWikiEvidence ---------------------------
(* The instances of WikiEvidence that TLC checks.  A group may hold        *)
(* another one, or the source of a document with what is nested in it.     *)
EXTENDS WikiEvidence

AllChars == {"a", "1", "A", "_", "-", " ", "n", ".", ":", "|", "#", "["}
SlugOfAA == <<"a", "a">>

Item(kind, id, chunk, items) == [kind |-> kind, id |-> id, chunk |-> chunk, items |-> items]

Leaves ==
    {Item("number", None, None, << >>)}
        \cup {Item("text", id, None, << >>) : id \in SourceIds \cup {Blank}}
        \cup {Item("source", id, chunk, << >>) : id \in SourceIds \cup {Blank}, chunk \in {"c1", "c2", None}}
Group(items) == Item("group", None, None, items)
Documents == {Item("source", id, chunk, <<m>>) : id \in SourceIds \cup {Blank}, chunk \in {"c1", None}, m \in Leaves}

SomeItems ==
    Leaves \cup {Group(s) : s \in BoundedSeq(Leaves, 2)}
        \cup Documents \cup {Group(<<item>>) : item \in Documents \cup {Group(<<m>>) : m \in Leaves}}
=============================================================================
