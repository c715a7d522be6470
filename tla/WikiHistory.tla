---------------------------- MODULE WikiHistory ----------------------------
(***************************************************************************)
(* What the wiki keeps of a page, whatever its transactions read, wait for *)
(* and roll back: versions numbered without a gap, of which none is ever   *)
(* removed, and one that is current.  An edit takes the number after the   *)
(* last one when it looks, and what it finds under that number when it is  *)
(* stored, it replaces: a version can be lost only to an edit that was     *)
(* under way when it was stored.  WikiPages implements it;                 *)
(* ImplementsWikiHistory there is the mapping.                             *)
(***************************************************************************)
EXTENDS Naturals, Sequences

CONSTANTS
    Slugs,
    Editors         \* the requests that write a text, which is named by them

VARIABLES
    versions,       \* per page, the text of each version
    current,        \* per page, the version that is shown, 0 for none
    edits           \* the edits under way, with the number they took

hvars == <<versions, current, edits>>

Init ==
    /\ versions = [s \in Slugs |-> << >>]
    /\ current = [s \in Slugs |-> 0]
    /\ edits = {}

Put(texts, no, text) == [n \in DOMAIN texts \cup {no} |-> IF n = no THEN text ELSE texts[n]]

(* Two edits of a page may take the same number. *)
Take(e, s) ==
    /\ \A d \in edits : d.by # e
    /\ edits' = edits \cup {[by |-> e, slug |-> s, no |-> Len(versions[s]) + 1]}
    /\ UNCHANGED <<versions, current>>

(* A text is stored under the number of its edit, and is current. *)
Store(d) ==
    /\ d \in edits
    /\ versions' = [versions EXCEPT ![d.slug] = Put(@, d.no, d.by)]
    /\ current' = [current EXCEPT ![d.slug] = d.no]
    /\ edits' = edits \ {d}

(* Edits that fail leave nothing behind. *)
GiveUp(d) ==
    /\ d \in edits
    /\ edits' = edits \ {d}
    /\ UNCHANGED <<versions, current>>

(* Another version of the page is shown. *)
Show(s, no) ==
    /\ no \in 1..Len(versions[s])
    /\ current' = [current EXCEPT ![s] = no]
    /\ UNCHANGED <<versions, edits>>

Next ==
    \/ \E e \in Editors, s \in Slugs : Take(e, s)
    \/ \E d \in edits : Store(d) \/ GiveUp(d)
    \/ \E s \in Slugs : \E no \in 1..Len(versions[s]) : Show(s, no)

Spec == Init /\ [][Next]_hvars
=============================================================================
