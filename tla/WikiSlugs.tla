------------------------------ MODULE WikiSlugs ------------------------------
(***************************************************************************)
(* Slugs and wikilinks: slugify_wiki_target and extract_wikilinks of       *)
(* wiki/service.py.                                                        *)
(*                                                                         *)
(* A character stands for its class: "a" a word character, "1" a digit,    *)
(* "A" one that lower() changes to "a", "_" and "-", " " white space and   *)
(* "n" a newline, "." and ":" characters the slug drops, the marks "|" and *)
(* "#", and "[" a bracket.  NFKC changes none of these.  The behaviors     *)
(* type texts, one character at a time.                                    *)
(***************************************************************************)
EXTENDS Naturals, SequencesExt, FiniteSetsExt

Spaces == {" ", "n"}
Separators == Spaces \cup {"_", "-"}
WordChars == {"a", "1", "A", "_"}
Alphabet == WordChars \cup Separators \cup {".", ":", "|", "#", "["}

CONSTANTS
    Chars,          \* the characters that are typed
    MaxTyped,       \* bound: the characters typed, in all texts together
    MaxTexts        \* bound: the texts listed before the last

ASSUME SlugAssumption ==
    /\ Chars \subseteq Alphabet
    /\ {MaxTyped, MaxTexts} \subseteq Nat

VARIABLES
    text,       \* the text being typed
    listed      \* the texts typed before

vars == <<text, listed>>

(* What s has at these positions, in order. *)
Picked(s, positions) ==
    LET picked[n \in 0..Len(s)] ==
            IF n = 0 THEN << >>
            ELSE IF n \in positions THEN Append(picked[n - 1], s[n])
            ELSE picked[n - 1]
    IN picked[Len(s)]

FirstOccurrences(s) == {i \in DOMAIN s : \A k \in 1..(i - 1) : s[k] # s[i]}

UpTo(s, mark) ==
    LET marks == {i \in DOMAIN s : s[i] = mark} IN
    IF marks = {} THEN s ELSE SubSeq(s, 1, Min(marks) - 1)

Strip(s, chars) ==
    LET kept == {i \in DOMAIN s : s[i] \notin chars} IN
    IF kept = {} THEN << >> ELSE SubSeq(s, Min(kept), Max(kept))

Lower(s) == [i \in DOMAIN s |-> IF s[i] = "A" THEN "a" ELSE s[i]]

(* re.sub with a pattern for runs of these characters: the first stays,   *)
(* as c.                                                                   *)
Runs(s, chars, c) ==
    LET once == Picked(s, {i \in DOMAIN s : i > 1 /\ s[i] \in chars => s[i - 1] \notin chars})
    IN [i \in DOMAIN once |-> IF once[i] \in chars THEN c ELSE once[i]]

(* What is left of the part before the marks when punctuation is dropped.  *)
Hyphenated(s) ==
    LET part == Lower(Strip(UpTo(UpTo(s, "|"), "#"), Spaces))
        kept == Picked(part, {i \in DOMAIN part : part[i] \in WordChars \cup Separators})
    IN Runs(kept, Separators, "-")

(* Mutant: separators are not collapsed at the ends. *)
SlugifyNoStrip(s) == Hyphenated(s)

(* slugify_wiki_target *)
Slugify(s) == Strip(Hyphenated(s), {"-"})

(* The non-empty slugs in the order of their first occurrence:             *)
(* extract_wikilinks, and _dedupe_slugs of the repository.                 *)
Deduped(slugs) == Picked(slugs, {i \in FirstOccurrences(slugs) : slugs[i] # << >>})

(* re.finditer(r"\[\[([^\[\]\n]+)\]\]") of one rendered wikilink *)
Found(target) == target # << >> /\ \A i \in DOMAIN target : target[i] \notin {"[", "n"}

ExtractWikilinks(targets) ==
    LET found == Picked(targets, {i \in DOMAIN targets : Found(targets[i])})
    IN Deduped([i \in DOMAIN found |-> Slugify(found[i])])

----------------------------------------------------------------------------
Init == text = << >> /\ listed = << >>

Typed == FoldLeft(LAMBDA sum, t : sum + Len(t), Len(text), listed)

Type(c) == Typed < MaxTyped /\ text' = Append(text, c) /\ UNCHANGED listed

(* An empty text is like one of white space. *)
EndText ==
    text # << >> /\ Len(listed) < MaxTexts /\ listed' = Append(listed, text) /\ text' = << >>

Next == EndText \/ \E c \in Chars : Type(c)

Spec == Init /\ [][Next]_vars

----------------------------------------------------------------------------
(* Properties.                                                             *)

(* create_or_update_page stores the slug of a slug or of a title, and      *)
(* get_page and the wikilinks look pages up by the slug of what they are   *)
(* given.  They find the page: a slug is its own slug, it has no upper     *)
(* case, no mark and no doubled, leading or trailing hyphen.               *)
SlugsAreCanonical ==
    LET slug == Slugify(text) IN
    /\ Slugify(slug) = slug
    /\ \A i \in DOMAIN slug : slug[i] \in {"a", "1", "-"}
    /\ \A i \in DOMAIN slug : slug[i] = "-" =>
          i \notin {1, Len(slug)} /\ slug[i + 1] # "-"
=============================================================================
