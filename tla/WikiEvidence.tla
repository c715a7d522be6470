---------------------------- MODULE WikiEvidence ----------------------------
(***************************************************************************)
(* What wiki/compiler.py makes of the evidence it got from the RAG         *)
(* runtime, which answers with a text and metadata of any shape: the       *)
(* claims, the related pages and their wikilinks, and the sources of every *)
(* claim.                                                                  *)
(*                                                                         *)
(* Texts are those of WikiSlugs: the last one is the answer, the listed    *)
(* ones are what the metadata holds as claims, or as related pages (then   *)
(* with the titles made of the sources).                                   *)
(***************************************************************************)
EXTENDS WikiSlugs

CONSTANTS
    CurrentSlug,        \* the slug of the page being compiled
    MaxRelated,         \* MAX_RELATED_PAGES
    MaxClaims,          \* MAX_CLAIMS_PER_PAGE
    MinLength,          \* of a claim: 12
    MaxLength,          \* MAX_CLAIM_LENGTH
    MaxHeadingWords,    \* of a line that ends with a colon and is dropped: 5
    Items,              \* the values the metadata may hold under its source keys
    MaxItems,           \* bound: how many of them
    MaxNesting,         \* bound: how deep a value is nested
    SourceIds,          \* ids of documents
    Blank,              \* a text of white space
    None                \* no text

(* The items of S, with those that items of these kinds hold.              *)
Nested(S, kinds) ==
    LET nested[n \in 0..MaxNesting] ==
            IF n = 0 THEN S
            ELSE LET outer == nested[n - 1]
                 IN outer \cup UNION {ToSet(item.items) : item \in {i \in outer : i.kind \in kinds}}
    IN nested[MaxNesting]

AllItems(S) == Nested(S, {"group", "source"})

(* Those that no source holds. *)
Outermost(S) == Nested(S, {"group"})

ASSUME EvidenceAssumption ==
    /\ {MaxRelated, MaxClaims} \subseteq Nat \ {0}
    /\ {MinLength, MaxLength, MaxHeadingWords, MaxItems, MaxNesting} \subseteq Nat
    /\ MaxLength > 1
    /\ Blank # None /\ {Blank, None} \cap SourceIds = {}
    /\ \A item \in Items : \A member \in AllItems({item}) :
          ToSet(member.items) \subseteq AllItems({item})

(* Groups and sources hold items, only texts and sources name a document,  *)
(* and no document has the name the code makes up.                         *)
ASSUME ItemsAssumption ==
    /\ "rag-query" \notin SourceIds \cup {Blank, None}
    /\ \A item \in AllItems(Items) :
          /\ item.items \in Seq(AllItems(Items))
          /\ item.kind \notin {"group", "source"} => item.items = << >>
          /\ item.kind = "text" => item.id \in SourceIds \cup {Blank} /\ item.chunk = None
          /\ item.kind = "source" => item.id \in SourceIds \cup {Blank, None}
          /\ item.kind \notin {"text", "source"} => item.id = None

VARIABLE offered    \* what the metadata holds under its source keys, in order

evars == <<vars, offered>>

Mapped(Op(_), s) == [i \in DOMAIN s |-> Op(s[i])]

----------------------------------------------------------------------------
(* Texts.                                                                  *)

(* " ".join(s.split()) *)
Normalized(s) == Strip(Runs(s, Spaces, " "), {" "})

Words(s) == Cardinality({i \in DOMAIN Normalized(s) : Normalized(s)[i] = " "}) + 1

Lines(s) ==
    LET breaks == Picked([i \in DOMAIN s |-> i], {i \in DOMAIN s : s[i] = "n"})
        starts == <<1>> \o [k \in DOMAIN breaks |-> breaks[k] + 1]
        ends == Append([k \in DOMAIN breaks |-> breaks[k] - 1], Len(s))
    IN [k \in DOMAIN ends |-> SubSeq(s, starts[k], ends[k])]

(* The text without a mark of the set that white space follows. *)
Unmarked(s, marks) ==
    LET ends == {i \in 1..(Len(s) - 1) : s[i + 1] \in Spaces /\ SubSeq(s, 1, i) \in marks}
    IN IF ends = {} THEN s ELSE Strip(SubSeq(s, Min(ends) + 1, Len(s)), Spaces)

Times(n, c) == [i \in 1..n |-> c]
Headings == {Times(n, "#") : n \in 1..6}
Bullets == {<<"-">>}
ItemNumbers(s) == {Append(Times(n, "1"), ".") : n \in DOMAIN s}

StripMarkdownNoise(s) ==
    LET marked == Strip(s, Spaces)
        plain == Unmarked(Unmarked(Unmarked(marked, Headings), Bullets), ItemNumbers(s))
    IN IF plain # << >> /\ Last(plain) = ":" /\ Words(plain) <= MaxHeadingWords
       THEN << >> ELSE Normalized(plain)

Truncate(s) ==
    LET whole == Normalized(s)
    IN IF Len(whole) <= MaxLength THEN whole
       ELSE Strip(SubSeq(whole, 1, MaxLength - 1), Spaces) \o <<".", ".", ".">>

CleanClaim(s) ==
    LET clean == StripMarkdownNoise(s)
    IN IF Len(clean) < MinLength THEN << >> ELSE Truncate(clean)

Limited(s, limit) == SubSeq(s, 1, Min({Len(s), limit}))

DedupeNonEmpty(texts, limit) == Limited(Deduped(Mapped(Normalized, texts)), limit)

(* _bullet_lines, without the line it writes when there is none. *)
BulletLines(texts) == DedupeNonEmpty(texts, Len(texts))

(* The claims of the metadata, or the lines of the answer; when none is    *)
(* left of them, the answer as one.                                        *)
ClaimTexts(claims, answer) ==
    LET clean == Mapped(CleanClaim, IF claims = << >> THEN Lines(answer) ELSE claims)
        found == Picked(clean, {i \in DOMAIN clean : clean[i] # << >>})
    IN IF found = << >> /\ Strip(answer, Spaces) # << >>
       THEN <<Truncate(StripMarkdownNoise(answer))>> ELSE found

(* Mutant: only what is shown is deduplicated. *)
ExtractClaimTextsRepeated(claims, answer) ==
    LET texts == ClaimTexts(claims, answer)
    IN Limited(Picked(texts, {i \in DOMAIN texts : texts[i] # << >>}), MaxClaims)

(* _extract_claim_texts *)
ExtractClaimTexts(claims, answer) == DedupeNonEmpty(ClaimTexts(claims, answer), MaxClaims)

(* _extract_related_pages *)
RelatedPages(titles) ==
    LET slugs == Mapped(Slugify, titles)
        new == {i \in FirstOccurrences(slugs) : slugs[i] \notin {<< >>, CurrentSlug}}
    IN Limited(Picked(titles, new), MaxRelated)

(* Mutant: the brackets stay. *)
LinkTargetRaw(title) == Strip(title, Spaces)

(* What _wikilink puts between [[ and ]], and the pattern finds there. *)
LinkTarget(title) ==
    LET clean == Picked(title, {i \in DOMAIN title : title[i] # "["})
    IN Strip([i \in DOMAIN clean |-> IF clean[i] = "n" THEN " " ELSE clean[i]], Spaces)

----------------------------------------------------------------------------
(* Sources.  An item of the metadata is a text, a mapping with an id, a    *)
(* chunk or a URI ("source"), a list or any other mapping ("group"), or a  *)
(* number.  The chunk stands for all that tells sources of a document      *)
(* apart: chunk_id, entity_id, relation_id and quote.  The items of a      *)
(* source are its values, such as the chunks of a document.                *)

(* Mutant: the values of a source are looked at, too. *)
MembersOfSources(item) ==
    IF item.kind = "source" THEN <<[item EXCEPT !.items = << >>]>> \o item.items
    ELSE IF item.kind = "group" THEN item.items ELSE <<item>>

(* A mapping with an identity of its own is taken whole: what is nested in *)
(* it is not looked at.                                                    *)
Members(item) == IF item.kind = "group" THEN item.items ELSE <<item>>

(* _flatten_source_items, one level of nesting after the other; what is    *)
(* neither a text nor a source is dropped.                                 *)
Flattened(items) ==
    LET level[n \in 0..MaxNesting] ==
            IF n = 0 THEN items ELSE FlattenSeq(Mapped(Members, level[n - 1]))
        flat == level[MaxNesting]
    IN Picked(flat, {i \in DOMAIN flat : flat[i].kind \in {"text", "source"}})

(* _evidence_source_from_item; without an id there is none. *)
SourceOf(item, fallback) ==
    [id |-> IF item.kind = "source" THEN (IF item.id \in {Blank, None} THEN fallback ELSE item.id)
            ELSE IF fallback # None THEN fallback ELSE item.id,
     chunk |-> item.chunk]

(* Mutant: sources are told apart by their document only. *)
SourceKeyById(source) == source.id

SourceKey(source) == <<source.id, source.chunk>>

(* _extract_sources *)
ExtractSources(items, fallback) ==
    LET flat == Flattened(items)
        candidates == [i \in DOMAIN flat |-> SourceOf(flat[i], fallback)]
        found == Picked(candidates, {i \in DOMAIN candidates : candidates[i].id # None})
        whole == [id |-> IF fallback \in {Blank, None} THEN "rag-query" ELSE fallback, chunk |-> None]
        sources == IF found = << >> THEN <<whole>> ELSE found
    IN Picked(sources, FirstOccurrences(Mapped(SourceKey, sources)))

----------------------------------------------------------------------------
(* The evidence is texts, or items. *)
EInit == Init /\ offered = << >>

Offer(item) ==
    /\ text = << >> /\ listed = << >> /\ Len(offered) < MaxItems
    /\ offered' = Append(offered, item)
    /\ UNCHANGED vars

ENext ==
    \/ offered = << >> /\ Next /\ UNCHANGED offered
    \/ \E item \in Items : Offer(item)

ESpec == EInit /\ [][ENext]_evars

----------------------------------------------------------------------------
(* Properties.                                                             *)

(* docs/architecture.md, Wiki Compiler Lifecycle: the page is rendered     *)
(* with its source-backed claims, and the claims are persisted.  Both ways *)
(* cut and deduplicate: the lines that are shown are the claims that are   *)
(* stored, one by one, and no more than MAX_CLAIMS_PER_PAGE.               *)
ShownClaimsAreStored ==
    LET claims == ExtractClaimTexts(listed, text)
    IN BulletLines(claims) = claims /\ Len(claims) <= MaxClaims

(* The links a compiled page is rendered with are read back as the related *)
(* pages that were chosen: each once, in order, none of them the page      *)
(* itself, and no more than MAX_RELATED_PAGES.                             *)
RelatedPagesAreLinked ==
    LET pages == RelatedPages(listed)
        linked == ExtractWikilinks(BulletLines(Mapped(LinkTarget, pages))) IN
    /\ linked = Mapped(Slugify, pages)
    /\ ~Contains(linked, CurrentSlug)
    /\ Len(linked) <= MaxRelated

(* docs/architecture.md: "The compiler does not invent citations."  A      *)
(* claim has a source.  A source of the metadata is outermost when only    *)
(* lists and mappings without an identity are around it, however many:     *)
(* each outermost one that names a document is cited with it.  (What is    *)
(* nested in another source is lost.)  A chunk is cited only with the      *)
(* document it names, or, if it names none and is outermost, with the one  *)
(* the request is about: never with that one when it is nested in the      *)
(* source of another.  A request that named no document cites "rag-query"  *)
(* only if no outermost item names one.                                    *)
ProvenanceKept ==
    \A fallback \in SourceIds \cup {Blank, None} :
        LET sources == ToSet(ExtractSources(offered, fallback))
            outermost == Outermost(ToSet(offered))
            chunks == {item \in AllItems(ToSet(offered)) : item.kind = "source"}
        IN  /\ sources # {}
            /\ \A item \in outermost \cap chunks : item.id \in SourceIds =>
                  [id |-> item.id, chunk |-> item.chunk] \in sources
            /\ \A source \in sources : source.chunk # None =>
                  \E item \in chunks :
                      /\ item.chunk = source.chunk
                      /\ \/ source.id = item.id /\ item.id \in SourceIds
                         \/ source.id = fallback /\ item.id \notin SourceIds /\ item \in outermost
            /\ "rag-query" \in {source.id : source \in sources} =>
                  \A item \in outermost : item.kind # "text" /\ item.id \notin SourceIds
=============================================================================
