------------------------------ MODULE WikiPages ------------------------------
(***************************************************************************)
(* The wiki of one tenant: the tables of wiki/models.py and the write      *)
(* workflows of wiki/service.py and wiki/validators.py, each one           *)
(* transaction of wiki/repository.py.                                      *)
(*                                                                         *)
(* PostgreSQL runs at READ COMMITTED: every statement sees what is         *)
(* committed when it starts, so a workflow is one step per statement.      *)
(* What a transaction wrote is kept in its tx record and reaches the       *)
(* tables at its commit; what it has locked makes others wait:             *)
(*   - the wiki_page row, from the first UPDATE of it (or its INSERT),     *)
(*   - the key (tenant_id, slug), from the INSERT of a page,               *)
(*   - the key (page_id, revision_no), from the flush of a revision.       *)
(* A DELETE that meets rows another one deleted waits for it and then      *)
(* skips them; both orders leave the same rows, and it waits for nothing   *)
(* here.  The foreign keys' KEY SHARE locks conflict with none of these    *)
(* writes.                                                                 *)
(*                                                                         *)
(* A text stands for its request and the links in it; every text that is   *)
(* written has one.  Of the findings of a validation only the broken       *)
(* wikilinks are told apart: the others, one at least, come with them.     *)
(***************************************************************************)
EXTENDS Naturals, FiniteSets

CONSTANTS
    Requests,       \* calls of the wiki service, each made at most once
    Slugs,          \* the slugs the calls are about
    Titles,         \* the values of a page's title and page_type
    Calls,          \* the workflows called, with their arguments
    Unset           \* no value, NULL

Workflows == {"write", "revise", "publish", "claim", "rebuild", "validate"}

ASSUME WikiAssumption ==
    /\ Unset \notin Titles \cup Slugs \cup Requests
    /\ Calls \subseteq [op: Workflows, slug: Slugs, title: Titles \cup {Unset},
                      status: {"draft", "published", Unset}, links: SUBSET Slugs]
    /\ \A call \in Calls : call.op = "write" => call.title # Unset

VARIABLES
    page,       \* wiki_page by slug
    revisions,  \* wiki_revision
    links,      \* wiki_link, the rows made from one text together
    claims,     \* wiki_claim with its wiki_claim_source rows
    results,    \* wiki_validation_result, the rows of one validation together,
                \* and (history) the text it was about
    tx          \* the transaction of each request

tables == <<page, revisions, links, claims, results>>
vars == <<tables, tx>>

Pages == [title: Titles \cup {Unset}, status: {"draft", "published"}, current: Nat]
NoPage == [title |-> Unset, status |-> "draft", current |-> 0]
Exists(p) == p.title # Unset

Revisions == [slug: Slugs, no: Nat, text: Requests, links: SUBSET Slugs]
Links == [slug: Slugs, text: Requests]
Claims == [slug: Slugs, no: Nat, by: Requests, item: Nat]
Results == [slug: Slugs, no: Nat, by: Requests, text: Requests, broken: SUBSET Slugs]

Numbers(s) == {rev.no : rev \in {v \in revisions : v.slug = s}}
LinksOf(s) == {l \in links : l.slug = s}
ResultsOf(s, no) == {f \in results : f.slug = s /\ f.no = no}

(* title, status and links are arguments of the call, loaded is the page   *)
(* its first SELECT returned, no the revision it works on, text what a     *)
(* validation read of it, seen what its DELETE removed.                    *)
Steps == {"new", "select", "insertPage", "nextNo", "byNo", "flushRevision", "setCurrent",
          "resolve", "findBroken", "delete", "commit", "done", "error"}
Transactions ==
    [op: Workflows \cup {Unset}, step: Steps, slug: Slugs \cup {Unset}, item: Nat,
     title: Titles \cup {Unset}, status: {"draft", "published", Unset}, links: SUBSET Slugs,
     loaded: Pages, no: Nat, found: BOOLEAN, locks: BOOLEAN, text: Requests \cup {Unset},
     broken: SUBSET Slugs, seen: SUBSET (Links \cup Results)]

Idle(step) == [op |-> Unset, step |-> step, slug |-> Unset, item |-> 0,
               title |-> Unset, status |-> Unset, links |-> {}, loaded |-> NoPage, no |-> 0,
               found |-> FALSE, locks |-> FALSE, text |-> Unset, broken |-> {}, seen |-> {}]

Init ==
    /\ page = [s \in Slugs |-> NoPage]
    /\ revisions = {} /\ links = {} /\ claims = {} /\ results = {}
    /\ tx = [r \in Requests |-> Idle("new")]

----------------------------------------------------------------------------
(* Transactions.                                                           *)

At(r, step) == tx[r].step = step
Open(r) == tx[r].step \notin {"new", "done", "error"}
Moves(r, state) == tx' = [tx EXCEPT ![r] = state] /\ UNCHANGED tables
Goto(r, step) == Moves(r, [tx[r] EXCEPT !.step = step])

(* Mutant: the transaction is not rolled back and stays open. *)
RaisesWithoutRollback(r) == Moves(r, [tx[r] EXCEPT !.step = "error"])

(* An exception leaves transaction(): rollback. *)
Raises(r) == Moves(r, Idle("error"))

(* The page attributes as the workflow assigns them to the loaded object. *)
Assigned(r) ==
    CASE tx[r].op = "write" ->
            [tx[r].loaded EXCEPT !.title = tx[r].title,
                                 !.status = IF tx[r].status = Unset THEN @ ELSE tx[r].status]
      [] tx[r].op = "publish" -> [tx[r].loaded EXCEPT !.status = "published", !.current = tx[r].no]
      [] OTHER -> tx[r].loaded

(* Mutant: every write touches the page row, changed or not. *)
DirtyAlways(r) == tx[r].op = "write"

(* A flush makes an UPDATE of wiki_page only if an attribute changed. *)
Dirty(r) == Exists(tx[r].loaded) /\ Assigned(r) # tx[r].loaded

SameSlug(r, q) == q # r /\ tx[q].slug = tx[r].slug
PageLockHolders(r) == {q \in Requests : SameSlug(r, q) /\ tx[q].locks}

RevisionFlushed(q) ==
    tx[q].op \in {"write", "revise"} /\ tx[q].step \in {"setCurrent", "delete", "commit"}
RevisionHolders(r) ==
    {q \in Requests : SameSlug(r, q) /\ RevisionFlushed(q) /\ tx[q].no = tx[r].no}

(* Whom the statement that r is at waits for. *)
WaitsFor(r) ==
    CASE At(r, "insertPage") \/ At(r, "setCurrent") -> PageLockHolders(r)
      [] At(r, "nextNo") /\ Dirty(r) -> PageLockHolders(r)
      [] At(r, "commit") /\ tx[r].op = "publish" /\ Dirty(r) -> PageLockHolders(r)
      [] At(r, "flushRevision") -> RevisionHolders(r)
      [] OTHER -> {}

Runs(r, step) == At(r, step) /\ WaitsFor(r) = {}

(* Transactions of which each one waits for another: there is a circle. *)
Circle(S) == S # {} /\ \A r \in S : WaitsFor(r) \cap S # {}

Begin(r, call, item) ==
    Moves(r, [Idle("select") EXCEPT !.op = call.op, !.slug = call.slug, !.title = call.title,
                                    !.status = call.status, !.links = call.links, !.item = item])

Call(r) == At(r, "new") /\ \E call \in Calls : Begin(r, call, 1)

----------------------------------------------------------------------------
(* Statements.                                                             *)

AfterSelect(op) ==
    CASE op \in {"write", "revise"} -> "nextNo"
      [] op = "rebuild" -> "delete"
      [] OTHER -> "resolve"

(* get_page_by_slug, and _require_page *)
SelectPage(r) ==
    LET found == page[tx[r].slug] IN
    /\ At(r, "select")
    /\ \/ Exists(found) /\ Moves(r, [tx[r] EXCEPT !.loaded = found, !.step = AfterSelect(tx[r].op)])
       \/ ~Exists(found) /\ tx[r].op = "write" /\ Goto(r, "insertPage")
       \/ ~Exists(found) /\ tx[r].op # "write" /\ Raises(r)

(* create_page; the unique key (tenant_id, slug) refuses a second one. *)
CreatePage(r) ==
    /\ Runs(r, "insertPage")
    /\ \/ ~Exists(page[tx[r].slug]) /\ Moves(r, [tx[r] EXCEPT !.locks = TRUE, !.step = "nextNo"])
       \/ Exists(page[tx[r].slug]) /\ Raises(r)

LastNo(s) == CHOOSE n \in Numbers(s) \cup {0} : \A m \in Numbers(s) : m <= n

(* Mutant: the number after the current revision, not after the last. *)
NextRevisionNoAfterCurrent(r) ==
    /\ Runs(r, "nextNo")
    /\ Moves(r, [tx[r] EXCEPT !.no = page[tx[r].slug].current + 1,
                              !.locks = @ \/ Dirty(r), !.step = "byNo"])

(* _next_revision_no; its SELECT flushes the changed page first. *)
NextRevisionNo(r) ==
    /\ Runs(r, "nextNo")
    /\ Moves(r, [tx[r] EXCEPT !.no = LastNo(tx[r].slug) + 1,
                              !.locks = @ \/ Dirty(r), !.step = "byNo"])

(* _get_revision_by_no *)
GetRevisionByNo(r) ==
    /\ At(r, "byNo")
    /\ Moves(r, [tx[r] EXCEPT !.found = tx[r].no \in Numbers(tx[r].slug), !.step = "flushRevision"])

(* Mutant: (page_id, revision_no) is not unique. *)
FlushRevisionNoKey(r) == Runs(r, "flushRevision") /\ Goto(r, "setCurrent")

(* The flush of upsert_page_revision: UPDATE of the revision found, or     *)
(* INSERT, which the unique key (page_id, revision_no) may refuse.         *)
FlushRevision(r) ==
    /\ Runs(r, "flushRevision")
    /\ IF ~tx[r].found /\ tx[r].no \in Numbers(tx[r].slug)
       THEN Raises(r) ELSE Goto(r, "setCurrent")

(* page.current_revision_id = revision.id; flush *)
SetCurrent(r) ==
    /\ Runs(r, "setCurrent")
    /\ Moves(r, [tx[r] EXCEPT !.locks = TRUE, !.step = "delete"])

(* get_current_revision, and _resolve_revision of publish_page with or     *)
(* without a revision_no. *)
ResolveRevision(r) ==
    LET s == tx[r].slug IN
    /\ At(r, "resolve")
    /\ \E no \in {page[s].current} \cup (IF tx[r].op = "publish" THEN Numbers(s) ELSE {}) :
        IF tx[r].op # "validate" THEN Moves(r, [tx[r] EXCEPT !.no = no, !.step = "commit"])
        ELSE \E rev \in revisions :
            /\ rev.slug = s /\ rev.no = no
            /\ Moves(r, [tx[r] EXCEPT !.no = no, !.text = rev.text, !.links = rev.links,
                                      !.step = "findBroken"])

(* Mutant: the stored link rows are checked, not the text. *)
FindBrokenLinksStored(r) ==
    LET texts == {l.text : l \in LinksOf(tx[r].slug)}
        linked == UNION {v.links : v \in {w \in revisions : w.text \in texts}} IN
    /\ At(r, "findBroken")
    /\ Moves(r, [tx[r] EXCEPT !.broken = {s \in linked : ~Exists(page[s])}, !.step = "delete"])

(* BrokenWikilinksValidator: list_pages_by_slugs of the links in the text  *)
(* that was loaded.                                                        *)
FindBrokenLinks(r) ==
    /\ At(r, "findBroken")
    /\ Moves(r, [tx[r] EXCEPT !.broken = {s \in tx[r].links : ~Exists(page[s])}, !.step = "delete"])

(* The DELETE of replace_links_for_page and replace_validation_results. *)
Delete(r) ==
    /\ At(r, "delete")
    /\ Moves(r, [tx[r] EXCEPT !.seen = IF tx[r].op = "validate" THEN ResultsOf(tx[r].slug, tx[r].no)
                                       ELSE LinksOf(tx[r].slug),
                              !.step = "commit"])

----------------------------------------------------------------------------
(* The commits.  The UPDATE of a page names the columns that changed since *)
(* it was loaded, the others keep what the row holds now.                  *)

Written(stored, loaded, assigned) == IF assigned = loaded THEN stored ELSE assigned

Flushed(stored, loaded, assigned) ==
    [title |-> Written(stored.title, loaded.title, assigned.title),
     status |-> Written(stored.status, loaded.status, assigned.status),
     current |-> Written(stored.current, loaded.current, assigned.current)]

(* status or "draft" *)
NewPage(r) == [title |-> tx[r].title, current |-> tx[r].no,
               status |-> IF tx[r].status = Unset THEN "draft" ELSE tx[r].status]

(* The call returns; what the caller knows of it is kept. *)
Returns(r) == [Idle("done") EXCEPT !.op = tx[r].op, !.slug = tx[r].slug,
                                   !.item = tx[r].item, !.no = tx[r].no]
Commits(r) == Runs(r, "commit") /\ tx' = [tx EXCEPT ![r] = Returns(r)]

(* Mutant: the old link rows stay. *)
ReplaceLinksKeepsOld(r) == links' = links \cup {[slug |-> tx[r].slug, text |-> r]}

(* replace_links_for_page, the rows of r's own text *)
ReplaceLinks(r) == links' = (links \ tx[r].seen) \cup {[slug |-> tx[r].slug, text |-> r]}

(* Mutant: the page keeps its current revision. *)
CommitRevisionNotCurrent(r) ==
    LET s == tx[r].slug IN
    /\ Commits(r) /\ tx[r].op \in {"write", "revise"}
    /\ page' = [page EXCEPT ![s] =
          IF Exists(tx[r].loaded) THEN Flushed(@, tx[r].loaded, Assigned(r)) ELSE [NewPage(r) EXCEPT !.current = 0]]
    /\ revisions' = (IF tx[r].found THEN {v \in revisions : v.slug # s \/ v.no # tx[r].no}
                     ELSE revisions) \cup {[slug |-> s, no |-> tx[r].no, text |-> r, links |-> tx[r].links]}
    /\ ReplaceLinks(r)
    /\ UNCHANGED <<claims, results>>

(* create_or_update_page and create_revision.  A revision that was found   *)
(* gets the new text in place.                                             *)
CommitRevision(r) ==
    LET s == tx[r].slug IN
    /\ Commits(r) /\ tx[r].op \in {"write", "revise"}
    /\ page' = [page EXCEPT ![s] =
          IF Exists(tx[r].loaded)
          THEN [Flushed(@, tx[r].loaded, Assigned(r)) EXCEPT !.current = tx[r].no]
          ELSE NewPage(r)]
    /\ revisions' = (IF tx[r].found THEN {v \in revisions : v.slug # s \/ v.no # tx[r].no}
                     ELSE revisions) \cup {[slug |-> s, no |-> tx[r].no, text |-> r, links |-> tx[r].links]}
    /\ ReplaceLinks(r)
    /\ UNCHANGED <<claims, results>>

(* publish_page *)
CommitPublish(r) ==
    /\ Commits(r) /\ tx[r].op = "publish"
    /\ page' = [page EXCEPT ![tx[r].slug] = Flushed(@, tx[r].loaded, Assigned(r))]
    /\ UNCHANGED <<revisions, links, claims, results>>

(* add_claim_with_sources: the claim and all its sources *)
CommitClaim(r) ==
    /\ Commits(r) /\ tx[r].op = "claim"
    /\ claims' = claims \cup {[slug |-> tx[r].slug, no |-> tx[r].no, by |-> r, item |-> tx[r].item]}
    /\ UNCHANGED <<page, revisions, links, results>>

(* rebuild_links_from_markdown *)
CommitLinks(r) ==
    /\ Commits(r) /\ tx[r].op = "rebuild"
    /\ ReplaceLinks(r)
    /\ UNCHANGED <<page, revisions, claims, results>>

(* validate_page *)
CommitResults(r) ==
    /\ Commits(r) /\ tx[r].op = "validate"
    /\ results' = (results \ tx[r].seen)
          \cup {[slug |-> tx[r].slug, no |-> tx[r].no, by |-> r,
                 text |-> tx[r].text, broken |-> tx[r].broken]}
    /\ UNCHANGED <<page, revisions, links, claims>>

Commit(r) ==
    \/ CommitRevision(r) \/ CommitPublish(r) \/ CommitClaim(r)
    \/ CommitLinks(r) \/ CommitResults(r)

(* A statement fails, the request is cancelled or its process dies. *)
Fails(r) == Open(r) /\ Raises(r)

(* PostgreSQL aborts a transaction of a circle. *)
DeadlockDetected(r) == (\E S \in SUBSET Requests : r \in S /\ Circle(S)) /\ Raises(r)

----------------------------------------------------------------------------
Statement(r) ==
    \/ SelectPage(r) \/ CreatePage(r) \/ NextRevisionNo(r) \/ GetRevisionByNo(r)
    \/ FlushRevision(r) \/ SetCurrent(r) \/ ResolveRevision(r) \/ FindBrokenLinks(r)
    \/ Delete(r) \/ Commit(r) \/ DeadlockDetected(r)

Next == \E r \in Requests : Call(r) \/ Statement(r) \/ Fails(r)

Spec == Init /\ [][Next]_vars

(* The database answers. *)
FairSpec == Spec /\ \A r \in Requests : WF_vars(Statement(r))

----------------------------------------------------------------------------
(* Properties.                                                             *)

(* Only an open transaction has anything locked. *)
TypeOK ==
    /\ page \in [Slugs -> Pages]
    /\ revisions \subseteq Revisions
    /\ links \subseteq Links
    /\ claims \subseteq Claims
    /\ results \subseteq Results
    /\ tx \in [Requests -> Transactions]
    /\ \A r \in Requests : tx[r].locks \/ RevisionFlushed(r) => Open(r)

(* get_page, validate_page and add_claim_with_sources rely on it: a page   *)
(* that can be read has a current revision, one of its own, in whatever    *)
(* order pages are created, revised and published and transactions fail.   *)
PagesHaveCurrentRevision ==
    \A s \in Slugs : Exists(page[s]) => page[s].current \in Numbers(s)

(* Concurrent editors compute revision numbers from what they read, and    *)
(* still the numbers of a page are 1, 2, 3 and so on: none is skipped, and *)
(* no two revisions have the same.                                         *)
RevisionNumbersDense ==
    \A s \in Slugs : /\ Numbers(s) = 1..Cardinality(Numbers(s))
                     /\ \A v, w \in revisions : v.slug = w.slug /\ v.no = w.no => v = w

(* docs/architecture.md, Wiki Page Flow: the wikilinks of the new revision *)
(* are stored and the page's current_revision_id is updated.  Of any       *)
(* editors that write one page at the same time, the links are those of    *)
(* the text that became current, unless publish_page or                    *)
(* rebuild_links_from_markdown, which set one without the other, were      *)
(* called for the page.                                                    *)
LinksOfCurrentRevision ==
    \A s \in Slugs :
        (\A r \in Requests : tx[r].slug = s => tx[r].op \notin {"publish", "rebuild"}) =>
            {l.text : l \in LinksOf(s)}
                = {v.text : v \in {w \in revisions : w.slug = s /\ w.no = page[s].current}}

(* A validation reads the text, the pages its links lead to and the old    *)
(* results one after the other, while pages are created and revisions      *)
(* overwritten in place.  As long as the revision has the text that was    *)
(* validated, every link of it that leads nowhere is reported, and never   *)
(* the page's link to itself.                                              *)
BrokenLinksReported ==
    \A f \in results :
        /\ f.slug \notin f.broken
        /\ \A v \in revisions : v.slug = f.slug /\ v.no = f.no /\ v.text = f.text =>
              {s \in v.links : ~Exists(page[s])} \subseteq f.broken

(* Workflows that leave a page's attributes alone lock in one order, the   *)
(* revision number before the page.  Transactions wait for each other in a *)
(* circle only when one of them is a write that changes the page.          *)
CirclesNeedChangedPage ==
    \A S \in SUBSET Requests : Circle(S) =>
        \E r \in S : tx[r].op = "write" /\ Exists(tx[r].loaded) /\ Assigned(r) # tx[r].loaded

(* The wiki keeps what WikiHistory promises: through numbers read before   *)
(* other commits, revisions overwritten in place and publications of pages *)
(* loaded earlier, an edit stores its text under the number it took, and   *)
(* nothing else changes a version or removes one.                          *)
TextOf(s, no) == (CHOOSE v \in revisions : v.slug = s /\ v.no = no).text
Versions == [s \in Slugs |-> [no \in 1..LastNo(s) |-> TextOf(s, no)]]
Currents == [s \in Slugs |-> page[s].current]
Edits ==
    {[by |-> r, slug |-> tx[r].slug, no |-> tx[r].no] : r \in {q \in Requests :
        /\ tx[q].op \in {"write", "revise"}
        /\ tx[q].step \in {"byNo", "flushRevision", "setCurrent", "delete", "commit"}}}

History == INSTANCE WikiHistory
    WITH Editors <- Requests, versions <- Versions, current <- Currents, edits <- Edits

ImplementsWikiHistory == History!Spec

(* docs/architecture.md promises immutable page revisions.  What holds of  *)
(* it: a revision whose number no edit under way has taken is settled, and *)
(* keeps its text and its links for ever, whoever edits the page later.    *)
Settled == {v \in revisions : \A d \in Edits : d.slug # v.slug \/ d.no # v.no}
SettledRevisionsKept == [][Settled \subseteq Settled']_vars

(* Every workflow ends, with a circle or without. *)
RequestsEnd == \A r \in Requests : Open(r) ~> At(r, "done") \/ At(r, "error")

(* docs/architecture.md: "Immutable page revisions."  A stored revision    *)
(* keeps its text.                                                         *)
RevisionsImmutable == [][revisions \subseteq revisions']_vars
=============================================================================
