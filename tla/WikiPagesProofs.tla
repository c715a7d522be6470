--------------------------- MODULE WikiPagesProofs ---------------------------
(***************************************************************************)
(* Theorems about WikiPages, for any number of requests, pages, titles and *)
(* calls: its invariants hold in every reachable state, under every        *)
(* interleaving of the statements of READ COMMITTED transactions.          *)
(***************************************************************************)
EXTENDS WikiPages, Sequences, FiniteSetTheorems, TLAPS

USE WikiAssumption

Writer(t) == t.op \in {"write", "revise"}
Ended(t) == t.step \in {"new", "done", "error"}

(* It will not write a text any more: add_claim_with_sources is the one    *)
(* workflow that a caller goes on with after a write.                      *)
Spent(t) == t.step \in {"done", "error"} \/ (t.op = "claim" /\ t.step # "new")

(* It has seen its page, or made it.                                       *)
Past(t) == t.step \in {"nextNo", "byNo", "flushRevision", "setCurrent",
                       "resolve", "findBroken", "delete", "commit"}
Creates(t) == t.op = "write" /\ t.locks /\ ~Exists(t.loaded) /\ ~Exists(page[t.slug])
Changes(t) ==
    /\ t.op = "write"
    /\ \/ t.title # t.loaded.title
       \/ t.status # Unset /\ t.status # t.loaded.status

(* Where the transaction t of each workflow can stand, and what it has     *)
(* locked by then.                                                         *)
Course(t) ==
    /\ t.step \notin {"new", "error"} => t.op \in Workflows /\ t.slug \in Slugs
    /\ t.op = "write" /\ ~Ended(t) => t.title # Unset
    /\ t.step = "insertPage" => t.op = "write"
    /\ t.step \in {"nextNo", "byNo", "flushRevision", "setCurrent"} => Writer(t)
    /\ t.step = "resolve" => t.op \in {"publish", "claim", "validate"}
    /\ t.step = "findBroken" => t.op = "validate"
    /\ t.step = "delete" => t.op \notin {"publish", "claim"}
    /\ t.step \in {"select", "insertPage"} => ~Exists(t.loaded)
    /\ t.locks => Writer(t) /\ t.step \in {"nextNo", "byNo", "flushRevision",
                                           "setCurrent", "delete", "commit"}
    /\ Writer(t) /\ t.step \in {"delete", "commit"} => t.locks
    /\ t.locks /\ Exists(t.loaded) /\ t.step \notin {"delete", "commit"} => Changes(t)
    /\ Past(t) => (Exists(t.loaded) /\ Exists(page[t.slug])) \/ Creates(t)

(* The revision number that t works with, against those there are.         *)
Numbering(t) ==
    /\ Writer(t) /\ t.step \in {"byNo", "flushRevision", "setCurrent", "delete", "commit"} =>
          t.no # 0 /\ (t.no = 1 \/ t.no - 1 \in Numbers(t.slug))
    /\ Writer(t) /\ t.step \in {"flushRevision", "setCurrent", "delete", "commit"} /\ t.found =>
          t.no \in Numbers(t.slug)
    /\ Writer(t) /\ t.step \in {"setCurrent", "delete", "commit"} /\ ~t.found =>
          t.no \notin Numbers(t.slug)
    /\ ~Writer(t) /\ t.op # "rebuild" /\ t.step \in {"findBroken", "delete", "commit"} =>
          t.no \in Numbers(t.slug)
    /\ Writer(t) /\ t.step = "done" => t.no \in Numbers(t.slug)

(* No publish_page or rebuild_links_from_markdown of the page committed.   *)
Clean(s) == \A r \in Requests : At(r, "done") /\ tx[r].slug = s => tx[r].op \notin {"publish", "rebuild"}

(* What t has read, and what of it still holds. *)
Reading(t) ==
    /\ t.text # Unset => Spent(tx[t.text])
    /\ t.op = "validate" /\ t.step \in {"findBroken", "delete", "commit"} =>
          /\ t.text # Unset
          /\ \A v \in revisions : v.slug = t.slug /\ v.no = t.no /\ v.text = t.text => v.links = t.links
    /\ t.op = "validate" /\ t.step \in {"delete", "commit"} =>
          /\ t.slug \notin t.broken
          /\ \A s \in t.links : ~Exists(page[s]) => s \in t.broken
    /\ t.op # "validate" => \A l \in t.seen : l.slug = t.slug
    /\ Writer(t) /\ t.step = "commit" /\ Clean(t.slug) => LinksOf(t.slug) \subseteq t.seen

(* The locks of two transactions on one page. *)
Apart(t, u) ==
    t.slug = u.slug =>
        /\ ~(t.locks /\ u.locks)
        /\ Writer(t) /\ Writer(u) /\ t.step \in {"setCurrent", "delete", "commit"}
              /\ u.step \in {"setCurrent", "delete", "commit"} => t.no # u.no

(* The tables. *)
Tables ==
    /\ page \in [Slugs -> Pages]
    /\ revisions \subseteq Revisions
    /\ links \subseteq Links
    /\ claims \subseteq Claims
    /\ results \subseteq Results

Numbered ==
    /\ \A s \in Slugs : \E n \in Nat : Numbers(s) = 1..n
    /\ \A v, w \in revisions : v.slug = w.slug /\ v.no = w.no => v = w

CommittedTexts ==
    /\ \A v \in revisions : Spent(tx[v.text])
    /\ \A f \in results : Spent(tx[f.text])

LinksCurrent ==
    \A s \in Slugs : Clean(s) =>
        {l.text : l \in LinksOf(s)}
            = {v.text : v \in {w \in revisions : w.slug = s /\ w.no = page[s].current}}

Stored == /\ Tables /\ Numbered /\ PagesHaveCurrentRevision
          /\ CommittedTexts /\ BrokenLinksReported /\ LinksCurrent

IInv ==
    /\ tx \in [Requests -> Transactions]
    /\ Stored
    /\ \A r \in Requests : Course(tx[r]) /\ Numbering(tx[r]) /\ Reading(tx[r])
    /\ \A r, q \in Requests : r # q => Apart(tx[r], tx[q])

LEMMA InitInv == Init => IInv
<1> SUFFICES ASSUME Init PROVE IInv
  OBVIOUS
<1> USE DEF Init
<1>0. /\ Idle("new") \in Transactions /\ Idle("new").step = "new" /\ ~Idle("new").locks
      /\ Idle("new").text = Unset /\ Idle("new").op = Unset /\ Idle("new").seen = {}
  BY DEF Idle, Transactions, Steps, Pages, NoPage
<1>1. tx \in [Requests -> Transactions] /\ \A r \in Requests : tx[r] = Idle("new")
  BY <1>0
<1>2. Stored
  <2>1. Tables  BY DEF Tables, Pages, NoPage
  <2>2. \A s \in Slugs : ~Exists(page[s])  BY DEF Exists, NoPage
  <2>3. Numbered
    <3>1. \A s : Numbers(s) = {}  BY DEF Numbers
    <3>2. {} = 1..0 /\ 0 \in Nat
      OBVIOUS
    <3> QED  BY <3>1, <3>2 DEF Numbered
  <2> QED
    BY <2>1, <2>2, <2>3 DEF Stored, PagesHaveCurrentRevision, CommittedTexts,
       BrokenLinksReported, LinksCurrent, LinksOf
<1>3. \A r \in Requests : Course(tx[r])
  BY <1>0, <1>1 DEF Course, Ended, Past
<1>4. \A r \in Requests : Numbering(tx[r])
  BY <1>0, <1>1 DEF Numbering
<1>5. \A r \in Requests : Reading(tx[r])
  BY <1>0, <1>1 DEF Reading
<1>6. \A r, q \in Requests : r # q => Apart(tx[r], tx[q])
  BY <1>0, <1>1 DEF Apart
<1> QED  BY <1>1, <1>2, <1>3, <1>4, <1>5, <1>6 DEF IInv

(* A statement that writes nothing to the tables yet.                      *)
LEMMA MoveEffect ==
    ASSUME IInv, NEW r \in Requests, NEW state \in Transactions, Moves(r, state)
    PROVE  /\ tx' \in [Requests -> Transactions] /\ tx'[r] = state
           /\ \A q \in Requests \ {r} : tx'[q] = tx[q]
           /\ UNCHANGED <<page, revisions, links, claims, results>>
BY DEF Moves, tables, IInv

LEMMA StoredFrame ==
    ASSUME Stored, UNCHANGED <<page, revisions, links, claims, results>>,
           \A q \in Requests : Spent(tx[q]) => Spent(tx'[q]),
           \A s : Clean(s)' <=> Clean(s)
    PROVE  Stored'
<1>1. \A s : Numbers(s)' = Numbers(s) /\ LinksOf(s)' = LinksOf(s)  BY DEF Numbers, LinksOf
<1>2. \A q \in Requests : Spent(tx[q]) => Spent(tx[q])'  BY DEF Spent
<1>3. Tables' /\ Numbered' /\ PagesHaveCurrentRevision' /\ BrokenLinksReported'
  BY <1>1 DEF Stored, Tables, Numbered, PagesHaveCurrentRevision, BrokenLinksReported
<1>4. CommittedTexts'  BY <1>2 DEF Stored, CommittedTexts, Tables, Revisions, Results
<1>5. LinksCurrent'  BY <1>1 DEF Stored, LinksCurrent
<1> QED  BY <1>3, <1>4, <1>5 DEF Stored

LEMMA MoveInv ==
    ASSUME IInv, NEW r \in Requests,
           tx' \in [Requests -> Transactions],
           \A q \in Requests \ {r} : tx'[q] = tx[q],
           UNCHANGED <<page, revisions, links, claims, results>>,
           tx[r].step # "done" \/ tx[r].op \notin {"publish", "rebuild"},
           tx'[r].step # "done", Spent(tx[r]) => Spent(tx'[r]),
           Course(tx'[r]), Numbering(tx'[r]), Reading(tx'[r]),
           \A q \in Requests \ {r} : Apart(tx'[r], tx[q])
    PROVE  IInv'
<1>1. \A q \in Requests : Spent(tx[q]) => Spent(tx'[q])
  OBVIOUS
<1>2. \A s : Clean(s)' <=> Clean(s)
  <2> SUFFICES ASSUME NEW s PROVE Clean(s)' <=> Clean(s)
    OBVIOUS
  <2>1. \A q \in Requests \ {r} : tx'[q] = tx[q]
    OBVIOUS
  <2>2. ASSUME Clean(s) PROVE Clean(s)'
    BY <2>1, <2>2 DEF Clean, At
  <2>3. ASSUME Clean(s)' PROVE Clean(s)
    BY <2>1, <2>3 DEF Clean, At
  <2> QED  BY <2>2, <2>3
<1>3. \A s : Numbers(s)' = Numbers(s) /\ LinksOf(s)' = LinksOf(s)  BY DEF Numbers, LinksOf
<1>4. Stored'  BY <1>1, <1>2, StoredFrame DEF IInv
<1>5. \A q \in Requests : Course(tx'[q]) /\ Numbering(tx'[q]) /\ Reading(tx'[q])
  BY DEF IInv
<1>6. ASSUME NEW q \in Requests PROVE Course(tx[q])'
  BY <1>5 DEF Course, Past, Creates, Changes, Writer, Ended
<1>7. ASSUME NEW q \in Requests PROVE Numbering(tx[q])'
  BY <1>3, <1>5 DEF Numbering, Writer
<1>8. ASSUME NEW q \in Requests PROVE Reading(tx[q])'
  <2>1. tx'[q].text # Unset => tx'[q].text \in Requests
    BY DEF Transactions
  <2>2. tx'[q].text # Unset => Spent(tx[tx[q].text])'
    BY <1>1, <1>5, <2>1 DEF Reading, Spent
  <2> QED  BY <1>2, <1>3, <1>5, <2>2 DEF Reading, Writer
<1>9. ASSUME NEW q \in Requests, NEW p \in Requests, q # p PROVE Apart(tx[q], tx[p])'
  <2>1. Apart(tx'[q], tx'[p])
    BY <1>9 DEF IInv, Apart
  <2> QED  BY <2>1 DEF Apart, Writer
<1> QED  BY <1>4, <1>6, <1>7, <1>8, <1>9 DEF IInv

(* The transactions that wait, and what they wait for. *)
LEMMA Waiting ==
    ASSUME NEW r \in Requests
    PROVE  /\ At(r, "insertPage") \/ At(r, "setCurrent") => WaitsFor(r) = PageLockHolders(r)
           /\ At(r, "nextNo") /\ Dirty(r) => WaitsFor(r) = PageLockHolders(r)
           /\ At(r, "flushRevision") => WaitsFor(r) = RevisionHolders(r)
           /\ WaitsFor(r) # {} =>
                 \/ At(r, "insertPage")
                 \/ At(r, "setCurrent")
                 \/ At(r, "flushRevision")
                 \/ At(r, "nextNo") /\ Dirty(r)
                 \/ At(r, "commit") /\ tx[r].op = "publish"
<1>1. /\ At(r, "setCurrent") => ~At(r, "insertPage") /\ ~At(r, "nextNo") /\ ~At(r, "commit")
      /\ At(r, "nextNo") => ~At(r, "insertPage") /\ ~At(r, "setCurrent") /\ ~At(r, "commit")
                            /\ ~At(r, "flushRevision")
      /\ At(r, "flushRevision") => ~At(r, "insertPage") /\ ~At(r, "setCurrent")
                                   /\ ~At(r, "nextNo") /\ ~At(r, "commit")
      /\ At(r, "insertPage") => ~At(r, "nextNo") /\ ~At(r, "commit") /\ ~At(r, "flushRevision")
  BY DEF At
<1>2. CASE At(r, "insertPage") \/ At(r, "setCurrent")
  BY <1>1, <1>2, Zenon DEF WaitsFor
<1>3. CASE At(r, "nextNo") /\ Dirty(r)
  BY <1>1, <1>3, Zenon DEF WaitsFor
<1>4. CASE At(r, "flushRevision")
  BY <1>1, <1>4, Zenon DEF WaitsFor
<1>5. CASE ~(At(r, "insertPage") \/ At(r, "setCurrent")) /\ ~(At(r, "nextNo") /\ Dirty(r))
           /\ ~At(r, "flushRevision")
  BY <1>5, Zenon DEF WaitsFor
<1> QED  BY <1>2, <1>3, <1>4, <1>5

LEMMA IdleEnds ==
    /\ Idle("error") \in Transactions /\ Idle("error").step = "error"
    /\ ~Idle("error").locks /\ Idle("error").text = Unset /\ Idle("error").op = Unset
    /\ Idle("error").seen = {}
BY DEF Idle, Transactions, Steps, Pages, NoPage

LEMMA RaisesInv ==
    ASSUME IInv, NEW r \in Requests, Raises(r),
           tx[r].step # "done" \/ tx[r].op \notin {"publish", "rebuild"}
    PROVE  IInv'
<1>1. /\ tx' \in [Requests -> Transactions] /\ tx'[r] = Idle("error")
      /\ \A q \in Requests \ {r} : tx'[q] = tx[q]
      /\ UNCHANGED <<page, revisions, links, claims, results>>
  BY IdleEnds, MoveEffect DEF Raises
<1>2. Course(tx'[r]) /\ Numbering(tx'[r]) /\ Reading(tx'[r])
  BY <1>1, IdleEnds DEF Course, Ended, Past, Numbering, Reading, Writer
<1>3. \A q \in Requests \ {r} : Apart(tx'[r], tx[q])
  BY <1>1, IdleEnds DEF Apart, Writer
<1> QED  BY <1>1, <1>2, <1>3, IdleEnds, MoveInv DEF Spent

(* A caller that goes on after a call does so with claims. *)
LEMMA BeginInv ==
    ASSUME IInv, NEW r \in Requests, NEW call, NEW item \in Nat, Begin(r, call, item),
           call.op \in Workflows, call.slug \in Slugs, call.title \in Titles \cup {Unset},
           call.status \in {"draft", "published", Unset}, call.links \in SUBSET Slugs,
           call.op = "write" => call.title # Unset,
           \/ tx[r].step = "new"
           \/ tx[r].step = "done" /\ tx[r].op \notin {"publish", "rebuild"} /\ call.op = "claim"
    PROVE  IInv'
<1> DEFINE state == [Idle("select") EXCEPT
              !.op = call.op, !.slug = call.slug, !.title = call.title,
              !.status = call.status, !.links = call.links, !.item = item]
<1>1. /\ state \in Transactions /\ state.step = "select" /\ ~state.locks
      /\ state.op = call.op /\ state.slug = call.slug /\ state.title = call.title
      /\ state.text = Unset /\ state.seen = {} /\ state.loaded = NoPage
  BY DEF Idle, Transactions, Steps, Pages, NoPage, Workflows
<1>2. Moves(r, state)
  BY DEF Begin
<1> HIDE DEF state
<1>3. /\ tx' \in [Requests -> Transactions] /\ tx'[r] = state
      /\ \A q \in Requests \ {r} : tx'[q] = tx[q]
      /\ UNCHANGED <<page, revisions, links, claims, results>>
  BY <1>1, <1>2, MoveEffect
<1>4. ~Exists(NoPage)  BY DEF Exists, NoPage
<1>5. Course(state)
  BY <1>1, <1>4 DEF Course, Ended, Past
<1>6. Numbering(state) /\ Reading(state)
  BY <1>1 DEF Numbering, Reading, Writer
<1>7. \A q \in Requests \ {r} : Apart(state, tx[q])
  BY <1>1 DEF Apart, Writer
<1>8. Spent(tx[r]) => Spent(state)
  BY <1>1 DEF Spent
<1> QED  BY <1>1, <1>3, <1>5, <1>6, <1>7, <1>8, MoveInv

LEMMA CallInv ==
    ASSUME IInv, NEW r \in Requests, Call(r)
    PROVE  IInv'
<1>1. PICK call \in Calls : Begin(r, call, 1)
  BY DEF Call
<1> QED  BY <1>1, BeginInv DEF Call, At

(* A statement of r that only moves it on. *)
LEMMA GotoEffect ==
    ASSUME NEW t \in Transactions, NEW step \in Steps
    PROVE  LET state == [t EXCEPT !.step = step] IN
           /\ state \in Transactions /\ state.step = step
           /\ state.op = t.op /\ state.slug = t.slug /\ state.title = t.title
           /\ state.status = t.status /\ state.links = t.links /\ state.loaded = t.loaded
           /\ state.no = t.no /\ state.found = t.found /\ state.locks = t.locks
           /\ state.text = t.text /\ state.broken = t.broken /\ state.seen = t.seen
BY DEF Transactions

LEMMA SelectInv ==
    ASSUME IInv, NEW r \in Requests, SelectPage(r)
    PROVE  IInv'
<1> DEFINE t == tx[r]
           found == page[tx[r].slug]
<1>1. t.step = "select" /\ t \in Transactions  BY DEF SelectPage, At, IInv
<1>2. t.op \in Workflows /\ t.slug \in Slugs /\ ~t.locks /\ (t.op = "write" => t.title # Unset)
      /\ ~Exists(t.loaded)
  BY <1>1 DEF IInv, Course, Ended
<1>3. found \in Pages  BY <1>2 DEF IInv, Stored, Tables
<1>4. Reading(t)  BY DEF IInv
<1>5. CASE Exists(found) /\ Moves(r, [t EXCEPT !.loaded = found, !.step = AfterSelect(t.op)])
  <2> DEFINE state == [t EXCEPT !.loaded = found, !.step = AfterSelect(t.op)]
  <2>1. /\ AfterSelect(t.op) \in {"nextNo", "delete", "resolve"}
        /\ AfterSelect(t.op) = "nextNo" <=> Writer(t)
        /\ AfterSelect(t.op) = "delete" <=> t.op = "rebuild"
    BY <1>2 DEF AfterSelect, Writer, Workflows
  <2> HIDE DEF found
  <2>2. /\ state \in Transactions /\ state.step = AfterSelect(t.op) /\ state.loaded = found
        /\ state.op = t.op /\ state.slug = t.slug /\ state.title = t.title
        /\ state.status = t.status /\ state.links = t.links
        /\ state.no = t.no /\ state.found = t.found /\ state.locks = t.locks
        /\ state.text = t.text /\ state.broken = t.broken /\ state.seen = t.seen
    BY <1>1, <1>3, <2>1 DEF Transactions, Steps
  <2>3. Moves(r, state)  BY <1>5
  <2> HIDE DEF state, t
  <2>4. /\ tx' \in [Requests -> Transactions] /\ tx'[r] = state
        /\ \A q \in Requests \ {r} : tx'[q] = tx[q]
        /\ UNCHANGED <<page, revisions, links, claims, results>>
    BY <2>2, <2>3, MoveEffect
  <2>5. Course(state)
    BY <1>2, <1>5, <2>1, <2>2 DEF Course, Ended, Past, Writer, Workflows, found, t
  <2>6. Numbering(state)  BY <2>1, <2>2 DEF Numbering, Writer
  <2>7. Reading(state)  BY <1>4, <2>1, <2>2 DEF Reading, Writer
  <2>8. \A q \in Requests \ {r} : Apart(state, tx[q])
    BY <1>2, <2>1, <2>2 DEF Apart, Writer
  <2> QED  BY <1>1, <2>1, <2>2, <2>4, <2>5, <2>6, <2>7, <2>8, MoveInv DEF t, Spent
<1>6. CASE ~Exists(found) /\ t.op = "write" /\ Goto(r, "insertPage")
  <2> DEFINE state == [t EXCEPT !.step = "insertPage"]
  <2>1. /\ state \in Transactions /\ state.step = "insertPage"
        /\ state.op = t.op /\ state.slug = t.slug /\ state.title = t.title
        /\ state.status = t.status /\ state.links = t.links /\ state.loaded = t.loaded
        /\ state.locks = t.locks /\ state.text = t.text /\ state.seen = t.seen
    <3>1. "insertPage" \in Steps  BY DEF Steps
    <3> QED  BY <1>1, <3>1, GotoEffect
  <2>2. Moves(r, state)  BY <1>6 DEF Goto
  <2> HIDE DEF state, t
  <2>3. /\ tx' \in [Requests -> Transactions] /\ tx'[r] = state
        /\ \A q \in Requests \ {r} : tx'[q] = tx[q]
        /\ UNCHANGED <<page, revisions, links, claims, results>>
    BY <2>1, <2>2, MoveEffect
  <2>4. Course(state)  BY <1>2, <1>6, <2>1 DEF Course, Ended, Past, Writer
  <2>5. Numbering(state) /\ Reading(state)
    BY <1>4, <1>6, <2>1 DEF Numbering, Reading, Writer
  <2>6. \A q \in Requests \ {r} : Apart(state, tx[q])  BY <1>2, <2>1 DEF Apart, Writer
  <2> QED  BY <1>1, <2>1, <2>3, <2>4, <2>5, <2>6, MoveInv DEF t, Spent
<1>7. CASE Raises(r)  BY <1>1, <1>7, RaisesInv
<1> QED  BY <1>5, <1>6, <1>7 DEF SelectPage

LEMMA CreateInv ==
    ASSUME IInv, NEW r \in Requests, CreatePage(r)
    PROVE  IInv'
<1> DEFINE t == tx[r]
           state == [tx[r] EXCEPT !.locks = TRUE, !.step = "nextNo"]
<1>1. t.step = "insertPage" /\ t \in Transactions /\ PageLockHolders(r) = {}
  BY Waiting DEF CreatePage, Runs, At, IInv
<1>2. /\ t.op = "write" /\ t.slug \in Slugs /\ t.title # Unset /\ ~Exists(t.loaded)
  BY <1>1 DEF IInv, Course, Ended
<1>3. CASE Exists(page[t.slug]) /\ Raises(r)  BY <1>1, <1>3, RaisesInv
<1>4. CASE ~Exists(page[t.slug]) /\ Moves(r, state)
  <2>1. /\ state \in Transactions /\ state.step = "nextNo" /\ state.locks
        /\ state.op = t.op /\ state.slug = t.slug /\ state.title = t.title
        /\ state.loaded = t.loaded /\ state.text = t.text /\ state.seen = t.seen
    BY <1>1 DEF Transactions, Steps
  <2>2. Reading(t)  BY DEF IInv
  <2>3. \A q \in Requests \ {r} : tx[q].slug = t.slug => ~tx[q].locks
    BY <1>1 DEF PageLockHolders, SameSlug
  <2> HIDE DEF state, t
  <2>4. /\ tx' \in [Requests -> Transactions] /\ tx'[r] = state
        /\ \A q \in Requests \ {r} : tx'[q] = tx[q]
        /\ UNCHANGED <<page, revisions, links, claims, results>>
    BY <1>4, <2>1, MoveEffect
  <2>5. Course(state)  BY <1>2, <1>4, <2>1 DEF Course, Ended, Past, Writer, Creates, Workflows
  <2>6. Numbering(state) /\ Reading(state)
    BY <1>2, <2>1, <2>2 DEF Numbering, Reading, Writer
  <2>7. \A q \in Requests \ {r} : Apart(state, tx[q])  BY <2>1, <2>3 DEF Apart
  <2> QED  BY <1>1, <2>1, <2>4, <2>5, <2>6, <2>7, MoveInv DEF t, Spent
<1> QED  BY <1>3, <1>4 DEF CreatePage

LEMMA LastNumber ==
    ASSUME IInv, NEW s \in Slugs
    PROVE  \E n \in Nat : Numbers(s) = 1..n /\ LastNo(s) = n
<1>1. PICK n \in Nat : Numbers(s) = 1..n  BY DEF IInv, Stored, Numbered
<1>2. n \in Numbers(s) \cup {0} /\ \A m \in Numbers(s) : m <= n
  BY <1>1
<1>3. LastNo(s) \in Numbers(s) \cup {0} /\ \A m \in Numbers(s) : m <= LastNo(s)
  BY <1>2 DEF LastNo
<1>4. LastNo(s) = n
  BY <1>1, <1>3
<1> QED  BY <1>1, <1>4

(* The flush before a SELECT updates the page only for a write that        *)
(* changes it.                                                             *)
LEMMA DirtyChanges ==
    ASSUME IInv, NEW r \in Requests, Writer(tx[r]), Dirty(r)
    PROVE  Exists(tx[r].loaded) /\ Changes(tx[r])
<1>1. tx[r] \in Transactions /\ tx[r].loaded \in Pages  BY DEF IInv, Transactions
<1>2. Exists(tx[r].loaded) /\ Assigned(r) # tx[r].loaded  BY DEF Dirty
<1>3. tx[r].op = "write"
  <2>1. tx[r].op = "revise" => Assigned(r) = tx[r].loaded  BY DEF Assigned
  <2> QED  BY <1>2, <2>1 DEF Writer
<1>4. Assigned(r) = [tx[r].loaded EXCEPT !.title = tx[r].title,
                         !.status = IF tx[r].status = Unset THEN @ ELSE tx[r].status]
  BY <1>3 DEF Assigned
<1>5. ASSUME tx[r].title = tx[r].loaded.title,
             tx[r].status = Unset \/ tx[r].status = tx[r].loaded.status
      PROVE  Assigned(r) = tx[r].loaded
  <2> DEFINE p == tx[r].loaded
  <2>1. [p EXCEPT !.title = p.title, !.status = p.status] = p
    BY <1>1 DEF Pages
  <2>2. [p EXCEPT !.title = tx[r].title, !.status = IF tx[r].status = Unset THEN @ ELSE tx[r].status]
           = [p EXCEPT !.title = p.title, !.status = p.status]
    BY <1>5
  <2> QED  BY <1>4, <2>1, <2>2
<1> QED  BY <1>2, <1>3, <1>5 DEF Changes

(* The effect of get_revision_by_no on its transaction. *)
LEMMA FoundEffect ==
    ASSUME NEW t \in Transactions, NEW found \in BOOLEAN
    PROVE  LET state == [t EXCEPT !.found = found, !.step = "flushRevision"] IN
           /\ state \in Transactions /\ state.step = "flushRevision"
           /\ state.op = t.op /\ state.slug = t.slug /\ state.title = t.title /\ state.no = t.no
           /\ state.status = t.status /\ state.loaded = t.loaded /\ state.locks = t.locks
           /\ state.text = t.text /\ state.seen = t.seen
BY DEF Transactions, Steps

LEMMA NextNoInv ==
    ASSUME IInv, NEW r \in Requests, NextRevisionNo(r)
    PROVE  IInv'
<1> DEFINE t == tx[r]
           state == [tx[r] EXCEPT !.no = LastNo(tx[r].slug) + 1,
                                  !.locks = (tx[r].locks \/ Dirty(r)), !.step = "byNo"]
<1>1. t.step = "nextNo" /\ t \in Transactions /\ Moves(r, state) /\ WaitsFor(r) = {}
  BY DEF NextRevisionNo, Runs, At, IInv
<1>2. /\ Writer(t) /\ t.op \in Workflows /\ t.slug \in Slugs /\ (t.op = "write" => t.title # Unset)
      /\ (Exists(t.loaded) /\ Exists(page[t.slug])) \/ Creates(t)
      /\ t.locks /\ Exists(t.loaded) => Changes(t)
  BY <1>1 DEF IInv, Course, Ended, Past
<1>3. PICK n \in Nat : Numbers(t.slug) = 1..n /\ LastNo(t.slug) = n
  BY <1>2, LastNumber
<1>4. Dirty(r) => Exists(t.loaded) /\ Changes(t)
  BY <1>2, DirtyChanges
<1>5. Dirty(r) => \A q \in Requests \ {r} : tx[q].slug = t.slug => ~tx[q].locks
  BY <1>1, Waiting DEF PageLockHolders, SameSlug, At
<1>6. Dirty(r) \in BOOLEAN  BY DEF Dirty
<1>7. /\ state \in Transactions /\ state.step = "byNo" /\ state.no = n + 1
      /\ state.op = t.op /\ state.slug = t.slug /\ state.title = t.title
      /\ state.status = t.status /\ state.loaded = t.loaded
      /\ state.text = t.text /\ state.seen = t.seen
  <2>1. PICK m \in Nat : m = LastNo(t.slug) + 1 /\ m = n + 1
    BY <1>3
  <2> DEFINE b == tx[r].locks \/ Dirty(r)
  <2>2. b \in BOOLEAN
    OBVIOUS
  <2>3. state = [t EXCEPT !.no = m, !.locks = b, !.step = "byNo"]
    BY <2>1
  <2> HIDE DEF b, t, state
  <2>4. t \in Transactions /\ m = n + 1
    BY <1>1, <2>1
  <2> QED  BY <2>2, <2>3, <2>4 DEF Transactions, Steps
<1>8. state.locks <=> t.locks \/ Dirty(r)
  BY <1>1 DEF Transactions
<1>9. Reading(t) /\ \A q \in Requests \ {r} : Apart(t, tx[q])
  BY DEF IInv
<1> HIDE DEF state, t
<1>10. /\ tx' \in [Requests -> Transactions] /\ tx'[r] = state
       /\ \A q \in Requests \ {r} : tx'[q] = tx[q]
       /\ UNCHANGED <<page, revisions, links, claims, results>>
  BY <1>1, <1>7, MoveEffect
<1>11. Course(state)
  <2>1. state.locks /\ Exists(state.loaded) => Changes(state)
    BY <1>2, <1>4, <1>7, <1>8 DEF Changes
  <2>2. (Exists(state.loaded) /\ Exists(page[state.slug])) \/ Creates(state)
    BY <1>2, <1>7, <1>8 DEF Creates
  <2>3. Writer(state)  BY <1>2, <1>7 DEF Writer
  <2> QED  BY <1>2, <1>7, <2>1, <2>2, <2>3 DEF Course, Ended
<1>12. Numbering(state)
  <2>1. state.no # 0 /\ (state.no = 1 \/ state.no - 1 \in Numbers(state.slug))
    BY <1>3, <1>7
  <2> QED  BY <1>7, <2>1 DEF Numbering
<1>13. Reading(state)  BY <1>2, <1>7, <1>9 DEF Reading, Writer
<1>14. \A q \in Requests \ {r} : Apart(state, tx[q])
  BY <1>5, <1>7, <1>8, <1>9 DEF Apart
<1> QED  BY <1>1, <1>7, <1>10, <1>11, <1>12, <1>13, <1>14, MoveInv DEF t, Spent

LEMMA ByNoInv ==
    ASSUME IInv, NEW r \in Requests, GetRevisionByNo(r)
    PROVE  IInv'
<1> DEFINE t == tx[r]
           state == [tx[r] EXCEPT !.found = tx[r].no \in Numbers(tx[r].slug),
                                  !.step = "flushRevision"]
<1>1. t.step = "byNo" /\ t \in Transactions /\ Moves(r, state)
  BY DEF GetRevisionByNo, At, IInv
<1>2. /\ state \in Transactions /\ state.step = "flushRevision"
      /\ state.op = t.op /\ state.slug = t.slug /\ state.title = t.title /\ state.no = t.no
      /\ state.status = t.status /\ state.loaded = t.loaded /\ state.locks = t.locks
      /\ state.text = t.text /\ state.seen = t.seen
  BY <1>1, (t.no \in Numbers(t.slug)) \in BOOLEAN, FoundEffect
<1>3. state.found <=> t.no \in Numbers(t.slug)
  BY <1>1 DEF Transactions
<1>4. Course(t) /\ Numbering(t) /\ Reading(t) /\ \A q \in Requests \ {r} : Apart(t, tx[q])
  BY DEF IInv
<1> HIDE DEF state, t
<1>5. /\ tx' \in [Requests -> Transactions] /\ tx'[r] = state
      /\ \A q \in Requests \ {r} : tx'[q] = tx[q]
      /\ UNCHANGED <<page, revisions, links, claims, results>>
  BY <1>1, <1>2, MoveEffect
<1>6. Course(state)
  BY <1>1, <1>2, <1>4 DEF Course, Ended, Past, Writer, Creates, Changes
<1>7. Numbering(state)  BY <1>1, <1>2, <1>3, <1>4 DEF Numbering, Writer, Course
<1>8. Reading(state)  BY <1>1, <1>2, <1>4 DEF Reading, Writer, Course
<1>9. \A q \in Requests \ {r} : Apart(state, tx[q])
  BY <1>1, <1>2, <1>4 DEF Apart
<1> QED  BY <1>1, <1>2, <1>5, <1>6, <1>7, <1>8, <1>9, MoveInv DEF t, Spent

LEMMA FlushInv ==
    ASSUME IInv, NEW r \in Requests, FlushRevision(r)
    PROVE  IInv'
<1> DEFINE t == tx[r]
           state == [tx[r] EXCEPT !.step = "setCurrent"]
<1>1. t.step = "flushRevision" /\ t \in Transactions /\ RevisionHolders(r) = {}
  BY Waiting DEF FlushRevision, Runs, At, IInv
<1>2. CASE ~t.found /\ t.no \in Numbers(t.slug)
  BY <1>1, <1>2, RaisesInv DEF FlushRevision
<1>3. CASE ~(~t.found /\ t.no \in Numbers(t.slug))
  <2>1. Moves(r, state)  BY <1>3 DEF FlushRevision, Goto
  <2>2. /\ state \in Transactions /\ state.step = "setCurrent"
        /\ state.op = t.op /\ state.slug = t.slug /\ state.title = t.title
        /\ state.status = t.status /\ state.links = t.links /\ state.loaded = t.loaded
        /\ state.no = t.no /\ state.found = t.found /\ state.locks = t.locks
        /\ state.text = t.text /\ state.broken = t.broken /\ state.seen = t.seen
    <3>1. "setCurrent" \in Steps  BY DEF Steps
    <3> QED  BY <1>1, <3>1, GotoEffect
  <2>3. Course(t) /\ Numbering(t) /\ Reading(t) /\ \A q \in Requests \ {r} : Apart(t, tx[q])
    BY DEF IInv
  <2>4. \A q \in Requests \ {r} : tx[q].slug = t.slug /\ Writer(tx[q])
             /\ tx[q].step \in {"setCurrent", "delete", "commit"} => tx[q].no # t.no
    BY <1>1 DEF RevisionHolders, RevisionFlushed, SameSlug, Writer
  <2> HIDE DEF state, t
  <2>5. /\ tx' \in [Requests -> Transactions] /\ tx'[r] = state
        /\ \A q \in Requests \ {r} : tx'[q] = tx[q]
        /\ UNCHANGED <<page, revisions, links, claims, results>>
    BY <2>1, <2>2, MoveEffect
  <2>6. Course(state)
    BY <1>1, <2>2, <2>3 DEF Course, Ended, Past, Writer, Creates, Changes
  <2>7. Numbering(state)  BY <1>1, <1>3, <2>2, <2>3 DEF Numbering, Writer, Course
  <2>8. Reading(state)  BY <1>1, <2>2, <2>3 DEF Reading, Writer, Course
  <2>9. \A q \in Requests \ {r} : Apart(state, tx[q])
    BY <1>1, <2>2, <2>3, <2>4 DEF Apart
  <2> QED  BY <1>1, <2>2, <2>5, <2>6, <2>7, <2>8, <2>9, MoveInv DEF t, Spent
<1> QED  BY <1>2, <1>3

LEMMA SetCurrentInv ==
    ASSUME IInv, NEW r \in Requests, SetCurrent(r)
    PROVE  IInv'
<1> DEFINE t == tx[r]
           state == [tx[r] EXCEPT !.locks = TRUE, !.step = "delete"]
<1>1. t.step = "setCurrent" /\ t \in Transactions /\ PageLockHolders(r) = {} /\ Moves(r, state)
  BY Waiting DEF SetCurrent, Runs, At, IInv
<1>2. /\ state \in Transactions /\ state.step = "delete" /\ state.locks
      /\ state.op = t.op /\ state.slug = t.slug /\ state.title = t.title
      /\ state.status = t.status /\ state.links = t.links /\ state.loaded = t.loaded
      /\ state.no = t.no /\ state.found = t.found
      /\ state.text = t.text /\ state.broken = t.broken /\ state.seen = t.seen
  BY <1>1 DEF Transactions, Steps
<1>3. Course(t) /\ Numbering(t) /\ Reading(t) /\ \A q \in Requests \ {r} : Apart(t, tx[q])
  BY DEF IInv
<1>4. \A q \in Requests \ {r} : tx[q].slug = t.slug => ~tx[q].locks
  BY <1>1 DEF PageLockHolders, SameSlug
<1> HIDE DEF state, t
<1>5. /\ tx' \in [Requests -> Transactions] /\ tx'[r] = state
      /\ \A q \in Requests \ {r} : tx'[q] = tx[q]
      /\ UNCHANGED <<page, revisions, links, claims, results>>
  BY <1>1, <1>2, MoveEffect
<1>6. Course(state)
  BY <1>1, <1>2, <1>3 DEF Course, Ended, Past, Writer, Creates, Changes
<1>7. Numbering(state)  BY <1>1, <1>2, <1>3 DEF Numbering, Writer, Course
<1>8. Reading(state)  BY <1>1, <1>2, <1>3 DEF Reading, Writer, Course
<1>9. \A q \in Requests \ {r} : Apart(state, tx[q])
  BY <1>1, <1>2, <1>3, <1>4 DEF Apart, Course
<1> QED  BY <1>1, <1>2, <1>5, <1>6, <1>7, <1>8, <1>9, MoveInv DEF t, Spent

LEMMA ResolveInv ==
    ASSUME IInv, NEW r \in Requests, ResolveRevision(r)
    PROVE  IInv'
<1> DEFINE t == tx[r]
<1>1. t.step = "resolve" /\ t \in Transactions
  BY DEF ResolveRevision, At, IInv
<1>2. Course(t) /\ Numbering(t) /\ Reading(t) /\ \A q \in Requests \ {r} : Apart(t, tx[q])
  BY DEF IInv
<1>3. /\ t.op \in {"publish", "claim", "validate"} /\ t.slug \in Slugs /\ ~t.locks
      /\ Exists(t.loaded) /\ Exists(page[t.slug])
  BY <1>1, <1>2 DEF Course, Past, Creates, Writer
<1>4. /\ page[t.slug].current \in Numbers(t.slug)
      /\ revisions \subseteq Revisions /\ \A v \in revisions : Spent(tx[v.text])
      /\ \A v, w \in revisions : v.slug = w.slug /\ v.no = w.no => v = w
  BY <1>3 DEF IInv, Stored, PagesHaveCurrentRevision, Tables, CommittedTexts, Numbered
<1>5. PICK no \in Numbers(t.slug) :
          IF t.op # "validate" THEN Moves(r, [t EXCEPT !.no = no, !.step = "commit"])
          ELSE \E rev \in revisions :
                  /\ rev.slug = t.slug /\ rev.no = no
                  /\ Moves(r, [t EXCEPT !.no = no, !.text = rev.text, !.links = rev.links,
                                        !.step = "findBroken"])
  BY <1>4 DEF ResolveRevision
<1>6. no \in Nat  BY <1>4 DEF Numbers, Revisions
<1>7. CASE t.op # "validate"
  <2> DEFINE state == [t EXCEPT !.no = no, !.step = "commit"]
  <2>1. Moves(r, state)  BY <1>5, <1>7
  <2>2. /\ state \in Transactions /\ state.step = "commit" /\ state.no = no
        /\ state.op = t.op /\ state.slug = t.slug /\ state.loaded = t.loaded
        /\ state.locks = t.locks /\ state.text = t.text /\ state.seen = t.seen
    BY <1>1, <1>6 DEF Transactions, Steps
  <2> HIDE DEF state, t
  <2>3. /\ tx' \in [Requests -> Transactions] /\ tx'[r] = state
        /\ \A q \in Requests \ {r} : tx'[q] = tx[q]
        /\ UNCHANGED <<page, revisions, links, claims, results>>
    BY <2>1, <2>2, MoveEffect
  <2>4. Course(state)  BY <1>3, <1>7, <2>2 DEF Course, Ended, Past, Writer, Workflows
  <2>5. Numbering(state)  BY <1>3, <1>7, <2>2 DEF Numbering, Writer
  <2>6. Reading(state)  BY <1>2, <1>3, <1>7, <2>2 DEF Reading, Writer
  <2>7. \A q \in Requests \ {r} : Apart(state, tx[q])
    BY <1>3, <2>2 DEF Apart, Writer
  <2> QED  BY <1>1, <2>2, <2>3, <2>4, <2>5, <2>6, <2>7, MoveInv DEF t, Spent
<1>8. CASE t.op = "validate"
  <2>1. PICK rev \in revisions :
            /\ rev.slug = t.slug /\ rev.no = no
            /\ Moves(r, [t EXCEPT !.no = no, !.text = rev.text, !.links = rev.links,
                                  !.step = "findBroken"])
    BY <1>5, <1>8
  <2>2. rev.text \in Requests /\ rev.links \in SUBSET Slugs /\ Spent(tx[rev.text])
    BY <1>4 DEF Revisions
  <2> DEFINE state == [t EXCEPT !.no = no, !.text = rev.text, !.links = rev.links,
                                !.step = "findBroken"]
  <2>3. /\ state \in Transactions /\ state.step = "findBroken" /\ state.no = no
        /\ state.op = t.op /\ state.slug = t.slug /\ state.loaded = t.loaded
        /\ state.locks = t.locks /\ state.text = rev.text /\ state.links = rev.links
    BY <1>1, <1>6, <2>2 DEF Transactions, Steps
  <2>4. Moves(r, state)  BY <2>1
  <2> HIDE DEF state, t
  <2>5. /\ tx' \in [Requests -> Transactions] /\ tx'[r] = state
        /\ \A q \in Requests \ {r} : tx'[q] = tx[q]
        /\ UNCHANGED <<page, revisions, links, claims, results>>
    BY <2>3, <2>4, MoveEffect
  <2>6. Course(state)  BY <1>3, <1>8, <2>3 DEF Course, Ended, Past, Writer, Workflows
  <2>7. Numbering(state)  BY <1>3, <1>8, <2>3 DEF Numbering, Writer
  <2>8. \A v \in revisions : v.slug = t.slug /\ v.no = no => v.links = rev.links
    BY <1>4, <2>1
  <2>9. Reading(state)  BY <1>8, <2>2, <2>3, <2>8 DEF Reading, Writer
  <2>10. \A q \in Requests \ {r} : Apart(state, tx[q])
    BY <1>3, <2>3 DEF Apart, Writer
  <2> QED  BY <1>1, <2>3, <2>5, <2>6, <2>7, <2>9, <2>10, MoveInv DEF t, Spent
<1> QED  BY <1>7, <1>8

LEMMA FindBrokenInv ==
    ASSUME IInv, NEW r \in Requests, FindBrokenLinks(r)
    PROVE  IInv'
<1> DEFINE t == tx[r]
           broken == {s \in t.links : ~Exists(page[s])}
           state == [t EXCEPT !.broken = broken, !.step = "delete"]
<1>1. t.step = "findBroken" /\ t \in Transactions /\ Moves(r, state)
  BY DEF FindBrokenLinks, At, IInv
<1>2. /\ broken \in SUBSET Slugs
      /\ \A s \in t.links : ~Exists(page[s]) => s \in broken
      /\ \A s \in broken : ~Exists(page[s])
  BY <1>1 DEF Transactions
<1>3. Course(t) /\ Numbering(t) /\ Reading(t)
  BY DEF IInv
<1>4. /\ t.op = "validate" /\ t.slug \in Slugs /\ ~t.locks
      /\ Exists(t.loaded) /\ Exists(page[t.slug])
  BY <1>1, <1>3 DEF Course, Past, Creates, Writer
<1> HIDE DEF broken
<1>5. /\ state \in Transactions /\ state.step = "delete" /\ state.broken = broken
      /\ state.op = t.op /\ state.slug = t.slug /\ state.loaded = t.loaded
      /\ state.no = t.no /\ state.locks = t.locks /\ state.text = t.text /\ state.links = t.links
  BY <1>1, <1>2 DEF Transactions, Steps
<1> HIDE DEF state, t
<1>6. /\ tx' \in [Requests -> Transactions] /\ tx'[r] = state
      /\ \A q \in Requests \ {r} : tx'[q] = tx[q]
      /\ UNCHANGED <<page, revisions, links, claims, results>>
  BY <1>1, <1>5, MoveEffect
<1>7. Course(state)  BY <1>4, <1>5 DEF Course, Ended, Past, Writer, Workflows
<1>8. Numbering(state)  BY <1>1, <1>3, <1>4, <1>5 DEF Numbering, Writer
<1>9. Reading(state)
  BY <1>1, <1>2, <1>3, <1>4, <1>5 DEF Reading, Writer
<1>10. \A q \in Requests \ {r} : Apart(state, tx[q])
  BY <1>4, <1>5 DEF Apart, Writer
<1> QED  BY <1>1, <1>5, <1>6, <1>7, <1>8, <1>9, <1>10, MoveInv DEF t, Spent

LEMMA DeleteInv ==
    ASSUME IInv, NEW r \in Requests, Delete(r)
    PROVE  IInv'
<1> DEFINE t == tx[r]
           seen == IF t.op = "validate" THEN ResultsOf(t.slug, t.no) ELSE LinksOf(t.slug)
           state == [t EXCEPT !.seen = seen, !.step = "commit"]
<1>1. t.step = "delete" /\ t \in Transactions /\ Moves(r, state)
  BY DEF Delete, At, IInv
<1>2. /\ seen \in SUBSET (Links \cup Results)
      /\ t.op # "validate" => seen = LinksOf(t.slug)
  BY DEF IInv, Stored, Tables, LinksOf, ResultsOf
<1>3. Course(t) /\ Numbering(t) /\ Reading(t) /\ \A q \in Requests \ {r} : Apart(t, tx[q])
  BY DEF IInv
<1>4. \A l \in LinksOf(t.slug) : l.slug = t.slug
  BY DEF LinksOf
<1> HIDE DEF seen
<1>5. /\ state \in Transactions /\ state.step = "commit" /\ state.seen = seen
      /\ state.op = t.op /\ state.slug = t.slug /\ state.loaded = t.loaded
      /\ state.title = t.title /\ state.status = t.status
      /\ state.found = t.found /\ state.broken = t.broken
      /\ state.no = t.no /\ state.locks = t.locks /\ state.text = t.text /\ state.links = t.links
  BY <1>1, <1>2 DEF Transactions, Steps
<1> HIDE DEF state, t
<1>6. /\ tx' \in [Requests -> Transactions] /\ tx'[r] = state
      /\ \A q \in Requests \ {r} : tx'[q] = tx[q]
      /\ UNCHANGED <<page, revisions, links, claims, results>>
  BY <1>1, <1>5, MoveEffect
<1>7. Course(state)
  BY <1>1, <1>3, <1>5 DEF Course, Ended, Past, Writer, Creates, Changes, Workflows
<1>8. Numbering(state)  BY <1>1, <1>3, <1>5 DEF Numbering, Writer
<1>9. Reading(state)
  BY <1>1, <1>2, <1>3, <1>4, <1>5 DEF Reading, Writer
<1>10. \A q \in Requests \ {r} : Apart(state, tx[q])
  BY <1>1, <1>3, <1>5 DEF Apart, Writer
<1> QED  BY <1>1, <1>5, <1>6, <1>7, <1>8, <1>9, <1>10, MoveInv DEF t, Spent

----------------------------------------------------------------------------
(* The commits. *)

LEMMA CommitEffect ==
    ASSUME IInv, NEW r \in Requests, Commits(r)
    PROVE  /\ tx[r].step = "commit" /\ tx[r] \in Transactions
           /\ Course(tx[r]) /\ Numbering(tx[r]) /\ Reading(tx[r])
           /\ tx' \in [Requests -> Transactions]
           /\ \A q \in Requests \ {r} : tx'[q] = tx[q]
           /\ tx'[r].step = "done" /\ tx'[r].op = tx[r].op /\ tx'[r].slug = tx[r].slug
           /\ tx'[r].no = tx[r].no /\ tx'[r].item = tx[r].item
           /\ ~tx'[r].locks /\ tx'[r].text = Unset /\ tx'[r].seen = {}
           /\ \A q \in Requests : Spent(tx[q]) => Spent(tx'[q])
           /\ Spent(tx'[r]) /\ (Writer(tx[r]) => ~Spent(tx[r]))
           /\ \A s : Clean(s)' => Clean(s)
           /\ tx[r].op \in {"publish", "rebuild"} => ~Clean(tx[r].slug)'
<1>1. /\ tx[r].step = "commit" /\ tx[r] \in Transactions
      /\ Course(tx[r]) /\ Numbering(tx[r]) /\ Reading(tx[r])
      /\ tx' = [tx EXCEPT ![r] = Returns(r)]
      /\ tx \in [Requests -> Transactions]
  BY DEF Commits, Runs, At, IInv
<1> DEFINE t == tx[r]
           u == Returns(r)
<1>2. /\ u \in Transactions /\ u.step = "done" /\ u.op = t.op /\ u.slug = t.slug
      /\ u.no = t.no /\ u.item = t.item
      /\ ~u.locks /\ u.text = Unset /\ u.seen = {}
  BY <1>1 DEF Returns, Idle, Transactions, Steps, Pages, NoPage
<1> HIDE DEF u
<1>3. /\ tx' \in [Requests -> Transactions] /\ tx'[r] = u
      /\ \A q \in Requests \ {r} : tx'[q] = tx[q]
  BY <1>1, <1>2 DEF u
<1>4. /\ \A q \in Requests : Spent(tx[q]) => Spent(tx'[q])
      /\ Spent(tx'[r]) /\ (Writer(tx[r]) => ~Spent(tx[r]))
  BY <1>1, <1>2, <1>3 DEF Spent, Writer
<1>5. \A s : Clean(s)' => Clean(s)
  BY <1>1, <1>3 DEF Clean, At
<1>6. t.op \in {"publish", "rebuild"} => ~Clean(t.slug)'
  BY <1>2, <1>3 DEF Clean, At
<1> QED  BY <1>1, <1>2, <1>3, <1>4, <1>5, <1>6

(* What a commit may do to the tables, for the other transactions not to   *)
(* notice.                                                                 *)
LEMMA CommitInv ==
    ASSUME IInv, NEW r \in Requests, Commits(r), Stored',
           \A s \in Slugs : Exists(page[s]) => Exists(page'[s]),
           \A s \in Slugs : Exists(page'[s]) /\ ~Exists(page[s]) =>
              tx[r].slug = s /\ tx[r].locks,
           \A s : Numbers(s) \subseteq Numbers(s)',
           \A s : \A no \in Numbers(s)' \ Numbers(s) :
              Writer(tx[r]) /\ tx[r].slug = s /\ tx[r].no = no,
           \A v \in revisions' : v \in revisions \/ (v.text = r /\ Writer(tx[r])),
           Writer(tx[r]) => tx[r].no \in Numbers(tx[r].slug)',
           \A s : LinksOf(s)' # LinksOf(s) =>
              tx[r].slug = s /\ (tx[r].locks \/ tx[r].op = "rebuild")
    PROVE  IInv'
<1>1. /\ tx[r].step = "commit" /\ tx[r] \in Transactions
      /\ Course(tx[r]) /\ Numbering(tx[r]) /\ Reading(tx[r])
      /\ tx' \in [Requests -> Transactions]
      /\ \A q \in Requests \ {r} : tx'[q] = tx[q]
      /\ tx'[r].step = "done" /\ tx'[r].op = tx[r].op /\ tx'[r].slug = tx[r].slug
      /\ tx'[r].no = tx[r].no
      /\ ~tx'[r].locks /\ tx'[r].text = Unset /\ tx'[r].seen = {}
      /\ \A q \in Requests : Spent(tx[q]) => Spent(tx'[q])
      /\ Spent(tx'[r]) /\ (Writer(tx[r]) => ~Spent(tx[r]))
      /\ \A s : Clean(s)' => Clean(s)
      /\ tx[r].op \in {"publish", "rebuild"} => ~Clean(tx[r].slug)'
  BY CommitEffect
<1>2. Course(tx[r])'
  BY <1>1 DEF Course, Ended, Past, Writer
<1>3. Numbering(tx[r])' /\ Reading(tx[r])'
  BY <1>1 DEF Numbering, Reading, Writer
<1>4. ASSUME NEW q \in Requests \ {r}
      PROVE  Course(tx[q])' /\ Numbering(tx[q])' /\ Reading(tx[q])'
  <2>1. PICK t : /\ t = tx[q] /\ t = tx'[q] /\ t \in Transactions
                 /\ Course(t) /\ Numbering(t) /\ Reading(t)
                 /\ Apart(tx[r], t)
    BY <1>1 DEF IInv
  <2>2. Past(t) => t.slug \in Slugs
    BY <2>1 DEF Course, Past
  <2>3. Past(t) => (Exists(t.loaded) /\ Exists(page'[t.slug]))
                   \/ (t.op = "write" /\ t.locks /\ ~Exists(t.loaded) /\ ~Exists(page'[t.slug]))
    BY <2>1, <2>2 DEF Course, Creates, Apart
  <2>4. Course(tx[q])'
    BY <2>1, <2>3 DEF Course, Past, Creates, Changes, Writer, Ended
  <2>5. Writer(t) /\ t.step \in {"setCurrent", "delete", "commit"} /\ ~t.found =>
            t.no \notin Numbers(t.slug)'
    BY <1>1, <2>1 DEF Numbering, Apart
  <2>6. Numbering(tx[q])'
    BY <2>1, <2>5 DEF Numbering, Writer
  <2>7. t.text # Unset =>
            t.text \in Requests /\ Spent(tx'[t.text]) /\ (Writer(tx[r]) => t.text # r)
    BY <1>1, <2>1 DEF Reading, Transactions
  <2>8. Writer(t) /\ t.step = "commit" /\ Clean(t.slug)' => LinksOf(t.slug)' \subseteq t.seen
    <3> SUFFICES ASSUME Writer(t), t.step = "commit", Clean(t.slug)'
                 PROVE  LinksOf(t.slug)' \subseteq t.seen
      OBVIOUS
    <3>1. t.locks  BY <2>1 DEF Course
    <3>2. LinksOf(t.slug)' = LinksOf(t.slug)
      BY <1>1, <2>1, <3>1 DEF Apart
    <3> QED  BY <1>1, <2>1, <3>2 DEF Reading
  <2>9. t.op = "validate" /\ t.step \in {"delete", "commit"} =>
            \A s \in t.links : ~Exists(page'[s]) => s \in t.broken
    BY <2>1 DEF Reading, Transactions
  <2>10. Reading(tx[q])'
    BY <2>1, <2>7, <2>8, <2>9 DEF Reading, Writer
  <2> QED  BY <2>4, <2>6, <2>10
<1>5. ASSUME NEW q \in Requests, NEW p \in Requests, q # p
      PROVE  Apart(tx[q], tx[p])'
  <2>1. CASE q = r \/ p = r
    BY <1>1, <2>1 DEF Apart
  <2>2. CASE q # r /\ p # r
    BY <1>1, <1>5, <2>2 DEF Apart, Writer, IInv
  <2> QED  BY <2>1, <2>2
<1> QED  BY <1>1, <1>2, <1>3, <1>4, <1>5 DEF IInv

LEMMA CommitClaimInv ==
    ASSUME IInv, NEW r \in Requests, CommitClaim(r)
    PROVE  IInv'
<1> DEFINE claim == [slug |-> tx[r].slug, no |-> tx[r].no, by |-> r, item |-> tx[r].item]
<1>1. /\ Commits(r) /\ claims' = claims \cup {claim} /\ tx[r].op = "claim"
      /\ page' = page /\ revisions' = revisions /\ links' = links /\ results' = results
  BY DEF CommitClaim
<1>2. /\ tx[r].step = "commit" /\ tx[r] \in Transactions /\ Course(tx[r])
      /\ \A q \in Requests : Spent(tx[q]) => Spent(tx'[q])
      /\ \A s : Clean(s)' => Clean(s)
  BY <1>1, CommitEffect
<1>3. claim \in Claims
  BY <1>1, <1>2 DEF Course, Claims, Transactions
<1>4. \A s : Numbers(s)' = Numbers(s) /\ LinksOf(s)' = LinksOf(s)
  BY <1>1 DEF Numbers, LinksOf
<1> HIDE DEF claim
<1>5. Tables'  BY <1>1, <1>3 DEF IInv, Stored, Tables
<1>6. Numbered' /\ PagesHaveCurrentRevision' /\ BrokenLinksReported'
  BY <1>1, <1>4 DEF IInv, Stored, Numbered, PagesHaveCurrentRevision, BrokenLinksReported
<1>7. CommittedTexts'
  BY <1>1, <1>2 DEF IInv, Stored, CommittedTexts, Tables, Revisions, Results
<1>8. LinksCurrent'
  BY <1>1, <1>2, <1>4 DEF IInv, Stored, LinksCurrent
<1>9. Stored'  BY <1>5, <1>6, <1>7, <1>8 DEF Stored
<1> QED  BY <1>1, <1>4, <1>9, CommitInv DEF Writer

LEMMA CommitResultsInv ==
    ASSUME IInv, NEW r \in Requests, CommitResults(r)
    PROVE  IInv'
<1> DEFINE found == [slug |-> tx[r].slug, no |-> tx[r].no, by |-> r,
                     text |-> tx[r].text, broken |-> tx[r].broken]
<1>1. /\ Commits(r) /\ results' = (results \ tx[r].seen) \cup {found} /\ tx[r].op = "validate"
      /\ page' = page /\ revisions' = revisions /\ links' = links /\ claims' = claims
  BY DEF CommitResults
<1>2. /\ tx[r].step = "commit" /\ tx[r] \in Transactions /\ Course(tx[r]) /\ Reading(tx[r])
      /\ \A q \in Requests : Spent(tx[q]) => Spent(tx'[q])
      /\ \A s : Clean(s)' => Clean(s)
  BY <1>1, CommitEffect
<1>3. /\ tx[r].text \in Requests /\ Spent(tx[tx[r].text])
      /\ tx[r].slug \notin tx[r].broken
      /\ \A v \in revisions : v.slug = tx[r].slug /\ v.no = tx[r].no /\ v.text = tx[r].text =>
            {s \in v.links : ~Exists(page[s])} \subseteq tx[r].broken
  BY <1>1, <1>2 DEF Reading, Transactions
<1>4. /\ found \in Results /\ Spent(tx[found.text]) /\ found.slug \notin found.broken
      /\ \A v \in revisions : v.slug = found.slug /\ v.no = found.no /\ v.text = found.text =>
            {s \in v.links : ~Exists(page[s])} \subseteq found.broken
  BY <1>1, <1>2, <1>3 DEF Course, Results, Transactions
<1>5. \A s : Numbers(s)' = Numbers(s) /\ LinksOf(s)' = LinksOf(s)
  BY <1>1 DEF Numbers, LinksOf
<1> HIDE DEF found
<1>6. results' \subseteq results \cup {found}  BY <1>1
<1>7. Tables'  BY <1>1, <1>4, <1>6 DEF IInv, Stored, Tables
<1>8. Numbered' /\ PagesHaveCurrentRevision'
  BY <1>1, <1>5 DEF IInv, Stored, Numbered, PagesHaveCurrentRevision
<1>9. BrokenLinksReported'
  <2> SUFFICES ASSUME NEW f \in results'
               PROVE  /\ f.slug \notin f.broken
                      /\ \A v \in revisions : v.slug = f.slug /\ v.no = f.no /\ v.text = f.text =>
                            {s \in v.links : ~Exists(page[s])} \subseteq f.broken
    BY <1>1 DEF BrokenLinksReported
  <2>1. CASE f \in results  BY <2>1 DEF IInv, Stored, BrokenLinksReported
  <2>2. CASE f = found  BY <1>4, <2>2
  <2> QED  BY <1>6, <2>1, <2>2
<1>10. CommittedTexts'
  <2>1. \A v \in revisions' : Spent(tx'[v.text])
    BY <1>1, <1>2 DEF IInv, Stored, CommittedTexts, Tables, Revisions
  <2>2. \A f \in results' : f.text \in Requests /\ Spent(tx[f.text])
    BY <1>4, <1>6 DEF IInv, Stored, CommittedTexts, Tables, Results
  <2> QED  BY <1>2, <2>1, <2>2 DEF CommittedTexts
<1>11. LinksCurrent'
  BY <1>1, <1>2, <1>5 DEF IInv, Stored, LinksCurrent
<1>12. Stored'  BY <1>7, <1>8, <1>9, <1>10, <1>11 DEF Stored
<1> QED  BY <1>1, <1>5, <1>12, CommitInv DEF Writer

LEMMA CommitLinksInv ==
    ASSUME IInv, NEW r \in Requests, CommitLinks(r)
    PROVE  IInv'
<1>1. PICK slug : slug = tx[r].slug
  OBVIOUS
<1> DEFINE row == [slug |-> slug, text |-> r]
<1>2. /\ Commits(r) /\ links' = (links \ tx[r].seen) \cup {row} /\ tx[r].op = "rebuild"
      /\ page' = page /\ revisions' = revisions /\ claims' = claims /\ results' = results
  BY <1>1 DEF CommitLinks, ReplaceLinks
<1>3. /\ tx[r].step = "commit" /\ Course(tx[r]) /\ Reading(tx[r]) /\ tx'[r].slug = slug
      /\ \A q \in Requests : Spent(tx[q]) => Spent(tx'[q])
      /\ \A s : Clean(s)' => Clean(s)
      /\ ~Clean(slug)'
  BY <1>1, <1>2, CommitEffect
<1>4. \A s : Numbers(s)' = Numbers(s)
  BY <1>2 DEF Numbers
<1>5. \A s : s # slug => LinksOf(s)' = LinksOf(s)
  BY <1>1, <1>2, <1>3 DEF LinksOf, Reading
<1>6. Tables'
  <2>1. row \in Links  BY <1>1, <1>3 DEF Links, Course
  <2> HIDE DEF row
  <2> QED  BY <1>2, <2>1 DEF IInv, Stored, Tables
<1> HIDE DEF row
<1>7. Numbered' /\ PagesHaveCurrentRevision' /\ BrokenLinksReported'
  BY <1>2, <1>4 DEF IInv, Stored, Numbered, PagesHaveCurrentRevision, BrokenLinksReported
<1>8. CommittedTexts'
  BY <1>2, <1>3 DEF IInv, Stored, CommittedTexts, Tables, Revisions, Results
<1>9. LinksCurrent'
  <2> SUFFICES ASSUME NEW s \in Slugs, Clean(s)'
               PROVE  {l.text : l \in LinksOf(s)'}
                         = {v.text : v \in {w \in revisions' : w.slug = s /\ w.no = page'[s].current}}
    BY DEF LinksCurrent
  <2>1. s # slug /\ Clean(s)  BY <1>3
  <2> QED  BY <1>2, <1>5, <2>1 DEF IInv, Stored, LinksCurrent
<1>10. Stored'  BY <1>6, <1>7, <1>8, <1>9 DEF Stored
<1> QED  BY <1>1, <1>2, <1>4, <1>5, <1>10, CommitInv DEF Writer

(* What the UPDATE of a page leaves in its row.                            *)
LEMMA FlushedPage ==
    ASSUME NEW stored \in Pages, NEW loaded \in Pages, NEW assigned \in Pages
    PROVE  LET row == Flushed(stored, loaded, assigned) IN
           /\ row \in Pages
           /\ row.current \in {stored.current, assigned.current}
           /\ row.title = stored.title \/ (row.title = assigned.title /\ assigned.title # loaded.title)
BY DEF Flushed, Written, Pages

LEMMA CommitPublishInv ==
    ASSUME IInv, NEW r \in Requests, CommitPublish(r)
    PROVE  IInv'
<1>1. PICK t : t = tx[r]
  OBVIOUS
<1> DEFINE assigned == [t.loaded EXCEPT !.status = "published", !.current = t.no]
           row == Flushed(page[t.slug], t.loaded, assigned)
<1>2. /\ Commits(r) /\ t.op = "publish"
      /\ page' = [page EXCEPT ![t.slug] = row]
      /\ revisions' = revisions /\ links' = links /\ claims' = claims /\ results' = results
  BY <1>1 DEF CommitPublish, Assigned
<1>3. /\ t.step = "commit" /\ t \in Transactions /\ Course(t) /\ Numbering(t) /\ tx'[r].slug = t.slug
      /\ \A q \in Requests : Spent(tx[q]) => Spent(tx'[q])
      /\ \A s : Clean(s)' => Clean(s)
      /\ ~Clean(t.slug)'
  BY <1>1, <1>2, CommitEffect
<1>4. /\ t.slug \in Slugs /\ Exists(t.loaded) /\ Exists(page[t.slug])
      /\ t.no \in Numbers(t.slug)
  BY <1>2, <1>3 DEF Course, Past, Creates, Writer, Numbering
<1>5. /\ assigned \in Pages /\ assigned.current = t.no /\ assigned.title = t.loaded.title
      /\ t.loaded \in Pages /\ page[t.slug] \in Pages /\ page \in [Slugs -> Pages]
  BY <1>3, <1>4 DEF Transactions, Pages, IInv, Stored, Tables
<1> HIDE DEF assigned
<1>6. /\ row \in Pages /\ row.current \in {page[t.slug].current, t.no}
      /\ row.title = page[t.slug].title
  BY <1>5, FlushedPage
<1> HIDE DEF row
<1>7. \A s : Numbers(s)' = Numbers(s) /\ LinksOf(s)' = LinksOf(s)
  BY <1>2 DEF Numbers, LinksOf
<1>8. \A s \in Slugs : Exists(page'[s]) <=> Exists(page[s])
  BY <1>2, <1>5, <1>6 DEF Exists
<1>9. Tables'
  BY <1>2, <1>5, <1>6 DEF IInv, Stored, Tables
<1>10. Numbered'
  BY <1>2, <1>7 DEF IInv, Stored, Numbered
<1>11. PagesHaveCurrentRevision'
  BY <1>2, <1>4, <1>5, <1>6, <1>7, <1>8 DEF IInv, Stored, PagesHaveCurrentRevision
<1>12. BrokenLinksReported'
  BY <1>2, <1>8 DEF IInv, Stored, BrokenLinksReported, Tables, Revisions
<1>13. CommittedTexts'
  BY <1>2, <1>3 DEF IInv, Stored, CommittedTexts, Tables, Revisions, Results
<1>14. LinksCurrent'
  <2> SUFFICES ASSUME NEW s \in Slugs, Clean(s)'
               PROVE  {l.text : l \in LinksOf(s)'}
                         = {v.text : v \in {w \in revisions' : w.slug = s /\ w.no = page'[s].current}}
    BY DEF LinksCurrent
  <2>1. s # t.slug /\ Clean(s)  BY <1>3
  <2> QED  BY <1>2, <1>5, <1>7, <2>1 DEF IInv, Stored, LinksCurrent
<1>15. Stored'
  BY <1>9, <1>10, <1>11, <1>12, <1>13, <1>14 DEF Stored
<1> QED  BY <1>1, <1>2, <1>7, <1>8, <1>15, CommitInv DEF Writer

(* The page row that create_or_update_page and create_revision leave.      *)
LEMMA RevisedPage ==
    ASSUME IInv, NEW r \in Requests, Writer(tx[r]), tx[r].step = "commit"
    PROVE  LET t == tx[r]
               row == IF Exists(t.loaded)
                      THEN [Flushed(page[t.slug], t.loaded, Assigned(r)) EXCEPT !.current = t.no]
                      ELSE NewPage(r) IN
           row \in Pages /\ row.current = t.no /\ Exists(row)
<1> DEFINE t == tx[r]
<1>1. t \in Transactions /\ Course(t)  BY DEF IInv
<1>2. /\ t.slug \in Slugs /\ t.op \in {"write", "revise"} /\ t.no \in Nat
      /\ (t.op = "write" => t.title # Unset)
      /\ (Exists(t.loaded) /\ Exists(page[t.slug])) \/ (t.op = "write" /\ ~Exists(t.loaded))
      /\ t.loaded \in Pages /\ page[t.slug] \in Pages
  BY <1>1 DEF Course, Ended, Past, Creates, Writer, Transactions, IInv, Stored, Tables
<1>3. CASE Exists(t.loaded)
  <2> DEFINE assigned == Assigned(r)
             flushed == Flushed(page[t.slug], t.loaded, assigned)
  <2>1. assigned \in Pages /\ (assigned.title = t.loaded.title \/ assigned.title # Unset)
    <3>1. CASE t.op = "write"
      <4>1. assigned = [t.loaded EXCEPT !.title = t.title,
                          !.status = IF t.status = Unset THEN @ ELSE t.status]
        BY <3>1 DEF Assigned
      <4> HIDE DEF assigned
      <4> QED  BY <1>1, <1>2, <3>1, <4>1 DEF Transactions, Pages
    <3>2. CASE t.op = "revise"
      BY <1>2, <3>2 DEF Assigned
    <3> QED  BY <1>2, <3>1, <3>2
  <2> HIDE DEF assigned
  <2>2. flushed \in Pages /\ Exists(flushed)
    BY <1>2, <1>3, <2>1, FlushedPage DEF Exists
  <2> HIDE DEF flushed
  <2>3. LET row == [flushed EXCEPT !.current = t.no] IN
        row \in Pages /\ row.current = t.no /\ Exists(row)
    BY <1>2, <2>2 DEF Pages, Exists
  <2> QED  BY <1>3, <2>3 DEF flushed, assigned
<1>4. CASE ~Exists(t.loaded)
  <2>1. NewPage(r) \in Pages /\ NewPage(r).current = t.no /\ Exists(NewPage(r))
    BY <1>1, <1>2, <1>4 DEF NewPage, Pages, Exists, Transactions
  <2> QED  BY <1>4, <2>1
<1> QED  BY <1>3, <1>4

LEMMA CommitRevisionInv ==
    ASSUME IInv, NEW r \in Requests, CommitRevision(r)
    PROVE  IInv'
<1>1. PICK t : t = tx[r]
  OBVIOUS
<1>2. PICK row : row = IF Exists(t.loaded)
                       THEN [Flushed(page[t.slug], t.loaded, Assigned(r)) EXCEPT !.current = t.no]
                       ELSE NewPage(r)
  OBVIOUS
<1> DEFINE new == [slug |-> t.slug, no |-> t.no, text |-> r, links |-> t.links]
           kept == IF t.found THEN {v \in revisions : v.slug # t.slug \/ v.no # t.no} ELSE revisions
           link == [slug |-> t.slug, text |-> r]
<1>3. /\ Commits(r) /\ Writer(t)
      /\ page' = [page EXCEPT ![t.slug] = row]
      /\ revisions' = kept \cup {new}
      /\ links' = (links \ t.seen) \cup {link}
      /\ claims' = claims /\ results' = results
  BY <1>1, <1>2 DEF CommitRevision, ReplaceLinks, Writer
<1>4. /\ t.step = "commit" /\ t \in Transactions /\ Course(t) /\ Numbering(t) /\ Reading(t)
      /\ \A q \in Requests : Spent(tx[q]) => Spent(tx'[q])
      /\ Spent(tx'[r]) /\ (Writer(tx[r]) => ~Spent(tx[r]))
      /\ \A s : Clean(s)' => Clean(s)
  BY <1>1, <1>3, CommitEffect
<1>5. row \in Pages /\ row.current = t.no /\ Exists(row)
  BY <1>1, <1>2, <1>3, <1>4, RevisedPage
<1>6. /\ t.slug \in Slugs /\ t.locks /\ t.no \in Nat \ {0} /\ t.links \in SUBSET Slugs
      /\ t.no = 1 \/ t.no - 1 \in Numbers(t.slug)
      /\ IF t.found THEN t.no \in Numbers(t.slug) ELSE t.no \notin Numbers(t.slug)
  BY <1>3, <1>4 DEF Course, Numbering, Writer, Transactions
<1>7. Tables /\ page \in [Slugs -> Pages]
  BY DEF IInv, Stored, Tables
<1>8. /\ new.slug = t.slug /\ new.no = t.no /\ new.text = r /\ new.links = t.links
      /\ new \in Revisions
      /\ link \in Links /\ link.slug = t.slug /\ link.text = r
  BY <1>6 DEF Revisions, Links
<1>9. /\ kept \subseteq revisions
      /\ \A v \in revisions : v \in kept \/ (v.slug = t.slug /\ v.no = t.no)
      /\ \A v \in kept : v.slug # t.slug \/ v.no # t.no
  <2>1. CASE t.found  BY <2>1
  <2>2. CASE ~t.found
    BY <1>6, <2>2 DEF Numbers
  <2> QED  BY <2>1, <2>2
<1> HIDE DEF new, kept, link
<1>10. /\ Numbers(t.slug)' = Numbers(t.slug) \cup {t.no}
       /\ \A s : s # t.slug => Numbers(s)' = Numbers(s)
  BY <1>3, <1>6, <1>8, <1>9 DEF Numbers
<1>11. \A s : s # t.slug => LinksOf(s)' = LinksOf(s)
  BY <1>3, <1>4, <1>8 DEF LinksOf, Reading, Writer
<1>12. \A s \in Slugs : Exists(page'[s]) <=> Exists(page[s]) \/ s = t.slug
  BY <1>3, <1>5, <1>7
<1>13. Tables'
  BY <1>3, <1>5, <1>6, <1>7, <1>8, <1>9 DEF Tables
<1>14. Numbered'
  <2>1. \A s \in Slugs : \E n \in Nat : Numbers(s)' = 1..n
    <3> SUFFICES ASSUME NEW s \in Slugs PROVE \E n \in Nat : Numbers(s)' = 1..n
      OBVIOUS
    <3>1. PICK n \in Nat : Numbers(s) = 1..n  BY DEF IInv, Stored, Numbered
    <3>2. CASE s # t.slug  BY <1>10, <3>1, <3>2
    <3>3. CASE s = t.slug /\ t.no \in 1..n
      <4>1. Numbers(s)' = 1..n  BY <1>10, <3>1, <3>3
      <4> QED  BY <4>1
    <3>4. CASE s = t.slug /\ t.no \notin 1..n
      <4>1. t.no = n + 1  BY <1>6, <3>1, <3>4
      <4>2. (1..n) \cup {n + 1} = 1..(n + 1) /\ n + 1 \in Nat
        OBVIOUS
      <4>3. Numbers(s)' = 1..(n + 1)  BY <1>10, <3>1, <3>4, <4>1, <4>2
      <4> QED  BY <4>2, <4>3
    <3> QED  BY <3>2, <3>3, <3>4
  <2>2. \A v, w \in revisions' : v.slug = w.slug /\ v.no = w.no => v = w
    BY <1>3, <1>8, <1>9 DEF IInv, Stored, Numbered
  <2> QED  BY <2>1, <2>2 DEF Numbered
<1>15. PagesHaveCurrentRevision'
  <2> SUFFICES ASSUME NEW s \in Slugs, Exists(page'[s])
               PROVE  page'[s].current \in Numbers(s)'
    BY DEF PagesHaveCurrentRevision
  <2>1. CASE s = t.slug  BY <1>3, <1>5, <1>7, <1>10, <2>1
  <2>2. CASE s # t.slug
    BY <1>3, <1>7, <1>10, <1>12, <2>2 DEF IInv, Stored, PagesHaveCurrentRevision
  <2> QED  BY <2>1, <2>2
<1>16. CommittedTexts'
  <2>1. \A v \in revisions' : v.text = r \/ (v.text \in Requests /\ Spent(tx[v.text]))
    BY <1>3, <1>8, <1>9 DEF IInv, Stored, CommittedTexts, Tables, Revisions
  <2>2. \A f \in results' : f.text \in Requests /\ Spent(tx[f.text])
    BY <1>3 DEF IInv, Stored, CommittedTexts, Tables, Results
  <2> QED  BY <1>4, <2>1, <2>2 DEF CommittedTexts
<1>17. BrokenLinksReported'
  <2> SUFFICES ASSUME NEW f \in results'
               PROVE  /\ f.slug \notin f.broken
                      /\ \A v \in revisions' : v.slug = f.slug /\ v.no = f.no /\ v.text = f.text =>
                            {s \in v.links : ~Exists(page'[s])} \subseteq f.broken
    BY DEF BrokenLinksReported
  <2>1. f \in results /\ f.text # r
    BY <1>1, <1>3, <1>4 DEF IInv, Stored, CommittedTexts, Tables, Results
  <2>2. \A v \in revisions' : v.text = f.text => v \in revisions /\ v.links \in SUBSET Slugs
    BY <1>3, <1>8, <1>9, <2>1 DEF IInv, Stored, Tables, Revisions
  <2> QED
    BY <1>12, <2>1, <2>2 DEF IInv, Stored, BrokenLinksReported
<1>18. LinksCurrent'
  <2> SUFFICES ASSUME NEW s \in Slugs, Clean(s)'
               PROVE  {l.text : l \in LinksOf(s)'}
                         = {v.text : v \in {w \in revisions' : w.slug = s /\ w.no = page'[s].current}}
    BY DEF LinksCurrent
  <2>1. CASE s = t.slug
    <3>1. LinksOf(s) \subseteq t.seen  BY <1>3, <1>4, <2>1 DEF Reading
    <3>2. LinksOf(s)' = {link}
      BY <1>3, <1>8, <2>1, <3>1 DEF LinksOf
    <3>3. page'[s].current = t.no  BY <1>3, <1>5, <1>7, <2>1
    <3>4. {w \in revisions' : w.slug = s /\ w.no = page'[s].current} = {new}
      BY <1>3, <1>8, <1>9, <2>1, <3>3
    <3> QED  BY <1>8, <3>2, <3>4
  <2>2. CASE s # t.slug
    <3>1. page'[s] = page[s] /\ LinksOf(s)' = LinksOf(s)  BY <1>3, <1>7, <1>11, <2>2
    <3>2. \A v : v.slug = s => (v \in revisions' <=> v \in revisions)
      BY <1>3, <1>8, <1>9, <2>2
    <3>3. {w \in revisions' : w.slug = s /\ w.no = page'[s].current}
             = {w \in revisions : w.slug = s /\ w.no = page[s].current}
      BY <3>1, <3>2
    <3> QED  BY <1>4, <3>1, <3>3 DEF IInv, Stored, LinksCurrent
  <2> QED  BY <2>1, <2>2
<1>19. Stored'
  BY <1>13, <1>14, <1>15, <1>16, <1>17, <1>18 DEF Stored
<1>20. /\ \A s : Numbers(s) \subseteq Numbers(s)'
       /\ \A s : \A no \in Numbers(s)' \ Numbers(s) : t.slug = s /\ t.no = no
  BY <1>10
<1>21. \A v \in revisions' : v.text = r \/ v \in revisions
  BY <1>3, <1>8, <1>9
<1>22. tx'[r].slug = t.slug /\ t.no \in Numbers(t.slug)'
  BY <1>1, <1>3, <1>10, CommitEffect
<1> QED
  BY <1>1, <1>3, <1>6, <1>11, <1>12, <1>19, <1>20, <1>21, <1>22, CommitInv

LEMMA CircleOpen ==
    ASSUME NEW r \in Requests, DeadlockDetected(r)
    PROVE  Raises(r) /\ tx[r].step # "done"
<1>1. PICK S \in SUBSET Requests : r \in S /\ Circle(S)  BY DEF DeadlockDetected
<1>2. WaitsFor(r) # {}  BY <1>1 DEF Circle
<1> QED  BY <1>2, Waiting DEF At, DeadlockDetected

LEMMA StutterInv ==
    ASSUME IInv, UNCHANGED vars
    PROVE  IInv'
<1>1. UNCHANGED <<page, revisions, links, claims, results, tx>>  BY DEF vars, tables
<1>2. \A s : Clean(s)' <=> Clean(s)  BY <1>1 DEF Clean, At
<1>3. \A s : Numbers(s)' = Numbers(s) /\ LinksOf(s)' = LinksOf(s)  BY <1>1 DEF Numbers, LinksOf
<1>4. Stored'
  BY <1>1, <1>2, StoredFrame DEF IInv
<1>5. \A r \in Requests : Course(tx[r])'
  BY <1>1 DEF IInv, Course, Past, Creates, Changes, Writer, Ended
<1>6. \A r \in Requests : Numbering(tx[r])'
  BY <1>1, <1>3 DEF IInv, Numbering, Writer
<1>7. \A r \in Requests : Reading(tx[r])'
  BY <1>1, <1>2, <1>3 DEF IInv, Reading, Writer, Spent
<1>8. \A r, q \in Requests : r # q => Apart(tx[r], tx[q])'
  BY <1>1 DEF IInv, Apart, Writer
<1> QED  BY <1>1, <1>4, <1>5, <1>6, <1>7, <1>8 DEF IInv

LEMMA StatementInv ==
    ASSUME IInv, NEW r \in Requests, Statement(r) \/ Fails(r)
    PROVE  IInv'
<1>1. CASE SelectPage(r)  BY <1>1, SelectInv
<1>2. CASE CreatePage(r)  BY <1>2, CreateInv
<1>3. CASE NextRevisionNo(r)  BY <1>3, NextNoInv
<1>4. CASE GetRevisionByNo(r)  BY <1>4, ByNoInv
<1>5. CASE FlushRevision(r)  BY <1>5, FlushInv
<1>6. CASE SetCurrent(r)  BY <1>6, SetCurrentInv
<1>7. CASE ResolveRevision(r)  BY <1>7, ResolveInv
<1>8. CASE FindBrokenLinks(r)  BY <1>8, FindBrokenInv
<1>9. CASE Delete(r)  BY <1>9, DeleteInv
<1>10. CASE CommitRevision(r)  BY <1>10, CommitRevisionInv
<1>11. CASE CommitPublish(r)  BY <1>11, CommitPublishInv
<1>12. CASE CommitClaim(r)  BY <1>12, CommitClaimInv
<1>13. CASE CommitLinks(r)  BY <1>13, CommitLinksInv
<1>14. CASE CommitResults(r)  BY <1>14, CommitResultsInv
<1>15. CASE DeadlockDetected(r)  BY <1>15, CircleOpen, RaisesInv
<1>16. CASE Fails(r)  BY <1>16, RaisesInv DEF Fails, Open
<1> QED
  BY <1>1, <1>2, <1>3, <1>4, <1>5, <1>6, <1>7, <1>8, <1>9, <1>10, <1>11, <1>12, <1>13,
     <1>14, <1>15, <1>16 DEF Statement, Commit

----------------------------------------------------------------------------
(* Of the transactions on one page at most one has locked its row, and no  *)
(* two that reached their revision write the same number; each one is at a *)
(* statement of its workflow, with what it read still what it must know of *)
(* the tables.                                                             *)
THEOREM WikiInvariant == Spec => []IInv
<1>1. IInv /\ [Next]_vars => IInv'  BY CallInv, StatementInv, StutterInv DEF Next
<1> QED  BY InitInv, <1>1, PTL DEF Spec

(* What IInv says of the state that the properties are about. *)
LEMMA WikiPromises ==
    ASSUME IInv
    PROVE  TypeOK /\ PagesHaveCurrentRevision /\ RevisionNumbersDense
             /\ LinksOfCurrentRevision /\ BrokenLinksReported
<1>1. TypeOK
  <2>1. ASSUME NEW r \in Requests
        PROVE  tx[r].locks \/ RevisionFlushed(r) => Open(r)
    BY DEF IInv, Course, RevisionFlushed, Open
  <2> QED  BY <2>1 DEF TypeOK, IInv, Stored, Tables
<1>2. RevisionNumbersDense
  <2>1. ASSUME NEW s \in Slugs PROVE Numbers(s) = 1..Cardinality(Numbers(s))
    <3>1. PICK n \in Nat : Numbers(s) = 1..n  BY DEF IInv, Stored, Numbered
    <3>2. Cardinality(1..n) = n
      <4>1. Cardinality(1..n) = IF 1 > n THEN 0 ELSE n - 1 + 1  BY FS_Interval
      <4> QED  BY <4>1
    <3> QED  BY <3>1, <3>2
  <2> QED  BY <2>1 DEF RevisionNumbersDense, IInv, Stored, Numbered
<1>3. LinksOfCurrentRevision
  <2> SUFFICES ASSUME NEW s \in Slugs,
                      \A r \in Requests : tx[r].slug = s => tx[r].op \notin {"publish", "rebuild"}
               PROVE  {l.text : l \in LinksOf(s)}
                         = {v.text : v \in {w \in revisions : w.slug = s /\ w.no = page[s].current}}
    BY DEF LinksOfCurrentRevision
  <2>1. Clean(s)  BY DEF Clean
  <2> QED  BY <2>1 DEF IInv, Stored, LinksCurrent
<1> QED  BY <1>1, <1>2, <1>3 DEF IInv, Stored

(* Whatever the interleaving, tables and transactions stay in their types, *)
(* and only an open transaction has anything locked.                       *)
THEOREM WikiTypeCorrect == Spec => []TypeOK
BY WikiInvariant, WikiPromises, PTL

(* A page that can be read has a current revision of its own, in whatever  *)
(* order requests create, revise and publish pages and fail.               *)
THEOREM ReadablePages == Spec => []PagesHaveCurrentRevision
BY WikiInvariant, WikiPromises, PTL

(* Editors that compute revision numbers from what they read still number  *)
(* the revisions of a page 1, 2, 3 and so on, each number once.            *)
THEOREM DenseNumbers == Spec => []RevisionNumbersDense
BY WikiInvariant, WikiPromises, PTL

(* The links stored for a page are those of its current revision's text,   *)
(* however many editors write it, unless publish_page or                   *)
(* rebuild_links_from_markdown was called for it.                          *)
THEOREM CurrentLinks == Spec => []LinksOfCurrentRevision
BY WikiInvariant, WikiPromises, PTL

(* A stored validation of a revision that still has the text it was about  *)
(* reports every link of it that leads nowhere.                            *)
THEOREM BrokenLinksFound == Spec => []BrokenLinksReported
BY WikiInvariant, WikiPromises, PTL

----------------------------------------------------------------------------
(* Circles. *)

LEMMA ChangesAssigned ==
    ASSUME IInv, NEW r \in Requests, Changes(tx[r])
    PROVE  Assigned(r) # tx[r].loaded
<1> DEFINE t == tx[r]
<1>1. t.loaded \in Pages /\ t.op = "write"  BY DEF IInv, Transactions, Changes
<1>2. Assigned(r) = [t.loaded EXCEPT !.title = t.title,
                        !.status = IF t.status = Unset THEN @ ELSE t.status]
  BY <1>1 DEF Assigned
<1>3. Assigned(r).title = t.title /\ (t.status # Unset => Assigned(r).status = t.status)
  BY <1>1, <1>2 DEF Pages
<1> QED  BY <1>3 DEF Changes

(* A transaction that has locked a page row it did not change has made the *)
(* page.  Nobody else has come past the key by then, so that it waits for  *)
(* nobody.                                                                 *)
LEMMA LockersPass ==
    ASSUME IInv, NEW q \in Requests, tx[q].locks, WaitsFor(q) # {},
           ~(tx[q].op = "write" /\ Exists(tx[q].loaded) /\ Assigned(q) # tx[q].loaded)
    PROVE  FALSE
<1>1. /\ tx[q] \in Transactions /\ Course(tx[q])
      /\ \A p \in Requests \ {q} : Course(tx[p]) /\ Apart(tx[q], tx[p])
  BY DEF IInv
<1>2. tx[q].step \in {"nextNo", "byNo", "flushRevision", "setCurrent", "delete", "commit"}
      /\ Writer(tx[q])
  BY <1>1 DEF Course
<1>3. \/ tx[q].step \in {"setCurrent", "flushRevision"}
      \/ tx[q].step = "nextNo" /\ Dirty(q)
  BY <1>2, Waiting DEF At, Writer
<1>4. ~Exists(tx[q].loaded)
  BY <1>1, <1>3, ChangesAssigned DEF Course, Changes
<1>5. ~Exists(page[tx[q].slug])
  BY <1>1, <1>2, <1>4 DEF Course, Past, Creates
<1>6. CASE tx[q].step = "setCurrent"
  <2>1. PICK p \in PageLockHolders(q) : TRUE  BY <1>6, Waiting DEF At
  <2>2. p \in Requests \ {q} /\ tx[p].slug = tx[q].slug /\ tx[p].locks
    BY <2>1 DEF PageLockHolders, SameSlug
  <2> QED  BY <1>1, <2>2 DEF Apart
<1>7. CASE tx[q].step = "flushRevision"
  <2>1. PICK p \in RevisionHolders(q) : TRUE  BY <1>7, Waiting DEF At
  <2>2. /\ p \in Requests \ {q} /\ tx[p].slug = tx[q].slug
        /\ tx[p].step \in {"setCurrent", "delete", "commit"}
    BY <2>1 DEF RevisionHolders, RevisionFlushed, SameSlug
  <2>3. tx[p].locks  BY <1>1, <1>5, <2>2 DEF Course, Past, Creates
  <2> QED  BY <1>1, <2>2, <2>3 DEF Apart
<1>8. CASE tx[q].step = "nextNo" /\ Dirty(q)  BY <1>4, <1>8 DEF Dirty
<1> QED  BY <1>3, <1>6, <1>7, <1>8

(* Requests deadlock only when one of them is a write that changes the     *)
(* attributes of an existing page: it locks the page before the revision   *)
(* number, and every other workflow the number before the page.            *)
THEOREM CirclesChangePages == Spec => []CirclesNeedChangedPage
<1>1. ASSUME IInv PROVE CirclesNeedChangedPage
  <2> SUFFICES ASSUME NEW S \in SUBSET Requests, Circle(S),
                      \A r \in S : ~(tx[r].op = "write" /\ Exists(tx[r].loaded)
                                     /\ Assigned(r) # tx[r].loaded)
               PROVE  FALSE
    BY DEF CirclesNeedChangedPage
  <2>1. \A r \in S : r \in Requests /\ WaitsFor(r) \cap S # {}  BY DEF Circle
  <2>2. \A q \in S : ~tx[q].locks  BY <1>1, <2>1, LockersPass
  <2>3. ASSUME NEW r \in S PROVE \E q \in S : RevisionFlushed(q)
    <3>1. PICK q \in WaitsFor(r) : q \in S  BY <2>1
    <3>2. q \in PageLockHolders(r) \/ q \in RevisionHolders(r)
      BY <3>1, Zenon DEF WaitsFor
    <3>3. q \notin PageLockHolders(r)  BY <2>2, <3>1 DEF PageLockHolders
    <3> QED  BY <3>1, <3>2, <3>3 DEF RevisionHolders
  <2>4. PICK q \in S : RevisionFlushed(q)  BY <2>3 DEF Circle
  <2>5. Course(tx[q]) /\ Writer(tx[q])  BY <1>1, <2>4 DEF IInv, RevisionFlushed, Writer
  <2>6. tx[q].step = "setCurrent"
    BY <2>2, <2>4, <2>5 DEF RevisionFlushed, Course
  <2>7. WaitsFor(q) = PageLockHolders(q)  BY <2>6, Waiting DEF At
  <2>8. PICK p \in PageLockHolders(q) : p \in S  BY <2>1, <2>7
  <2> QED  BY <2>2, <2>8 DEF PageLockHolders
<1> QED  BY WikiInvariant, <1>1, PTL

----------------------------------------------------------------------------
(* The history of the pages. *)

(* t has taken a number and not committed its text yet.                    *)
Editing(t) ==
    Writer(t) /\ t.step \in {"byNo", "flushRevision", "setCurrent", "delete", "commit"}
EditOf(r, t) == [by |-> r, slug |-> t.slug, no |-> t.no]

LEMMA EditsByRequest ==
    ASSUME NEW d
    PROVE  d \in Edits <=> \E r \in Requests : Editing(tx[r]) /\ d = EditOf(r, tx[r])
BY DEF Edits, Editing, Writer, EditOf

(* What the step of r does to the edits under way. *)
LEMMA EditsOfStep ==
    ASSUME NEW r \in Requests, \A q \in Requests \ {r} : tx'[q] = tx[q]
    PROVE  /\ Editing(tx[r]) =>
                 /\ EditOf(r, tx[r]) \in Edits
                 /\ Edits = {d \in Edits : d.by # r} \cup {EditOf(r, tx[r])}
           /\ Editing(tx'[r]) =>
                 Edits' = {d \in Edits : d.by # r} \cup {EditOf(r, tx'[r])}
           /\ ~Editing(tx'[r]) => Edits' = {d \in Edits : d.by # r}
           /\ Editing(tx[r]) => {d \in Edits : d.by # r} = Edits \ {EditOf(r, tx[r])}
           /\ ~Editing(tx[r]) => {d \in Edits : d.by # r} = Edits
<1>1. \A d : d \in Edits <=> \E q \in Requests : Editing(tx[q]) /\ d = EditOf(q, tx[q])
  BY EditsByRequest
<1>2. \A d : d \in Edits' <=> \E q \in Requests : Editing(tx'[q]) /\ d = EditOf(q, tx'[q])
  BY DEF Edits, Editing, Writer, EditOf
<1>3. \A q, t : EditOf(q, t).by = q  BY DEF EditOf
<1>4. ASSUME NEW d PROVE d \in Edits' <=> \/ d \in Edits /\ d.by # r
                                          \/ Editing(tx'[r]) /\ d = EditOf(r, tx'[r])
  BY <1>1, <1>2, <1>3
<1>5. Editing(tx[r]) => \A d \in Edits : d.by = r => d = EditOf(r, tx[r])
  BY <1>1, <1>3
<1> QED  BY <1>1, <1>3, <1>4, <1>5

LEMMA VersionsKept ==
    ASSUME revisions' = revisions
    PROVE  Versions' = Versions /\ \A s : Numbers(s)' = Numbers(s)
BY DEF Versions, LastNo, Numbers, TextOf

LEMMA CurrentsKept ==
    ASSUME page' = page
    PROVE  Currents' = Currents
BY DEF Currents

(* A step that neither takes a number nor commits a revision. *)
LEMMA SameEdit ==
    ASSUME NEW r \in Requests, UNCHANGED <<page, revisions>>,
           \A q \in Requests \ {r} : tx'[q] = tx[q],
           Editing(tx'[r]) => Editing(tx[r]) /\ tx'[r].slug = tx[r].slug /\ tx'[r].no = tx[r].no
    PROVE  [History!Next]_(History!hvars)
<1>1. Versions' = Versions /\ Currents' = Currents  BY VersionsKept, CurrentsKept
<1>2. CASE Editing(tx'[r])
  <2>1. EditOf(r, tx'[r]) = EditOf(r, tx[r])  BY <1>2 DEF EditOf
  <2> DEFINE others == {d \in Edits : d.by # r}
  <2>2. Edits = others \cup {EditOf(r, tx[r])}  BY <1>2, EditsOfStep
  <2>3. Edits' = others \cup {EditOf(r, tx'[r])}  BY <1>2, EditsOfStep
  <2> HIDE DEF others
  <2>4. Edits' = Edits  BY <2>1, <2>2, <2>3
  <2> QED  BY <1>1, <2>4 DEF History!hvars
<1>3. CASE ~Editing(tx'[r]) /\ Editing(tx[r])
  <2>1. EditOf(r, tx[r]) \in Edits /\ Edits' = Edits \ {EditOf(r, tx[r])}
    BY <1>3, EditsOfStep
  <2>2. History!GiveUp(EditOf(r, tx[r]))  BY <1>1, <2>1 DEF History!GiveUp
  <2> QED  BY <2>1, <2>2 DEF History!Next
<1>4. CASE ~Editing(tx'[r]) /\ ~Editing(tx[r])
  <2>1. Edits' = Edits  BY <1>4, EditsOfStep
  <2> QED  BY <1>1, <2>1 DEF History!hvars
<1> QED  BY <1>2, <1>3, <1>4

(* Moving on, or failing.                                                  *)
LEMMA MoveTo ==
    ASSUME IInv, NEW r \in Requests, NEW state, Moves(r, state)
    PROVE  /\ tx'[r] = state /\ \A q \in Requests \ {r} : tx'[q] = tx[q]
           /\ UNCHANGED <<page, revisions>>
BY DEF Moves, tables, IInv

LEMMA StatementKeepsEdits ==
    ASSUME IInv, NEW r \in Requests,
           \/ SelectPage(r) \/ CreatePage(r) \/ GetRevisionByNo(r) \/ FlushRevision(r)
           \/ SetCurrent(r) \/ ResolveRevision(r) \/ FindBrokenLinks(r) \/ Delete(r)
    PROVE  [History!Next]_(History!hvars)
<1> DEFINE t == tx[r]
           Keeps(state) == ~Editing(state) \/ (Editing(t) /\ state.slug = t.slug /\ state.no = t.no)
<1>1. t \in Transactions /\ Course(t)  BY DEF IInv
<1>2. Keeps(Idle("error"))  BY DEF Editing, Idle
<1>3. \E state : Moves(r, state) /\ Keeps(state)
  <2>1. CASE SelectPage(r)
    <3>1. ASSUME NEW found \in Pages
          PROVE  ~Editing([t EXCEPT !.loaded = found, !.step = AfterSelect(t.op)])
      BY <1>1 DEF Editing, Writer, AfterSelect, Transactions
    <3>2. ~Editing([t EXCEPT !.step = "insertPage"])  BY <1>1 DEF Editing, Transactions
    <3>3. page[t.slug] \in Pages
      BY <1>1, <2>1 DEF SelectPage, At, Course, IInv, Stored, Tables
    <3> QED  BY <1>2, <2>1, <3>1, <3>2, <3>3 DEF SelectPage, Goto, Raises
  <2>2. CASE CreatePage(r)
    <3>1. ~Editing([t EXCEPT !.locks = TRUE, !.step = "nextNo"])  BY <1>1 DEF Editing, Transactions
    <3> QED  BY <1>2, <2>2, <3>1 DEF CreatePage, Raises
  <2>3. CASE GetRevisionByNo(r)
    <3> DEFINE state == [t EXCEPT !.found = t.no \in Numbers(t.slug), !.step = "flushRevision"]
    <3>1. t.step = "byNo" /\ Writer(t) /\ Moves(r, state)
      BY <1>1, <2>3 DEF GetRevisionByNo, At, Course
    <3>2. state.slug = t.slug /\ state.no = t.no  BY <1>1 DEF Transactions
    <3> QED  BY <3>1, <3>2 DEF Editing
  <2>4. CASE FlushRevision(r)
    <3> DEFINE state == [t EXCEPT !.step = "setCurrent"]
    <3>1. t.step = "flushRevision" /\ Writer(t) /\ (Moves(r, state) \/ Moves(r, Idle("error")))
      BY <1>1, <2>4 DEF FlushRevision, Runs, At, Course, Goto, Raises
    <3>2. state.slug = t.slug /\ state.no = t.no  BY <1>1 DEF Transactions
    <3> QED  BY <1>2, <3>1, <3>2 DEF Editing
  <2>5. CASE SetCurrent(r)
    <3> DEFINE state == [t EXCEPT !.locks = TRUE, !.step = "delete"]
    <3>1. t.step = "setCurrent" /\ Writer(t) /\ Moves(r, state)
      BY <1>1, <2>5 DEF SetCurrent, Runs, At, Course
    <3>2. state.slug = t.slug /\ state.no = t.no  BY <1>1 DEF Transactions
    <3> QED  BY <3>1, <3>2 DEF Editing
  <2>6. CASE ResolveRevision(r)
    <3>1. ~Writer(t)  BY <1>1, <2>6 DEF ResolveRevision, At, Course, Writer
    <3>2. PICK state : Moves(r, state) /\ state.op = t.op
      <4>1. PICK no : IF t.op # "validate" THEN Moves(r, [t EXCEPT !.no = no, !.step = "commit"])
                      ELSE \E rev \in revisions :
                              Moves(r, [t EXCEPT !.no = no, !.text = rev.text, !.links = rev.links,
                                                 !.step = "findBroken"])
        BY <2>6 DEF ResolveRevision
      <4>2. CASE t.op # "validate"
        <5>1. [t EXCEPT !.no = no, !.step = "commit"].op = t.op  BY <1>1 DEF Transactions
        <5> QED  BY <4>1, <4>2, <5>1
      <4>3. CASE t.op = "validate"
        <5>1. PICK rev \in revisions :
                 Moves(r, [t EXCEPT !.no = no, !.text = rev.text, !.links = rev.links,
                                    !.step = "findBroken"])
          BY <4>1, <4>3
        <5>2. [t EXCEPT !.no = no, !.text = rev.text, !.links = rev.links,
                        !.step = "findBroken"].op = t.op
          BY <1>1 DEF Transactions
        <5> QED  BY <5>1, <5>2
      <4> QED  BY <4>2, <4>3
    <3> QED  BY <3>1, <3>2 DEF Editing, Writer
  <2>7. CASE FindBrokenLinks(r)
    <3> DEFINE state == [t EXCEPT !.broken = {s \in t.links : ~Exists(page[s])}, !.step = "delete"]
    <3>1. ~Writer(t) /\ Moves(r, state)
      BY <1>1, <2>7 DEF FindBrokenLinks, At, Course, Writer
    <3>2. state.op = t.op  BY <1>1 DEF Transactions
    <3> QED  BY <3>1, <3>2 DEF Editing, Writer
  <2>8. CASE Delete(r)
    <3> DEFINE seen == IF t.op = "validate" THEN ResultsOf(t.slug, t.no) ELSE LinksOf(t.slug)
               state == [t EXCEPT !.seen = seen, !.step = "commit"]
    <3>1. t.step = "delete" /\ Moves(r, state)  BY <2>8 DEF Delete, At
    <3>2. state.op = t.op /\ state.slug = t.slug /\ state.no = t.no  BY <1>1 DEF Transactions
    <3> QED  BY <3>1, <3>2 DEF Editing, Writer
  <2> QED  BY <2>1, <2>2, <2>3, <2>4, <2>5, <2>6, <2>7, <2>8
<1>4. PICK state : Moves(r, state) /\ Keeps(state)  BY <1>3
<1> QED  BY <1>4, MoveTo, SameEdit

(* A transaction that is rolled back. *)
LEMMA RaisesGivesUp ==
    ASSUME IInv, NEW r \in Requests, Raises(r)
    PROVE  [History!Next]_(History!hvars)
<1>1. ~Editing(Idle("error"))  BY DEF Editing, Idle
<1> QED  BY <1>1, MoveTo, SameEdit DEF Raises

LEMMA BeginKeepsEdits ==
    ASSUME IInv, NEW r \in Requests, NEW call, NEW item, Begin(r, call, item)
    PROVE  [History!Next]_(History!hvars)
<1> DEFINE state == [Idle("select") EXCEPT !.op = call.op, !.slug = call.slug, !.title = call.title,
                           !.status = call.status, !.links = call.links, !.item = item]
<1>1. Moves(r, state)  BY DEF Begin
<1>2. state.step = "select"  BY DEF Idle
<1> HIDE DEF state
<1> QED  BY <1>1, <1>2, MoveTo, SameEdit DEF Editing

(* _next_revision_no takes the number after the last version. *)
LEMMA NextNoTakes ==
    ASSUME IInv, NEW r \in Requests, NextRevisionNo(r)
    PROVE  [History!Next]_(History!hvars)
<1> DEFINE t == tx[r]
           state == [t EXCEPT !.no = LastNo(t.slug) + 1, !.locks = (t.locks \/ Dirty(r)), !.step = "byNo"]
<1>1. t.step = "nextNo" /\ t \in Transactions /\ Moves(r, state) /\ Writer(t) /\ t.slug \in Slugs
  BY DEF NextRevisionNo, Runs, At, IInv, Course
<1>2. PICK n \in Nat : LastNo(t.slug) = n  BY <1>1, LastNumber
<1>3. state.step = "byNo" /\ state.op = t.op /\ state.slug = t.slug /\ state.no = n + 1
  BY <1>1, <1>2 DEF Transactions
<1>4. Editing(state) /\ ~Editing(t)  BY <1>1, <1>3 DEF Editing, Writer
<1> HIDE DEF state
<1>5. tx'[r] = state /\ (\A q \in Requests \ {r} : tx'[q] = tx[q]) /\ UNCHANGED <<page, revisions>>
  BY <1>1, MoveTo
<1>6. Versions' = Versions /\ Currents' = Currents  BY <1>5, VersionsKept, CurrentsKept
<1>7. Edits' = Edits \cup {EditOf(r, state)} /\ \A d \in Edits : d.by # r
  BY <1>4, <1>5, EditsOfStep
<1>8. Len(Versions[t.slug]) = n
  <2>1. Versions[t.slug] = [no \in 1..n |-> TextOf(t.slug, no)]  BY <1>1, <1>2 DEF Versions
  <2> QED  BY <1>2, <2>1
<1>9. EditOf(r, state) = [by |-> r, slug |-> t.slug, no |-> Len(Versions[t.slug]) + 1]
  BY <1>3, <1>8 DEF EditOf
<1>10. History!Take(r, t.slug)  BY <1>6, <1>7, <1>9 DEF History!Take
<1> QED  BY <1>1, <1>10 DEF History!Next

(* The commits of the workflows that write no text. *)
LEMMA OtherCommits ==
    ASSUME IInv, NEW r \in Requests, CommitClaim(r) \/ CommitLinks(r) \/ CommitResults(r)
    PROVE  [History!Next]_(History!hvars)
<1>1. Commits(r) /\ UNCHANGED <<page, revisions>>
  BY DEF CommitClaim, CommitLinks, CommitResults
<1>2. tx'[r].step = "done" /\ \A q \in Requests \ {r} : tx'[q] = tx[q]
  BY <1>1, CommitEffect
<1> QED  BY <1>1, <1>2, SameEdit DEF Editing

(* publish_page shows a version there is, or what is shown already. *)
LEMMA PublishShows ==
    ASSUME IInv, NEW r \in Requests, CommitPublish(r)
    PROVE  [History!Next]_(History!hvars)
<1>1. PICK t : t = tx[r]
  OBVIOUS
<1> DEFINE assigned == [t.loaded EXCEPT !.status = "published", !.current = t.no]
           row == Flushed(page[t.slug], t.loaded, assigned)
<1>2. /\ Commits(r) /\ t.op = "publish" /\ page' = [page EXCEPT ![t.slug] = row]
      /\ revisions' = revisions
  BY <1>1 DEF CommitPublish, Assigned
<1>3. /\ t.step = "commit" /\ t \in Transactions /\ Course(t) /\ Numbering(t)
      /\ tx'[r].step = "done" /\ \A q \in Requests \ {r} : tx'[q] = tx[q]
  BY <1>1, <1>2, CommitEffect
<1>4. t.slug \in Slugs /\ t.no \in Numbers(t.slug)
  BY <1>2, <1>3 DEF Course, Writer, Numbering
<1>5. /\ assigned \in Pages /\ assigned.current = t.no
      /\ t.loaded \in Pages /\ page[t.slug] \in Pages /\ page \in [Slugs -> Pages]
  BY <1>3, <1>4 DEF Transactions, Pages, IInv, Stored, Tables
<1> HIDE DEF assigned
<1>6. row.current \in {page[t.slug].current, t.no}
  BY <1>5, FlushedPage
<1> HIDE DEF row
<1>7. Currents' = [Currents EXCEPT ![t.slug] = row.current]
  BY <1>2, <1>4, <1>5 DEF Currents
<1>8. Versions' = Versions  BY <1>2, VersionsKept
<1>9. Edits' = Edits
  <2>1. ~Editing(tx[r]) /\ ~Editing(tx'[r])  BY <1>1, <1>2, <1>3 DEF Editing, Writer
  <2> QED  BY <1>3, <2>1, EditsOfStep
<1>10. CASE row.current = page[t.slug].current
  <2>1. Currents' = Currents  BY <1>4, <1>7, <1>10 DEF Currents
  <2> QED  BY <1>8, <1>9, <2>1 DEF History!hvars
<1>11. CASE row.current = t.no
  <2>1. PICK n \in Nat : Numbers(t.slug) = 1..n /\ LastNo(t.slug) = n  BY <1>4, LastNumber
  <2>2. Len(Versions[t.slug]) = n
    <3>1. Versions[t.slug] = [no \in 1..n |-> TextOf(t.slug, no)]  BY <1>4, <2>1 DEF Versions
    <3> QED  BY <2>1, <3>1
  <2>3. t.no \in 1..Len(Versions[t.slug])  BY <1>4, <2>1, <2>2
  <2>4. History!Show(t.slug, t.no)  BY <1>7, <1>8, <1>9, <1>11, <2>3 DEF History!Show
  <2> QED  BY <1>4, <2>3, <2>4 DEF History!Next
<1> QED  BY <1>6, <1>10, <1>11

LEMMA LastOfInterval ==
    ASSUME NEW n \in Nat, NEW N, N = 1..n
    PROVE  (CHOOSE k \in N \cup {0} : \A m \in N : m <= k) = n
<1>1. n \in N \cup {0} /\ \A m \in N : m <= n
  OBVIOUS
<1>2. \A k \in N \cup {0} : (\A m \in N : m <= k) => k = n
  OBVIOUS
<1> QED  BY <1>1, <1>2

LEMMA TextOfRevision ==
    ASSUME Numbered, NEW v \in revisions
    PROVE  TextOf(v.slug, v.no) = v.text
<1>1. \A w \in revisions : w.slug = v.slug /\ w.no = v.no => w = v  BY DEF Numbered
<1>2. (CHOOSE w \in revisions : w.slug = v.slug /\ w.no = v.no) = v  BY <1>1
<1> QED  BY <1>2 DEF TextOf

(* What the commit of a text does to the revisions. *)
LEMMA RevisionCommitted ==
    ASSUME IInv, NEW r \in Requests, CommitRevision(r)
    PROVE  LET t == tx[r] IN
           /\ Editing(t) /\ t \in Transactions /\ t.slug \in Slugs /\ t.no \in Nat
           /\ tx'[r].step = "done" /\ \A q \in Requests \ {r} : tx'[q] = tx[q]
           /\ Currents' = [Currents EXCEPT ![t.slug] = t.no]
           /\ \E new \in revisions' : new.slug = t.slug /\ new.no = t.no /\ new.text = r
           /\ \A v \in revisions : v.slug # t.slug \/ v.no # t.no => v \in revisions'
           /\ \A v \in revisions' : v \in revisions \/ (v.slug = t.slug /\ v.no = t.no)
<1>1. PICK t : t = tx[r]
  OBVIOUS
<1>2. PICK row : row = IF Exists(t.loaded)
                       THEN [Flushed(page[t.slug], t.loaded, Assigned(r)) EXCEPT !.current = t.no]
                       ELSE NewPage(r)
  OBVIOUS
<1> DEFINE new == [slug |-> t.slug, no |-> t.no, text |-> r, links |-> t.links]
<1>3. /\ Commits(r) /\ Writer(t)
      /\ page' = [page EXCEPT ![t.slug] = row]
      /\ revisions' = (IF t.found THEN {v \in revisions : v.slug # t.slug \/ v.no # t.no}
                       ELSE revisions) \cup {new}
  BY <1>1, <1>2 DEF CommitRevision, Writer
<1>4. /\ t.step = "commit" /\ t \in Transactions /\ Course(t) /\ Numbering(t)
      /\ tx'[r].step = "done" /\ \A q \in Requests \ {r} : tx'[q] = tx[q]
  BY <1>1, <1>3, CommitEffect
<1>5. t.slug \in Slugs /\ t.no \in Nat /\ Editing(t)
  BY <1>3, <1>4 DEF Course, Transactions, Editing
<1>6. row.current = t.no
  BY <1>1, <1>2, <1>3, <1>4, RevisedPage
<1>7. Currents' = [Currents EXCEPT ![t.slug] = t.no]
  BY <1>3, <1>5, <1>6 DEF Currents, IInv, Stored, Tables
<1>8. new.slug = t.slug /\ new.no = t.no /\ new.text = r
  OBVIOUS
<1> HIDE DEF new
<1> QED  BY <1>1, <1>3, <1>4, <1>5, <1>7, <1>8

LEMMA CommitStores ==
    ASSUME IInv, IInv', NEW r \in Requests, CommitRevision(r)
    PROVE  [History!Next]_(History!hvars)
<1>1. PICK t : t = tx[r]
  OBVIOUS
<1>2. /\ Editing(t) /\ t \in Transactions /\ t.slug \in Slugs /\ t.no \in Nat
      /\ tx'[r].step = "done" /\ \A q \in Requests \ {r} : tx'[q] = tx[q]
      /\ Currents' = [Currents EXCEPT ![t.slug] = t.no]
  BY <1>1, RevisionCommitted
<1>3. PICK new \in revisions' : new.slug = t.slug /\ new.no = t.no /\ new.text = r
  BY <1>1, RevisionCommitted
<1>4. /\ \A v \in revisions : v.slug # t.slug \/ v.no # t.no => v \in revisions'
      /\ \A v \in revisions' : v \in revisions \/ (v.slug = t.slug /\ v.no = t.no)
  BY <1>1, RevisionCommitted
<1>5. Numbered /\ Numbered'  BY DEF IInv, Stored
<1>6. EditOf(r, t) \in Edits /\ Edits' = Edits \ {EditOf(r, t)}
  <2>1. ~Editing(tx'[r])  BY <1>2 DEF Editing
  <2> QED  BY <1>1, <1>2, <2>1, EditsOfStep
<1>7. ASSUME NEW s \in Slugs
      PROVE  Versions'[s] = IF s = t.slug THEN History!Put(Versions[s], t.no, r) ELSE Versions[s]
  <2>1. PICK n \in Nat : Numbers(s) = 1..n /\ LastNo(s) = n  BY LastNumber
  <2>2. PICK m \in Nat : Numbers(s)' = 1..m /\ LastNo(s)' = m
    <3>1. PICK m \in Nat : Numbers(s)' = 1..m  BY <1>5 DEF Numbered
    <3>2. LastNo(s)' = m  BY <3>1, LastOfInterval DEF LastNo
    <3> QED  BY <3>1, <3>2
  <2>3. /\ Versions[s] = [no \in 1..n |-> TextOf(s, no)]
        /\ Versions'[s] = [no \in 1..m |-> TextOf(s, no)']
    BY <2>1, <2>2 DEF Versions
  <2>4. ASSUME NEW no \in 1..n, s # t.slug \/ no # t.no
        PROVE  no \in 1..m /\ TextOf(s, no)' = TextOf(s, no)
    <3>1. no \in Numbers(s)  BY <2>1
    <3>2. PICK v \in revisions : v.slug = s /\ v.no = no  BY <3>1 DEF Numbers
    <3>3. v \in revisions'  BY <1>4, <2>4, <3>2
    <3>4. no \in Numbers(s)'  BY <3>2, <3>3 DEF Numbers
    <3>5. TextOf(s, no) = v.text  BY <1>5, <3>2, TextOfRevision
    <3>6. TextOf(s, no)' = v.text  BY <1>5, <3>2, <3>3 DEF TextOf, Numbered
    <3> QED  BY <2>2, <3>4, <3>5, <3>6
  <2>5. ASSUME NEW no \in 1..m, s # t.slug \/ no # t.no
        PROVE  no \in 1..n
    <3>1. no \in Numbers(s)'  BY <2>2
    <3>2. PICK v \in revisions' : v.slug = s /\ v.no = no  BY <3>1 DEF Numbers
    <3>3. v \in revisions  BY <1>4, <2>5, <3>2
    <3>4. no \in Numbers(s)  BY <3>2, <3>3 DEF Numbers
    <3> QED  BY <2>1, <3>4
  <2>6. CASE s # t.slug
    <3>1. 1..n = 1..m  BY <2>4, <2>5, <2>6
    <3>2. \A no \in 1..n : TextOf(s, no)' = TextOf(s, no)  BY <2>4, <2>6
    <3> QED  BY <2>3, <2>6, <3>1, <3>2
  <2>7. CASE s = t.slug
    <3>1. t.no \in Numbers(s)'  BY <1>3, <2>7 DEF Numbers
    <3>2. TextOf(s, t.no)' = r  BY <1>3, <1>5, <2>7 DEF TextOf, Numbered
    <3>3. 1..m = (1..n) \cup {t.no}  BY <2>2, <2>4, <2>5, <3>1
    <3>4. History!Put(Versions[s], t.no, r)
             = [no \in (1..n) \cup {t.no} |-> IF no = t.no THEN r ELSE TextOf(s, no)]
      BY <2>3 DEF History!Put
    <3>5. \A no \in 1..m : TextOf(s, no)' = IF no = t.no THEN r ELSE TextOf(s, no)
      BY <2>4, <2>5, <3>2
    <3> QED  BY <2>3, <2>7, <3>3, <3>4, <3>5
  <2> QED  BY <2>6, <2>7
<1>8. Versions' = [Versions EXCEPT ![t.slug] = History!Put(@, t.no, r)]
  <2>1. /\ Versions = [s \in Slugs |-> Versions[s]]
        /\ Versions' = [s \in Slugs |-> Versions'[s]]
    BY DEF Versions
  <2> QED  BY <1>2, <1>7, <2>1
<1>9. /\ EditOf(r, t).by = r /\ EditOf(r, t).slug = t.slug /\ EditOf(r, t).no = t.no
  BY DEF EditOf
<1>10. History!Store(EditOf(r, t))  BY <1>2, <1>6, <1>8, <1>9 DEF History!Store
<1> QED  BY <1>6, <1>10 DEF History!Next

(* Every step of the transactions is one of the history, or none. *)
LEMMA StatementMaps ==
    ASSUME IInv, IInv', NEW r \in Requests, Statement(r) \/ Fails(r)
    PROVE  [History!Next]_(History!hvars)
<1>1. CASE NextRevisionNo(r)  BY <1>1, NextNoTakes
<1>2. CASE \/ SelectPage(r) \/ CreatePage(r) \/ GetRevisionByNo(r) \/ FlushRevision(r)
           \/ SetCurrent(r) \/ ResolveRevision(r) \/ FindBrokenLinks(r) \/ Delete(r)
  BY <1>2, StatementKeepsEdits
<1>3. CASE CommitRevision(r)  BY <1>3, CommitStores
<1>4. CASE CommitPublish(r)  BY <1>4, PublishShows
<1>5. CASE CommitClaim(r) \/ CommitLinks(r) \/ CommitResults(r)  BY <1>5, OtherCommits
<1>6. CASE DeadlockDetected(r) \/ Fails(r)
  BY <1>6, RaisesGivesUp DEF DeadlockDetected, Fails
<1> QED  BY <1>1, <1>2, <1>3, <1>4, <1>5, <1>6 DEF Statement, Commit

LEMMA InitMaps == Init => History!Init
<1> SUFFICES ASSUME Init PROVE History!Init
  OBVIOUS
<1>1. \A s \in Slugs : Numbers(s) = {}  BY DEF Init, Numbers
<1>2. \A s \in Slugs : LastNo(s) = 0
  <2>1. 1..0 = {} /\ 0 \in Nat
    OBVIOUS
  <2> QED  BY <1>1, <2>1, LastOfInterval DEF LastNo
<1>3. Versions = [s \in Slugs |-> << >>]
  <2>1. \A s \in Slugs : [no \in 1..LastNo(s) |-> TextOf(s, no)] = << >>
    BY <1>2
  <2> QED  BY <2>1 DEF Versions
<1>4. Currents = [s \in Slugs |-> 0]  BY DEF Init, Currents, NoPage
<1>5. Edits = {}  BY DEF Init, Edits, Idle
<1> QED  BY <1>3, <1>4, <1>5 DEF History!Init

LEMMA StutterMaps ==
    ASSUME UNCHANGED vars
    PROVE  [History!Next]_(History!hvars)
<1>1. UNCHANGED <<page, revisions, tx>>  BY DEF vars, tables
<1>2. Edits' = Edits  BY <1>1 DEF Edits
<1> QED  BY <1>1, <1>2, VersionsKept, CurrentsKept DEF History!hvars

LEMMA StepMaps == IInv /\ IInv' /\ [Next]_vars => [History!Next]_(History!hvars)
<1> SUFFICES ASSUME IInv, IInv', [Next]_vars PROVE [History!Next]_(History!hvars)
  OBVIOUS
<1>1. ASSUME NEW r \in Requests, Call(r) PROVE [History!Next]_(History!hvars)
  BY <1>1, BeginKeepsEdits DEF Call
<1>2. ASSUME NEW r \in Requests, Statement(r) \/ Fails(r) PROVE [History!Next]_(History!hvars)
  BY <1>2, StatementMaps
<1>3. CASE UNCHANGED vars  BY <1>3, StutterMaps
<1> QED  BY <1>1, <1>2, <1>3 DEF Next

(* The transactions of READ COMMITTED keep the history of every page that  *)
(* WikiHistory describes: each edit stores its text under the number it    *)
(* took, and no commit, publication or rollback changes or removes another *)
(* version.                                                                *)
THEOREM WikiKeepsHistory == Spec => ImplementsWikiHistory
BY InitMaps, StepMaps, WikiInvariant, PTL DEF Spec, ImplementsWikiHistory, History!Spec

(* A number that is taken is the one after the last.                       *)
LEMMA TakenNumbersNew ==
    ASSUME IInv, [History!Next]_(History!hvars), NEW d \in Edits', d \notin Edits
    PROVE  d.slug \in Slugs /\ d.no \notin Numbers(d.slug)
<1>1. PICK e \in Requests, s \in Slugs : History!Take(e, s)
  BY DEF History!Next, History!hvars, History!Store, History!GiveUp, History!Show
<1>2. PICK n \in Nat : Numbers(s) = 1..n /\ LastNo(s) = n  BY LastNumber
<1>3. Len(Versions[s]) = n
  <2>1. Versions[s] = [no \in 1..n |-> TextOf(s, no)]  BY <1>2 DEF Versions
  <2> QED  BY <1>2, <2>1
<1>4. d = [by |-> e, slug |-> s, no |-> n + 1]  BY <1>1, <1>3 DEF History!Take
<1> QED  BY <1>2, <1>4

(* Nothing but the commit of a text touches the revisions. *)
LEMMA RevisionsKept ==
    ASSUME [Next]_vars, \A r \in Requests : ~CommitRevision(r)
    PROVE  revisions' = revisions
<1>1. \A r \in Requests : Call(r) => revisions' = revisions
  BY DEF Call, Begin, Moves, tables
<1>2. ASSUME NEW r \in Requests, Statement(r) \/ Fails(r) PROVE revisions' = revisions
  BY <1>2 DEF Statement, SelectPage, CreatePage, NextRevisionNo, GetRevisionByNo, FlushRevision,
     SetCurrent, ResolveRevision, FindBrokenLinks, Delete, Commit, CommitPublish, CommitClaim,
     CommitLinks, CommitResults, DeadlockDetected, Fails, Raises, Goto, Moves, tables
<1> QED  BY <1>1, <1>2 DEF Next, vars, tables

(* A step that keeps the revisions settled keeps them settled.             *)
LEMMA SettledFrame ==
    ASSUME IInv, [History!Next]_(History!hvars), Settled \subseteq revisions'
    PROVE  Settled \subseteq Settled'
<1> SUFFICES ASSUME NEW v \in Settled PROVE v \in Settled'
  OBVIOUS
<1>1. v \in revisions /\ \A d \in Edits : d.slug # v.slug \/ d.no # v.no  BY DEF Settled
<1>2. ASSUME NEW d \in Edits' PROVE d.slug # v.slug \/ d.no # v.no
  <2>1. CASE d \in Edits  BY <1>1, <2>1
  <2>2. CASE d \notin Edits
    <3>1. d.no \notin Numbers(d.slug)  BY <1>2, <2>2, TakenNumbersNew
    <3>2. v.no \in Numbers(v.slug)  BY <1>1 DEF Numbers
    <3> QED  BY <3>1, <3>2
  <2> QED  BY <2>1, <2>2
<1> QED  BY <1>2 DEF Settled

LEMMA SettledStay ==
    ASSUME IInv, [Next]_vars, [History!Next]_(History!hvars)
    PROVE  Settled \subseteq Settled'
<1> SUFFICES ASSUME NEW v \in Settled PROVE v \in revisions'
  BY SettledFrame
<1>1. v \in revisions /\ \A d \in Edits : d.slug # v.slug \/ d.no # v.no  BY DEF Settled
<1>2. CASE \A r \in Requests : ~CommitRevision(r)  BY <1>1, <1>2, RevisionsKept
<1>3. ASSUME NEW r \in Requests, CommitRevision(r) PROVE v \in revisions'
  <2>1. /\ Editing(tx[r])
        /\ v.slug # tx[r].slug \/ v.no # tx[r].no => v \in revisions'
    BY <1>1, <1>3, RevisionCommitted
  <2>2. EditOf(r, tx[r]) \in Edits  BY <2>1, EditsByRequest
  <2> QED  BY <1>1, <2>1, <2>2 DEF EditOf
<1> QED  BY <1>2, <1>3

(* What is left of "immutable page revisions": once no edit under way has  *)
(* taken its number, a stored revision keeps its text and its links for    *)
(* ever, for any number of editors, publications and failures.             *)
THEOREM SettledRevisionsStay == Spec => SettledRevisionsKept
BY SettledStay, StepMaps, WikiInvariant, PTL DEF Spec, SettledRevisionsKept
=============================================================================
