-------------------------- MODULE WikiCompileProofs --------------------------
(***************************************************************************)
(* Theorems about WikiCompile, for any number of compilations, editors and *)
(* claims: the wiki keeps its invariants while pages are compiled, and a   *)
(* compile job that says succeeded is complete.                            *)
(***************************************************************************)
EXTENDS WikiCompile, WikiPagesProofs

USE CompileAssumption

(* The compilation c stored its first n claims, all for the page s, which  *)
(* has the revision it answers with.                                       *)
Kept(c, n, s) ==
    /\ {claim.item : claim \in ClaimsOf(c)} = 1..n
    /\ \A claim \in ClaimsOf(c) : claim.slug = s
    /\ compiled[c] \in Numbers(s)

(* What a compilation has written by the stage it is at.                   *)
Progress(c) ==
    /\ at[c] \in {"start", "created", "query", "title", "recordFailure"} =>
          tx[c].step = "new" /\ ClaimsOf(c) = {}
    /\ at[c] = "page" =>
          /\ tx[c].step # "new" /\ ClaimsOf(c) = {}
          /\ tx[c].step # "error" => tx[c].op = "write" /\ tx[c].item = 0
    /\ at[c] = "claims" =>
          /\ tx[c].step # "new"
          /\ tx[c].step # "error" =>
                /\ tx[c].op = "claim" /\ tx[c].item \in 1..ClaimCount
                /\ Kept(c, IF tx[c].step = "done" THEN tx[c].item ELSE tx[c].item - 1, tx[c].slug)
    /\ at[c] = "recordSuccess" =>
          tx[c].step = "done" /\ tx[c].op \in {"write", "claim"} /\ Kept(c, ClaimCount, tx[c].slug)
    /\ at[c] = "answered" => tx[c].step = "done" /\ \E s \in Slugs : Kept(c, ClaimCount, s)
    /\ job[c] = "succeeded" => at[c] = "answered"

CIInv == IInv /\ CTypeOK /\ \A c \in Compilers : Progress(c)

LEMMA CInitInv == CInit => CIInv
<1> SUFFICES ASSUME CInit PROVE CIInv
  OBVIOUS
<1>1. IInv  BY InitInv DEF CInit
<1>2. CTypeOK  BY DEF CInit, CTypeOK, Stages, Tried
<1>3. ASSUME NEW c \in Compilers PROVE Progress(c)
  <2>1. tx[c].step = "new"  BY DEF CInit, Init, Idle
  <2>2. ClaimsOf(c) = {}  BY DEF CInit, Init, ClaimsOf
  <2> QED  BY <2>1, <2>2 DEF CInit, Progress
<1> QED  BY <1>1, <1>2, <1>3 DEF CIInv

LEMMA ProgressFrame ==
    ASSUME NEW c \in Compilers, Progress(c),
           tx'[c] = tx[c], at'[c] = at[c], job'[c] = job[c], compiled'[c] = compiled[c],
           ClaimsOf(c)' = ClaimsOf(c), \A s : Numbers(s) \subseteq Numbers(s)'
    PROVE  Progress(c)'
<1>1. ASSUME NEW n, NEW s, Kept(c, n, s) PROVE Kept(c, n, s)'
  BY <1>1 DEF Kept
<1>2. Kept(c, ClaimCount, tx[c].slug) => Kept(c, ClaimCount, tx[c].slug)'
  BY <1>1 DEF Kept
<1> QED
  BY <1>1, <1>2 DEF Progress, Kept

(* What a statement of r may change that a compilation sees.               *)
LEMMA StatementEffect ==
    ASSUME IInv, NEW r \in Requests, Statement(r) \/ Fails(r)
    PROVE  /\ tx[r].step \notin {"new", "done", "error"}
           /\ \A q \in Requests \ {r} : tx'[q] = tx[q]
           /\ \A s : Numbers(s) \subseteq Numbers(s)'
           /\ \/ tx'[r] = Idle("error") /\ claims' = claims
              \/ /\ tx'[r].op = tx[r].op /\ tx'[r].slug = tx[r].slug /\ tx'[r].item = tx[r].item
                 /\ tx'[r].step \notin {"new", "error"}
                 /\ claims' = IF tx'[r].step = "done" /\ tx[r].op = "claim"
                              THEN claims \cup {[slug |-> tx[r].slug, no |-> tx[r].no,
                                                 by |-> r, item |-> tx[r].item]}
                              ELSE claims
<1> USE DEF IInv, Moves, tables
<1>1. tx \in [Requests -> Transactions] /\ tx[r] \in Transactions
  OBVIOUS
<1>2. ASSUME Raises(r)
      PROVE  /\ \A q \in Requests \ {r} : tx'[q] = tx[q]
             /\ \A s : Numbers(s) \subseteq Numbers(s)'
             /\ tx'[r] = Idle("error") /\ claims' = claims
  BY <1>1, <1>2 DEF Raises, Numbers
<1>3. CASE Fails(r)  BY <1>2, <1>3 DEF Fails, Open
<1>4. CASE DeadlockDetected(r)
  <2>1. PICK S \in SUBSET Requests : r \in S /\ Circle(S)  BY <1>4 DEF DeadlockDetected
  <2>2. tx[r].step \in {"insertPage", "setCurrent", "flushRevision", "nextNo", "commit"}
    BY <2>1, Waiting DEF Circle, At
  <2> QED  BY <1>2, <1>4, <2>2 DEF DeadlockDetected
<1>5. ASSUME NEW state, Moves(r, state), state.step \notin {"new", "error", "done"},
             tx[r].step \notin {"new", "done", "error"},
             state.op = tx[r].op, state.slug = tx[r].slug, state.item = tx[r].item
      PROVE  /\ \A q \in Requests \ {r} : tx'[q] = tx[q]
             /\ \A s : Numbers(s) \subseteq Numbers(s)'
             /\ tx'[r] = state /\ claims' = claims
  BY <1>1, <1>5 DEF Numbers
<1>6. CASE SelectPage(r)
  <2> DEFINE state == [tx[r] EXCEPT !.loaded = page[tx[r].slug], !.step = AfterSelect(tx[r].op)]
  <2>1. AfterSelect(tx[r].op) \in {"nextNo", "delete", "resolve"}  BY DEF AfterSelect
  <2>2. /\ state.step = AfterSelect(tx[r].op) /\ state.op = tx[r].op
        /\ state.slug = tx[r].slug /\ state.item = tx[r].item
    BY <1>1 DEF Transactions
  <2>3. CASE Moves(r, state)  BY <1>5, <1>6, <2>1, <2>2, <2>3 DEF SelectPage, At
  <2>4. CASE Goto(r, "insertPage")
    BY <1>1, <1>5, <1>6, <2>4 DEF SelectPage, At, Goto, Transactions
  <2>5. CASE Raises(r)  BY <1>2, <1>6, <2>5 DEF SelectPage, At
  <2> QED  BY <1>6, <2>3, <2>4, <2>5 DEF SelectPage
<1>7. CASE CreatePage(r)
  <2> DEFINE state == [tx[r] EXCEPT !.locks = TRUE, !.step = "nextNo"]
  <2>1. /\ state.step = "nextNo" /\ state.op = tx[r].op
        /\ state.slug = tx[r].slug /\ state.item = tx[r].item
    BY <1>1 DEF Transactions
  <2>2. CASE Moves(r, state)  BY <1>5, <1>7, <2>1, <2>2 DEF CreatePage, Runs, At
  <2>3. CASE Raises(r)  BY <1>2, <1>7, <2>3 DEF CreatePage, Runs, At
  <2> QED  BY <1>7, <2>2, <2>3 DEF CreatePage
<1>8. CASE NextRevisionNo(r)
  <2> DEFINE locked == tx[r].locks \/ Dirty(r)
             state == [tx[r] EXCEPT !.no = LastNo(tx[r].slug) + 1, !.locks = locked, !.step = "byNo"]
  <2>1. Moves(r, state) /\ tx[r].step = "nextNo"  BY <1>8 DEF NextRevisionNo, Runs, At
  <2> HIDE DEF locked
  <2>2. /\ state.step = "byNo" /\ state.op = tx[r].op
        /\ state.slug = tx[r].slug /\ state.item = tx[r].item
    BY <1>1 DEF Transactions
  <2> QED  BY <1>5, <2>1, <2>2
<1>9. CASE GetRevisionByNo(r)
  <2> DEFINE found == tx[r].no \in Numbers(tx[r].slug)
             state == [tx[r] EXCEPT !.found = found, !.step = "flushRevision"]
  <2>1. Moves(r, state) /\ tx[r].step = "byNo"  BY <1>9 DEF GetRevisionByNo, At
  <2> HIDE DEF found
  <2>2. /\ state.step = "flushRevision" /\ state.op = tx[r].op
        /\ state.slug = tx[r].slug /\ state.item = tx[r].item
    BY <1>1 DEF Transactions
  <2> QED  BY <1>5, <2>1, <2>2
<1>10. CASE FlushRevision(r)
  <2>1. CASE Goto(r, "setCurrent")
    BY <1>1, <1>5, <1>10, <2>1 DEF FlushRevision, Runs, At, Goto, Transactions
  <2>2. CASE Raises(r)  BY <1>2, <1>10, <2>2 DEF FlushRevision, Runs, At
  <2> QED  BY <1>10, <2>1, <2>2 DEF FlushRevision
<1>11. CASE SetCurrent(r)
  <2> DEFINE state == [tx[r] EXCEPT !.locks = TRUE, !.step = "delete"]
  <2>1. Moves(r, state) /\ tx[r].step = "setCurrent"  BY <1>11 DEF SetCurrent, Runs, At
  <2>2. /\ state.step = "delete" /\ state.op = tx[r].op
        /\ state.slug = tx[r].slug /\ state.item = tx[r].item
    BY <1>1 DEF Transactions
  <2> QED  BY <1>5, <2>1, <2>2
<1>12. CASE ResolveRevision(r)
  <2>1. PICK no : IF tx[r].op # "validate"
                  THEN Moves(r, [tx[r] EXCEPT !.no = no, !.step = "commit"])
                  ELSE \E rev \in revisions :
                         Moves(r, [tx[r] EXCEPT !.no = no, !.text = rev.text, !.links = rev.links,
                                                !.step = "findBroken"])
    BY <1>12 DEF ResolveRevision
  <2>2. CASE Moves(r, [tx[r] EXCEPT !.no = no, !.step = "commit"])
    BY <1>1, <1>5, <1>12, <2>2 DEF ResolveRevision, At, Transactions
  <2>3. ASSUME NEW rev \in revisions,
               Moves(r, [tx[r] EXCEPT !.no = no, !.text = rev.text, !.links = rev.links,
                                      !.step = "findBroken"])
        PROVE  /\ tx[r].step \notin {"new", "done", "error"}
               /\ \A q \in Requests \ {r} : tx'[q] = tx[q]
               /\ \A s : Numbers(s) \subseteq Numbers(s)'
               /\ tx'[r].op = tx[r].op /\ tx'[r].slug = tx[r].slug /\ tx'[r].item = tx[r].item
               /\ tx'[r].step = "findBroken" /\ claims' = claims
    BY <1>1, <1>5, <1>12, <2>3 DEF ResolveRevision, At, Transactions
  <2> QED  BY <2>1, <2>2, <2>3
<1>13. CASE FindBrokenLinks(r)
  <2> DEFINE broken == {s \in tx[r].links : ~Exists(page[s])}
             state == [tx[r] EXCEPT !.broken = broken, !.step = "delete"]
  <2>1. Moves(r, state) /\ tx[r].step = "findBroken"  BY <1>13 DEF FindBrokenLinks, At
  <2> HIDE DEF broken
  <2>2. /\ state.step = "delete" /\ state.op = tx[r].op
        /\ state.slug = tx[r].slug /\ state.item = tx[r].item
    BY <1>1 DEF Transactions
  <2> QED  BY <1>5, <2>1, <2>2
<1>14. CASE Delete(r)
  <2> DEFINE seen == IF tx[r].op = "validate" THEN ResultsOf(tx[r].slug, tx[r].no)
                     ELSE LinksOf(tx[r].slug)
             state == [tx[r] EXCEPT !.seen = seen, !.step = "commit"]
  <2>1. Moves(r, state) /\ tx[r].step = "delete"  BY <1>14 DEF Delete, At
  <2> HIDE DEF seen
  <2>2. /\ state.step = "commit" /\ state.op = tx[r].op
        /\ state.slug = tx[r].slug /\ state.item = tx[r].item
    BY <1>1 DEF Transactions
  <2> QED  BY <1>5, <2>1, <2>2
<1>15. ASSUME Commits(r)
       PROVE  /\ tx[r].step = "commit" /\ \A q \in Requests \ {r} : tx'[q] = tx[q]
              /\ tx'[r].op = tx[r].op /\ tx'[r].slug = tx[r].slug /\ tx'[r].item = tx[r].item
              /\ tx'[r].step = "done"
  BY <1>15, CommitEffect
<1>16. CASE CommitRevision(r)
  <2> DEFINE t == tx[r]
             new == [slug |-> t.slug, no |-> t.no, text |-> r, links |-> t.links]
             kept == IF t.found THEN {v \in revisions : v.slug # t.slug \/ v.no # t.no} ELSE revisions
  <2>1. Commits(r) /\ revisions' = kept \cup {new} /\ claims' = claims /\ tx[r].op # "claim"
    BY <1>16 DEF CommitRevision
  <2>2. \A v \in revisions : v \in kept \/ (v.slug = new.slug /\ v.no = new.no)
    OBVIOUS
  <2> HIDE DEF kept, new
  <2>3. \A s : Numbers(s) \subseteq Numbers(s)'
    BY <2>1, <2>2 DEF Numbers
  <2> QED  BY <1>15, <2>1, <2>3
<1>17. CASE CommitClaim(r)
  BY <1>15, <1>17 DEF CommitClaim, Numbers
<1>18. CASE CommitPublish(r) \/ CommitLinks(r) \/ CommitResults(r)
  BY <1>15, <1>18 DEF CommitPublish, CommitLinks, CommitResults, Numbers
<1> QED
  BY <1>3, <1>4, <1>6, <1>7, <1>8, <1>9, <1>10, <1>11, <1>12, <1>13, <1>14, <1>16, <1>17, <1>18
     DEF Statement, Commit

LEMMA EditorsInv ==
    ASSUME CIInv, UNCHANGED <<job, at, compiled, unrecorded>>,
           \/ \E r \in Requests \ Compilers : Call(r)
           \/ \E r \in Requests : Statement(r) \/ Fails(r)
    PROVE  CIInv'
<1>1. IInv'  BY CallInv, StatementInv DEF CIInv
<1>2. CTypeOK'  BY DEF CIInv, CTypeOK
<1>3. CASE \E r \in Requests \ Compilers : Call(r)
  <2>1. PICK r \in Requests \ Compilers : Call(r)  BY <1>3
  <2>2. PICK call \in Calls : Begin(r, call, 1)  BY <2>1 DEF Call
  <2>3. /\ \A q \in Requests \ {r} : tx'[q] = tx[q]
        /\ claims' = claims /\ revisions' = revisions
    BY <2>2 DEF Begin, Moves, tables, CIInv, IInv
  <2>4. /\ \A s : Numbers(s) \subseteq Numbers(s)'
        /\ \A c : ClaimsOf(c)' = ClaimsOf(c)
    BY <2>3 DEF Numbers, ClaimsOf
  <2>5. \A c \in Compilers : Progress(c)'
    BY <2>1, <2>3, <2>4, ProgressFrame DEF CIInv
  <2> QED  BY <1>1, <1>2, <2>5 DEF CIInv
<1>4. CASE \E r \in Requests : Statement(r) \/ Fails(r)
  <2>1. PICK r \in Requests : Statement(r) \/ Fails(r)  BY <1>4
  <2> DEFINE stored == [slug |-> tx[r].slug, no |-> tx[r].no, by |-> r, item |-> tx[r].item]
  <2>2. /\ tx[r].step \notin {"new", "done", "error"}
        /\ \A q \in Requests \ {r} : tx'[q] = tx[q]
        /\ \A s : Numbers(s) \subseteq Numbers(s)'
        /\ \/ tx'[r] = Idle("error") /\ claims' = claims
           \/ /\ tx'[r].op = tx[r].op /\ tx'[r].slug = tx[r].slug /\ tx'[r].item = tx[r].item
              /\ tx'[r].step \notin {"new", "error"}
              /\ claims' = IF tx'[r].step = "done" /\ tx[r].op = "claim"
                           THEN claims \cup {stored} ELSE claims
    BY <2>1, StatementEffect DEF CIInv
  <2>3. stored.by = r /\ stored.slug = tx[r].slug /\ stored.item = tx[r].item
    OBVIOUS
  <2> HIDE DEF stored
  <2>4. ASSUME NEW c \in Compilers \ {r} PROVE Progress(c)'
    <3>1. ClaimsOf(c)' = ClaimsOf(c)  BY <2>2, <2>3 DEF ClaimsOf
    <3> QED  BY <2>2, <3>1, ProgressFrame DEF CIInv
  <2>5. ASSUME r \in Compilers PROVE Progress(r)'
    <3>1. Progress(r)  BY <2>5 DEF CIInv
    <3>2. CASE tx'[r] = Idle("error") /\ claims' = claims
      <4>1. ClaimsOf(r)' = ClaimsOf(r)  BY <3>2 DEF ClaimsOf
      <4>2. \A n, s : Kept(r, n, s) => Kept(r, n, s)'
        BY <2>2, <4>1 DEF Kept
      <4> QED  BY <2>2, <3>1, <3>2, <4>1, <4>2, IdleEnds DEF Progress
    <3>3. CASE /\ tx'[r].op = tx[r].op /\ tx'[r].slug = tx[r].slug /\ tx'[r].item = tx[r].item
               /\ tx'[r].step \notin {"new", "error"}
               /\ claims' = IF tx'[r].step = "done" /\ tx[r].op = "claim"
                            THEN claims \cup {stored} ELSE claims
      <4>1. CASE tx'[r].step = "done" /\ tx[r].op = "claim"
        <5>1. ClaimsOf(r)' = ClaimsOf(r) \cup {stored}  BY <2>3, <3>3, <4>1 DEF ClaimsOf
        <5>2. at[r] \notin {"start", "created", "query", "title", "recordFailure", "page",
                            "recordSuccess", "answered"}
          BY <2>2, <3>1, <4>1 DEF Progress
        <5>3. PICK s, n : s = tx[r].slug /\ n = tx[r].item
          OBVIOUS
        <5>4. ASSUME at[r] = "claims" PROVE n \in 1..ClaimCount /\ Kept(r, n, s)'
          <6>1. n \in 1..ClaimCount /\ Kept(r, n - 1, s)
            BY <2>2, <3>1, <5>3, <5>4 DEF Progress
          <6>2. (1..(n - 1)) \cup {n} = 1..n  BY <6>1
          <6>3. {claim.item : claim \in ClaimsOf(r)'} = 1..n
            BY <2>3, <5>1, <5>3, <6>1, <6>2 DEF Kept
          <6> QED  BY <2>2, <2>3, <5>1, <5>3, <6>1, <6>3 DEF Kept
        <5> QED  BY <3>1, <3>3, <4>1, <5>2, <5>3, <5>4 DEF Progress
      <4>2. CASE ~(tx'[r].step = "done" /\ tx[r].op = "claim")
        <5>1. ClaimsOf(r)' = ClaimsOf(r)  BY <3>3, <4>2 DEF ClaimsOf
        <5>2. \A n, s : Kept(r, n, s) => Kept(r, n, s)'
          BY <2>2, <5>1 DEF Kept
        <5> QED  BY <2>2, <3>1, <3>3, <4>2, <5>1, <5>2 DEF Progress
      <4> QED  BY <4>1, <4>2
    <3> QED  BY <2>2, <3>2, <3>3
  <2> QED  BY <1>1, <1>2, <2>4, <2>5 DEF CIInv
<1> QED  BY <1>3, <1>4

(* The other compilations notice nothing of a step of c.                   *)
LEMMA CompilersFrame ==
    ASSUME CIInv, NEW c \in Compilers,
           \A q \in Requests \ {c} : tx'[q] = tx[q],
           claims' = claims, revisions' = revisions,
           \A d \in Compilers \ {c} :
              at'[d] = at[d] /\ job'[d] = job[d] /\ compiled'[d] = compiled[d],
           IInv', CTypeOK', Progress(c)'
    PROVE  CIInv'
<1>1. /\ \A s : Numbers(s) \subseteq Numbers(s)'
      /\ \A d : ClaimsOf(d)' = ClaimsOf(d)
  BY DEF Numbers, ClaimsOf
<1>2. \A d \in Compilers \ {c} : Progress(d)'
  BY <1>1, ProgressFrame DEF CIInv
<1> QED  BY <1>2 DEF CIInv

(* A transaction of the job's row: nothing else moves. *)
LEMMA BookkeepingInv ==
    ASSUME CIInv, NEW c \in Compilers, NEW stage \in Stages, NEW status, UNCHANGED vars,
           at' = [at EXCEPT ![c] = stage], job' = [job EXCEPT ![c] = status],
           UNCHANGED <<compiled, unrecorded>>,
           \/ /\ at[c] = "start" /\ stage = "created" /\ status = "pending"
           \/ /\ at[c] = "created" /\ stage = "query" /\ status = "processing"
           \/ /\ at[c] = "query" /\ stage \in {"title", "recordFailure"} /\ status = job[c]
           \/ /\ at[c] = "recordSuccess" /\ stage = "answered" /\ status = "succeeded"
           \/ /\ at[c] = "recordFailure" /\ stage = "raised" /\ status = "failed"
           \/ /\ at[c] \in {"page", "claims"} /\ stage = "raised" /\ status = job[c]
    PROVE  CIInv'
<1>1. /\ tx' = tx /\ claims' = claims /\ revisions' = revisions
      /\ Progress(c) /\ CTypeOK /\ IInv
  BY DEF vars, tables, CIInv
<1>2. IInv'  BY <1>1, StutterInv
<1>3. CTypeOK'  BY <1>1 DEF CTypeOK, Tried, Stages
<1>4. ClaimsOf(c)' = ClaimsOf(c) /\ \A n, s : Kept(c, n, s) => Kept(c, n, s)'
  BY <1>1 DEF ClaimsOf, Kept, Numbers
<1>5. at'[c] = stage /\ job'[c] = status  BY <1>1 DEF CTypeOK
<1>6. at[c] = "recordSuccess" => tx[c].slug \in Slugs
  BY <1>1 DEF Progress, IInv, Course
<1>7. at[c] # "answered" => job[c] # "succeeded"
  BY <1>1 DEF Progress
<1>8. Progress(c)'  BY <1>1, <1>4, <1>5, <1>6, <1>7 DEF Progress
<1> QED  BY <1>1, <1>2, <1>3, <1>8, CompilersFrame DEF CTypeOK

LEMMA ResolveTitleInv ==
    ASSUME CIInv, NEW c \in Compilers, ResolvePageTitle(c)
    PROVE  CIInv'
<1>1. PICK s \in Slugs, title \in Titles :
          Begin(c, [op |-> "write", slug |-> s, title |-> title, status |-> Unset, links |-> {s}], 0)
  BY DEF ResolvePageTitle
<1> DEFINE call == [op |-> "write", slug |-> s, title |-> title, status |-> Unset, links |-> {s}]
<1>2. /\ at[c] = "title" /\ at' = [at EXCEPT ![c] = "page"] /\ UNCHANGED <<job, compiled, unrecorded>>
      /\ Progress(c) /\ CTypeOK /\ IInv /\ c \in Requests
  BY DEF ResolvePageTitle, Stage, CIInv
<1>3. tx[c].step = "new" /\ ClaimsOf(c) = {}  BY <1>2 DEF Progress
<1>4. /\ call.op = "write" /\ call.slug = s /\ call.title = title /\ call.status = Unset
      /\ call.links = {s} /\ title # Unset /\ Begin(c, call, 0)
  BY <1>1, WikiAssumption
<1> HIDE DEF call
<1>5. IInv'  BY <1>2, <1>3, <1>4, BeginInv DEF Workflows
<1>6. /\ tx'[c].step = "select" /\ tx'[c].op = "write" /\ tx'[c].item = 0
      /\ \A q \in Requests \ {c} : tx'[q] = tx[q]
      /\ claims' = claims /\ revisions' = revisions
  BY <1>2, <1>4 DEF Begin, Moves, tables, IInv, Idle
<1>7. CTypeOK'  BY <1>2 DEF CTypeOK, Tried, Stages
<1>8. ClaimsOf(c)' = {}  BY <1>3, <1>6 DEF ClaimsOf
<1>9. at'[c] = "page" /\ job'[c] # "succeeded"  BY <1>2 DEF CTypeOK, Progress
<1>10. Progress(c)'  BY <1>6, <1>8, <1>9 DEF Progress
<1> QED  BY <1>2, <1>5, <1>6, <1>7, <1>10, CompilersFrame DEF CTypeOK

LEMMA NextClaimInv ==
    ASSUME CIInv, NEW c \in Compilers, NextClaim(c)
    PROVE  CIInv'
<1> DEFINE stored == IF at[c] = "page" THEN 0 ELSE tx[c].item
<1>1. /\ at[c] \in {"page", "claims"} /\ tx[c].step = "done" /\ unrecorded' = unrecorded /\ job' = job
      /\ compiled' = [compiled EXCEPT ![c] = IF at[c] = "page" THEN tx[c].no ELSE @]
      /\ Progress(c) /\ CTypeOK /\ IInv /\ c \in Requests
  BY DEF NextClaim, At, CIInv
<1>2. /\ tx[c] \in Transactions /\ Course(tx[c]) /\ Numbering(tx[c])
  BY <1>1 DEF IInv
<1>3. PICK s \in Slugs : s = tx[c].slug  BY <1>1, <1>2 DEF Course
<1>4. /\ stored \in 0..ClaimCount /\ tx[c].op \in {"write", "claim"}
      /\ {claim.item : claim \in ClaimsOf(c)} = 1..stored
      /\ \A claim \in ClaimsOf(c) : claim.slug = s
  BY <1>1, <1>3 DEF Progress, Kept
<1>5. compiled'[c] \in Numbers(s) /\ Numbers(s) \subseteq Nat
  <2>1. Numbers(s) \subseteq Nat  BY <1>1 DEF IInv, Stored, Tables, Numbers, Revisions
  <2>2. CASE at[c] = "page"
    BY <1>1, <1>2, <1>3, <2>1, <2>2 DEF CTypeOK, Progress, Numbering, Writer
  <2>3. CASE at[c] = "claims"
    BY <1>1, <1>3, <2>1, <2>3 DEF CTypeOK, Progress, Kept
  <2> QED  BY <1>1, <2>1, <2>2, <2>3
<1>6. compiled' \in [Compilers -> Nat]  BY <1>1, <1>5 DEF CTypeOK
<1>7. job[c] = "processing"  BY <1>1 DEF CTypeOK, Tried
<1>8. CASE stored < ClaimCount
  <2> DEFINE call == ClaimCall(c)
  <2>1. Begin(c, call, stored + 1) /\ at' = [at EXCEPT ![c] = "claims"]
    BY <1>8 DEF NextClaim, Stage
  <2>2. /\ call.op = "claim" /\ call.slug = s /\ call.title = Unset /\ call.status = Unset
        /\ call.links = {}
    BY <1>3 DEF ClaimCall
  <2>3. PICK n : n = stored + 1 /\ n \in 1..ClaimCount /\ n - 1 = stored
    BY <1>4, <1>8
  <2> HIDE DEF call, stored
  <2>4. IInv'
    BY <1>1, <1>4, <2>1, <2>2, <2>3, BeginInv DEF Workflows
  <2>5. /\ tx'[c].step = "select" /\ tx'[c].op = "claim" /\ tx'[c].item = n /\ tx'[c].slug = s
        /\ \A q \in Requests \ {c} : tx'[q] = tx[q]
        /\ claims' = claims /\ revisions' = revisions
    BY <1>1, <2>1, <2>2, <2>3 DEF Begin, Moves, tables, IInv, Idle
  <2>6. CTypeOK'  BY <1>1, <1>6, <1>7, <2>1 DEF CTypeOK, Tried, Stages
  <2>7. ClaimsOf(c)' = ClaimsOf(c) /\ Numbers(s)' = Numbers(s)
    BY <2>5 DEF ClaimsOf, Numbers
  <2>8. Kept(c, n - 1, s)'  BY <1>4, <1>5, <2>3, <2>7 DEF Kept
  <2>9. at'[c] = "claims" /\ job'[c] # "succeeded"  BY <1>1, <1>7, <2>1 DEF CTypeOK
  <2>10. Progress(c)'  BY <2>3, <2>5, <2>8, <2>9 DEF Progress
  <2> QED  BY <1>1, <2>1, <2>4, <2>5, <2>6, <2>10, CompilersFrame DEF CTypeOK
<1>9. CASE ~(stored < ClaimCount)
  <2>1. UNCHANGED vars /\ at' = [at EXCEPT ![c] = "recordSuccess"]
    BY <1>9 DEF NextClaim, Stage
  <2>2. stored = ClaimCount  BY <1>4, <1>9
  <2> HIDE DEF stored
  <2>3. tx' = tx /\ claims' = claims /\ revisions' = revisions  BY <2>1 DEF vars, tables
  <2>4. IInv'  BY <1>1, <2>1, StutterInv
  <2>5. CTypeOK'  BY <1>1, <1>6, <1>7, <2>1 DEF CTypeOK, Tried, Stages
  <2>6. ClaimsOf(c)' = ClaimsOf(c) /\ Numbers(s)' = Numbers(s)
    BY <2>3 DEF ClaimsOf, Numbers
  <2>7. Kept(c, ClaimCount, s)'  BY <1>4, <1>5, <2>2, <2>6 DEF Kept
  <2>8. at'[c] = "recordSuccess" /\ job'[c] # "succeeded"  BY <1>1, <1>7, <2>1 DEF CTypeOK
  <2>9. Progress(c)'  BY <1>1, <1>3, <1>4, <2>3, <2>7, <2>8 DEF Progress, Kept
  <2> QED  BY <1>1, <2>1, <2>3, <2>4, <2>5, <2>9, CompilersFrame DEF CTypeOK
<1> QED  BY <1>8, <1>9

LEMMA StopsInv ==
    ASSUME CIInv, NEW c \in Compilers, CompileStops(c)
    PROVE  CIInv'
<1>1. /\ at[c] \notin {"start", "answered", "raised"} /\ at' = [at EXCEPT ![c] = "raised"]
      /\ unrecorded' = unrecorded \cup {c} /\ Raises(c) /\ UNCHANGED <<job, compiled>>
      /\ Progress(c) /\ CTypeOK /\ IInv /\ c \in Requests
  BY DEF CompileStops, Stage, CIInv
<1>2. tx[c].step # "done" \/ tx[c].op \notin {"publish", "rebuild"}
  BY <1>1 DEF CTypeOK, Stages, Progress
<1>3. IInv'  BY <1>1, <1>2, RaisesInv
<1>4. /\ \A q \in Requests \ {c} : tx'[q] = tx[q]
      /\ claims' = claims /\ revisions' = revisions
  BY <1>1 DEF Raises, Moves, tables, IInv
<1>5. CTypeOK'  BY <1>1 DEF CTypeOK, Tried, Stages
<1>6. at'[c] = "raised" /\ job'[c] # "succeeded"  BY <1>1 DEF CTypeOK, Progress
<1>7. Progress(c)'  BY <1>6 DEF Progress
<1> QED  BY <1>1, <1>3, <1>4, <1>5, <1>7, CompilersFrame DEF CTypeOK

LEMMA CompilerInv ==
    ASSUME CIInv, NEW c \in Compilers, CompilerStep(c)
    PROVE  CIInv'
<1> USE DEF Stage, Record
<1>1. job = [job EXCEPT ![c] = job[c]]  BY DEF CIInv, CTypeOK
<1>2. {"created", "query", "title", "recordFailure", "answered", "raised"} \subseteq Stages
  BY DEF Stages
<1>3. CASE CreateCompileJob(c)  BY <1>2, <1>3, BookkeepingInv DEF CreateCompileJob
<1>4. CASE MarkCompileJobProcessing(c)  BY <1>2, <1>4, BookkeepingInv DEF MarkCompileJobProcessing
<1>5. CASE SearchEvidence(c)  BY <1>1, <1>2, <1>5, BookkeepingInv DEF SearchEvidence
<1>6. CASE ResolvePageTitle(c)  BY <1>6, ResolveTitleInv
<1>7. CASE NextClaim(c)  BY <1>7, NextClaimInv
<1>8. CASE MarkCompileJobSucceeded(c)  BY <1>2, <1>8, BookkeepingInv DEF MarkCompileJobSucceeded
<1>9. CASE SearchRaises(c)  BY <1>1, <1>2, <1>9, BookkeepingInv DEF SearchRaises
<1>10. CASE MarkCompileJobFailed(c)  BY <1>2, <1>10, BookkeepingInv DEF MarkCompileJobFailed
<1>11. CASE CompileRaises(c)  BY <1>1, <1>2, <1>11, BookkeepingInv DEF CompileRaises
<1> QED
  BY <1>3, <1>4, <1>5, <1>6, <1>7, <1>8, <1>9, <1>10, <1>11 DEF CompilerStep

LEMMA CStutterInv ==
    ASSUME CIInv, UNCHANGED cvars
    PROVE  CIInv'
<1>1. /\ UNCHANGED vars /\ UNCHANGED <<tx, claims, revisions, job, at, compiled, unrecorded>>
  BY DEF cvars, vars, tables
<1>2. IInv'  BY <1>1, StutterInv DEF CIInv
<1>3. CTypeOK'  BY <1>1 DEF CIInv, CTypeOK
<1>4. (\A c : ClaimsOf(c)' = ClaimsOf(c)) /\ \A s : Numbers(s) \subseteq Numbers(s)'
  BY <1>1 DEF ClaimsOf, Numbers
<1>5. \A c \in Compilers : Progress(c)'
  BY <1>1, <1>4, ProgressFrame DEF CIInv
<1> QED  BY <1>2, <1>3, <1>5 DEF CIInv

----------------------------------------------------------------------------
(* The invariant of the wiki holds among compilations, and each            *)
(* compilation has stored what the stage it is at says.                    *)
THEOREM CompileInvariant == CSpec => []CIInv
<1>1. CIInv /\ [CNext]_cvars => CIInv'
  BY CompilerInv, StopsInv, EditorsInv, CStutterInv DEF CNext
<1> QED  BY CInitInv, <1>1, PTL DEF CSpec

(* A compile job is "processing" exactly while its request is inside the   *)
(* try block, and "succeeded" when the request was answered.               *)
THEOREM CompileTypeCorrect == CSpec => []CTypeOK
<1>1. CIInv => CTypeOK  BY DEF CIInv
<1> QED  BY CompileInvariant, <1>1, PTL

(* A compile job that says "succeeded" has all its claims, on one page,    *)
(* and that page the revision the compile answered with, whatever other    *)
(* editors and compilations did between its transactions.                  *)
THEOREM CompleteJobs == CSpec => []SucceededJobsAreComplete
<1>1. CIInv => SucceededJobsAreComplete
  BY DEF CIInv, Progress, Kept, SucceededJobsAreComplete
<1> QED  BY CompileInvariant, <1>1, PTL

(* The pages that can be read have a current revision, the revisions their *)
(* dense numbers and the links the current text, also when the writers     *)
(* are compilations.                                                       *)
THEOREM CompileKeepsWiki ==
    CSpec => [](TypeOK /\ PagesHaveCurrentRevision /\ RevisionNumbersDense
                  /\ LinksOfCurrentRevision /\ BrokenLinksReported)
<1>1. CIInv => TypeOK /\ PagesHaveCurrentRevision /\ RevisionNumbersDense
                 /\ LinksOfCurrentRevision /\ BrokenLinksReported
  BY WikiPromises DEF CIInv
<1> QED  BY CompileInvariant, <1>1, PTL

----------------------------------------------------------------------------
(* The history of the pages. *)

LEMMA CInitMaps == CInit => History!Init
BY InitMaps DEF CInit

(* A compilation moves in the wiki by calls and rollbacks of its own, or   *)
(* not at all.                                                             *)
LEMMA CompilerMaps ==
    ASSUME CIInv, NEW c \in Compilers, CompilerStep(c) \/ CompileStops(c)
    PROVE  /\ [History!Next]_(History!hvars)
           /\ revisions' = revisions
<1>1. c \in Requests /\ IInv  BY CompileAssumption DEF CIInv
<1>2. \/ UNCHANGED vars
      \/ Raises(c)
      \/ \E call, item : Begin(c, call, item)
  BY DEF CompilerStep, CreateCompileJob, MarkCompileJobProcessing, SearchEvidence, ResolvePageTitle,
     NextClaim, MarkCompileJobSucceeded, SearchRaises, MarkCompileJobFailed, CompileRaises, CompileStops
<1>3. CASE UNCHANGED vars
  BY <1>1, <1>3, StutterMaps DEF vars, tables
<1>4. CASE Raises(c)
  BY <1>1, <1>4, RaisesGivesUp DEF Raises, Moves, tables
<1>5. CASE \E call, item : Begin(c, call, item)
  BY <1>1, <1>5, BeginKeepsEdits DEF Begin, Moves, tables
<1> QED  BY <1>2, <1>3, <1>4, <1>5

LEMMA CStepMaps ==
    CIInv /\ CIInv' /\ [CNext]_cvars =>
        [History!Next]_(History!hvars) /\ [Settled \subseteq Settled']_vars
<1> SUFFICES ASSUME CIInv, CIInv', [CNext]_cvars
             PROVE  [History!Next]_(History!hvars) /\ Settled \subseteq Settled'
  OBVIOUS
<1>1. IInv /\ IInv'  BY DEF CIInv
<1>2. CASE \E c \in Compilers : CompilerStep(c) \/ CompileStops(c)
  <2>1. [History!Next]_(History!hvars) /\ revisions' = revisions  BY <1>2, CompilerMaps
  <2>2. Settled \subseteq revisions'  BY <2>1 DEF Settled
  <2> QED  BY <1>1, <2>1, <2>2, SettledFrame
<1>3. CASE [Next]_vars
  BY <1>1, <1>3, StepMaps, SettledStay
<1>4. [CNext]_cvars => (\E c \in Compilers : CompilerStep(c) \/ CompileStops(c)) \/ [Next]_vars
  BY DEF CNext, cvars, Next
<1> QED  BY <1>2, <1>3, <1>4

(* The history of a page is kept with compilations among the editors.      *)
THEOREM CompileKeepsHistory == CSpec => ImplementsWikiHistory /\ SettledRevisionsKept
BY CInitMaps, CStepMaps, CompileInvariant, PTL
   DEF CSpec, ImplementsWikiHistory, History!Spec, SettledRevisionsKept
=============================================================================
