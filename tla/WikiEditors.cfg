CONSTANTS
    Requests = {r1, r2, r3, r4}
    Slugs = {s1, s2}
    Titles = {t1, t2}
    Calls <- EditorCalls
    First = s1
    Unset = Unset
SPECIFICATION Spec
CHECK_DEADLOCK FALSE
SYMMETRY Symmetry
INVARIANTS TypeOK PagesHaveCurrentRevision RevisionNumbersDense LinksOfCurrentRevision BrokenLinksReported CirclesNeedChangedPage
PROPERTY SettledRevisionsKept
