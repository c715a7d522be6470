CONSTANTS
    Requests = {r1, r2, c1}
    Compilers = {c1}
    Slugs = {s1}
    Titles = {t1, t2}
    Calls <- EditorCalls
    Unset = Unset
    ClaimCount = 2
SPECIFICATION CFairSpec
CHECK_DEADLOCK FALSE
INVARIANTS CTypeOK SucceededJobsAreComplete
PROPERTIES ImplementsWikiHistory CompilersEnd RequestsEnd
