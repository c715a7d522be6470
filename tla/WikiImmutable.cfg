CONSTANTS
    Requests = {r1, r2, r3}
    Slugs = {s1}
    Titles = {t1}
    Calls <- RevisionCalls
    First = s1
    Unset = Unset
SPECIFICATION FairSpec
CHECK_DEADLOCK FALSE
PROPERTY RevisionsImmutable
