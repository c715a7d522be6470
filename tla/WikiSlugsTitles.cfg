CONSTANTS
    Chars <- AllChars
    MaxTyped = 4
    MaxTexts = 3
    CurrentSlug <- SlugOfAA
    MaxRelated = 2
    MaxClaims = 2
    MinLength = 2
    MaxLength = 3
    MaxHeadingWords = 1
    Items <- SomeItems
    MaxItems = 2
    MaxNesting = 2
    SourceIds = {d1, d2}
    Blank = Blank
    None = None
SPECIFICATION ESpec
CHECK_DEADLOCK FALSE
INVARIANTS SlugsAreCanonical ShownClaimsAreStored RelatedPagesAreLinked ProvenanceKept
