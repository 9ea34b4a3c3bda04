SPECIFICATION Spec
CONSTANT
    Scrapes = {s1, s2, s3, s4}
SYMMETRY Symmetry
INVARIANTS
    TypeOK
    ReadyAfterLoneScrape
    ReadyNeedsSuccess
    AnswerIsWhole
