SPECIFICATION Spec
CONSTANT
    Scrapes = {s1, s2}
INVARIANTS
    ReadyIsMostRecent
