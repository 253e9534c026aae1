\* Two processes that fetch from one source whose content advances and goes
\* back, with publications in the same second and in different ones.
SPECIFICATION Spec
CONSTANTS
    Days = {1, 2}
    Revisions = {r1}
    Times = {0, 1}
    None = None
    Fetchers = {f1, f2}
    Urls = {u1}
    MaxAttempts = 2
SYMMETRY Symmetry
INVARIANTS
    TypeOK
    PointerIsComplete
    TagsAreCovered
PROPERTIES
    CompleteIsImmutable
    ImplementsHistory
