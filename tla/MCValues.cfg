\* Two variables and four Values in containers, leaked ones included.  The name is a
\* number, for it is compared with indices; no array has an element 0.
SPECIFICATION Spec
CONSTANTS
    Variables = {x, y}
    Heap = {h1, h2, h3, h4}
    Scalars = {"nil"}
    Names = {0}
SYMMETRY Symmetry
INVARIANTS
    TypeOK
    OneOwner
    NothingLost
PROPERTY
    ImplementsTrees
