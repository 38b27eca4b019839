SPECIFICATION Spec
CONSTANTS
    N = 2
INVARIANTS
    LibraryOutlivesPointers
