SPECIFICATION Spec
CONSTANTS
    CANVAS_RAM_SIZE = 4
    MAX_FORMULAS = 3
    MAX_FORMULA_DEPS = 2
    Width = 1
    Ops = {"ADD"}
    DepLists <- MCDepLists
    StoreValues = {1}
INVARIANTS
    TypeOK
    VectorSound
    Acyclic
PROPERTIES
    ImplementsSheet
